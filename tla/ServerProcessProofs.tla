------------------------ MODULE ServerProcessProofs ------------------------
(***************************************************************************)
(* Theorems about ServerProcess, for any number of connections, any table  *)
(* of descriptors and any directories.                                     *)
(***************************************************************************)
EXTENDS ServerProcess, FiniteSetTheorems, TLAPS

-----------------------------------------------------------------------------
(* The singleton.                                                           *)

\* What is assigned has been constructed, and who has passed the test has found or assigned it.
InstanceInv ==
    /\ pc \in [Clients -> Pcs]
    /\ instance # "null" => instance \in made
    /\ \A c \in Clients : pc[c] = "assign" => c \in made
    /\ InstanceComplete

\* The steps of a login that do not touch the singleton, and those of a handler.
Apart(c) ==
    \/ PubKey(c) \/ M2(c) \/ PrivKey(c) \/ Sign(c) \/ Cert(c) \/ M3(c) \/ M5(c)
    \/ Handle(c) \/ Requests(c) \/ Vanish(c)

\* They leave it alone and neither enter nor skip a step of getInstance.
LEMMA ApartFromInstance ==
    ASSUME InstanceInv, NEW c \in Clients, Apart(c)
    PROVE  /\ UNCHANGED <<instance, made>>
           /\ pc' = [pc EXCEPT ![c] = pc'[c]] /\ pc'[c] \in Pcs
           /\ pc'[c] \notin {"construct", "assign", "cert"} /\ (pc'[c] = "m3" => pc[c] = "cert")
  <1>1. UNCHANGED <<instance, made>>
    BY DEF Apart, PubKey, M2, PrivKey, Sign, Cert, M3, M5, Handle, Requests, Request, Vanish,
           Taken, RenOld, RenFound, RenNew, RenMove, UpM2, UpLook, UpThere, UpCreate, UpMi,
           UpClose, DownM2, DownFound, DownOpen, DownSize, DownSized, DownMi, List, Listed,
           DelM3, DelFound, Within, NoInstance
  <1>2. CASE PubKey(c) \/ M2(c) \/ PrivKey(c) \/ Sign(c) \/ Cert(c) \/ M3(c) \/ M5(c)
    BY <1>1, <1>2 DEF InstanceInv, Goto, PubKey, M2, PrivKey, Sign, Cert, M3, M5, Pcs
  <1>3. CASE Requests(c)
    BY <1>1, <1>3 DEF InstanceInv, Goto, Requests, Request, Pcs
  <1>4. CASE Vanish(c)
    BY <1>1, <1>4 DEF InstanceInv, Goto, Vanish, Pcs
  <1>5. CASE Taken(c) \/ RenOld(c) \/ RenFound(c) \/ RenNew(c) \/ RenMove(c)
    BY <1>1, <1>5 DEF InstanceInv, Goto, Taken, RenOld, RenFound, RenNew, RenMove, Look, Answer,
       Goes, Pcs
  <1>6. CASE UpM2(c) \/ UpLook(c) \/ UpThere(c) \/ UpCreate(c) \/ UpMi(c) \/ UpClose(c)
    BY <1>1, <1>6 DEF InstanceInv, Goto, UpM2, UpLook, UpThere, UpCreate, UpMi, UpClose, Look,
       Answer, Goes, Pcs
  <1>7. CASE \/ DownM2(c) \/ DownFound(c) \/ DownOpen(c) \/ DownSize(c) \/ DownSized(c)
             \/ DownMi(c)
    BY <1>1, <1>7 DEF InstanceInv, Goto, DownM2, DownFound, DownOpen, DownSize, DownSized,
       DownMi, Look, Answer,
                      Goes, Pcs
  <1>8. CASE List(c) \/ Listed(c) \/ DelM3(c) \/ DelFound(c)
    BY <1>1, <1>8 DEF InstanceInv, Goto, List, Listed, DelM3, DelFound, Look, Answer, Goes, Pcs
  <1> QED BY <1>1, <1>2, <1>3, <1>4, <1>5, <1>6, <1>7, <1>8 DEF Apart, Handle

\* It holds at the start.
LEMMA InstanceInit == Init => InstanceInv
  BY DEF Init, InstanceInv, InstanceComplete, Pcs

\* Every step keeps it.
LEMMA InstanceStep == InstanceInv /\ [Next]_vars => InstanceInv'
  <1> SUFFICES ASSUME InstanceInv, [Next]_vars PROVE InstanceInv'
    OBVIOUS
  <1>1. ASSUME NEW c \in Clients, Apart(c) PROVE InstanceInv'
    BY <1>1, ApartFromInstance DEF InstanceInv, InstanceComplete
  <1>2. ASSUME NEW c \in Clients, GetInstance(c) PROVE InstanceInv'
    BY <1>2 DEF GetInstance, Goto, NoInstance, InstanceInv, InstanceComplete, Pcs
  <1>3. ASSUME NEW c \in Clients, Construct(c) PROVE InstanceInv'
    BY <1>3 DEF Construct, Goto, InstanceInv, InstanceComplete, Pcs
  <1>4. ASSUME NEW c \in Clients, Assign(c) PROVE InstanceInv'
    BY <1>4 DEF Assign, Goto, InstanceInv, InstanceComplete, Pcs
  <1>5. CASE Accept
    BY <1>5 DEF Accept, InstanceInv, InstanceComplete, Pcs
  <1>6. CASE EmplaceFails \/ (\E c \in Clients : Connect(c)) \/ UNCHANGED vars
    BY <1>6 DEF EmplaceFails, Connect, vars, threads, InstanceInv, InstanceComplete
  <1> QED BY <1>1, <1>2, <1>3, <1>4, <1>5, <1>6 DEF Next, Thread, Login, Apart

\* The race in getInstance is harmless: any number of threads may find no instance, construct
\* one each and overwrite each other's, and none goes on with one that is not complete.
THEOREM SingletonComplete == Spec => []InstanceComplete
  <1>1. InstanceInv => InstanceComplete
    BY DEF InstanceInv
  <1> QED BY <1>1, InstanceInit, InstanceStep, PTL DEF Spec

-----------------------------------------------------------------------------
(* What a full table can do to the files.                                   *)

TypesOK ==
    /\ pc \in [Clients -> Pcs] /\ op \in [Clients -> Operations]
    /\ dir \in [Clients -> [Names -> {"none", "empty", "old", "new"}]]

Renaming == {"renOld", "renFound", "renNew", "renMove"}
Uploading == {"upM2", "upLook", "upThere", "upCreate", "upMi", "upClose"}
Deleting == {"delM3", "delFound"}

\* The handler is that of the request, and a thread that has opened every file it looked for
\* replaces no file.
Sees(c) ==
    /\ pc[c] \in Renaming => op[c].kind = "rename"
    /\ pc[c] \in Uploading => op[c].kind = "upload"
    /\ pc[c] \in Deleting => op[c].kind = "delete"
    /\ pc[c] = "renMove" /\ c \notin blind => ~Exists(c, op[c].new)
    /\ pc[c] = "upCreate" /\ c \notin blind => ~Exists(c, op[c].name)

LossInv == TypesOK /\ \A c \in Clients : Sees(c)

\* What a step of thread c may do to the directory of its user.
Allowed(c) == \A f \in Names : Exists(c, f) /\ dir'[c][f] # dir[c][f] =>
    \/ c \in blind
    \/ op[c].kind = "delete" /\ op[c].name = f
    \/ op[c].kind = "rename" /\ op[c].name = f /\ dir'[c][op[c].new] = dir[c][f]
    \/ op[c].kind = "upload" /\ op[c].name = f /\ Holds(c, "file")

\* A step of thread c is its own: it has a type, and other users see nothing of it.
Own(c) ==
    /\ TypesOK' /\ blind \subseteq blind' /\ blind' \subseteq blind \cup {c}
    /\ \A d \in Clients \ {c} : pc'[d] = pc[d] /\ op'[d] = op[d] /\ dir'[d] = dir[d]

\* A step of one thread changes nothing for the others.
LEMMA OwnStep ==
    ASSUME LossInv, NEW c \in Clients, Own(c), Sees(c)', Allowed(c)
    PROVE  LossInv' /\ \A d \in Clients : Allowed(d)
  <1>1. ASSUME NEW d \in Clients, d # c PROVE Sees(d)' /\ Allowed(d)
    <2>1. pc'[d] = pc[d] /\ op'[d] = op[d] /\ dir'[d] = dir[d] /\ (d \in blind' <=> d \in blind)
      BY <1>1 DEF Own
    <2> QED BY <2>1 DEF LossInv, Sees, Exists, Allowed
  <1> QED BY <1>1 DEF LossInv, Own

\* The files stay as they are: all steps but four.
LEMMA Looks ==
    ASSUME LossInv, NEW c \in Clients, UNCHANGED <<op, dir>>,
           \/ Login(c) \/ Taken(c) \/ RenOld(c) \/ RenFound(c) \/ RenNew(c)
           \/ UpM2(c) \/ UpLook(c) \/ UpThere(c) \/ UpClose(c)
           \/ DownM2(c) \/ DownFound(c) \/ DownOpen(c) \/ DownSize(c) \/ DownSized(c)
           \/ DownMi(c) \/ List(c) \/ Listed(c) \/ DelM3(c)
           \/ Vanish(c)
    PROVE  Own(c) /\ Sees(c)' /\ Allowed(c)
  <1>1. Allowed(c)
    BY DEF Allowed
  <1>2. blind \subseteq blind' /\ blind' \subseteq blind \cup {c}
    BY DEF Login, PubKey, M2, PrivKey, Sign, GetInstance, Construct, Assign, Cert, M3, M5,
           Taken, RenOld, RenFound, RenNew, UpM2, UpLook, UpThere, UpClose, DownM2, DownFound,
           DownOpen, DownSize, DownSized, DownMi, List, Listed, DelM3, Vanish, Look,
           Opens, Closes, OpensNothing, Misses
  <1>3. \/ RenNew(c) \/ UpLook(c)
        \/ /\ pc' = [pc EXCEPT ![c] = pc'[c]] /\ pc'[c] \in Pcs
           /\ pc'[c] \notin {"renMove", "upCreate"}
           /\ pc'[c] \in Renaming => pc[c] \in Renaming
           /\ pc'[c] \in Uploading => pc[c] \in Uploading
           /\ pc'[c] \in Deleting => pc[c] \in Deleting
    <2>1. CASE Login(c)
      BY <2>1 DEF LossInv, TypesOK, Goto, Login, PubKey, M2, PrivKey, Sign, GetInstance,
                  Construct, Assign, Cert, M3, M5, Pcs, Renaming, Uploading, Deleting
    <2>2. CASE Taken(c) \/ RenOld(c) \/ RenFound(c)
      BY <2>2 DEF LossInv, TypesOK, Goto, Taken, RenOld, RenFound, Look, Answer, Goes, Pcs,
                  Renaming, Uploading, Deleting
    <2>3. CASE UpM2(c) \/ UpThere(c) \/ UpClose(c)
      BY <2>3 DEF LossInv, TypesOK, Goto, UpM2, UpThere, UpClose, Look, Answer, Goes, Pcs,
                  Renaming, Uploading, Deleting
    <2>4. CASE \/ DownM2(c) \/ DownFound(c) \/ DownOpen(c) \/ DownSize(c) \/ DownSized(c)
               \/ DownMi(c)
      BY <2>4 DEF LossInv, TypesOK, Goto, DownM2, DownFound, DownOpen, DownSize, DownSized,
                  DownMi, Look, Answer, Goes, Pcs, Renaming, Uploading, Deleting
    <2>5. CASE List(c) \/ Listed(c) \/ DelM3(c) \/ Vanish(c)
      BY <2>5 DEF LossInv, TypesOK, Goto, List, Listed, DelM3, Vanish, Look, Answer, Goes,
                  Pcs, Renaming, Uploading, Deleting
    <2> QED BY <2>1, <2>2, <2>3, <2>4, <2>5
  <1>4. CASE RenNew(c)
    <2>1. pc[c] = "renNew" /\ pc' = [pc EXCEPT ![c] = pc'[c]]
          /\ \/ pc'[c] = "taken"
             \/ pc'[c] = "renMove" /\ (c \in blind' \/ ~Exists(c, op[c].new))
      BY <1>4 DEF RenNew, Look, Goes, Goto, Misses, LossInv, TypesOK
    <2>2. Own(c)
      BY <1>2, <2>1 DEF Own, LossInv, TypesOK, Pcs
    <2>3. Sees(c)'
      BY <2>1 DEF Sees, LossInv, TypesOK, Renaming, Uploading, Deleting, Exists
    <2> QED BY <1>1, <2>2, <2>3
  <1>5. CASE UpLook(c)
    <2>1. pc[c] = "upLook" /\ pc' = [pc EXCEPT ![c] = pc'[c]]
          /\ \/ pc'[c] = "upThere"
             \/ pc'[c] = "upCreate" /\ (c \in blind' \/ ~Exists(c, op[c].name))
      BY <1>5 DEF UpLook, Look, Goes, Goto, Misses, LossInv, TypesOK
    <2>2. Own(c)
      BY <1>2, <2>1 DEF Own, LossInv, TypesOK, Pcs
    <2>3. Sees(c)'
      BY <2>1 DEF Sees, LossInv, TypesOK, Renaming, Uploading, Deleting, Exists
    <2> QED BY <1>1, <2>2, <2>3
  <1>6. CASE ~(RenNew(c) \/ UpLook(c))
    BY <1>1, <1>2, <1>3, <1>6 DEF Own, Sees, LossInv, TypesOK
  <1> QED BY <1>4, <1>5, <1>6

\* A file gets another state, or another name.
LEMMA Writes ==
    ASSUME LossInv, NEW c \in Clients, UpCreate(c) \/ UpMi(c) \/ DelFound(c) \/ RenMove(c)
    PROVE  Own(c) /\ Sees(c)' /\ Allowed(c)
  <1>1. op[c].name \in Names /\ op[c].new \in Names
    BY DEF LossInv, TypesOK, Operations
  <1>2. blind' = blind /\ op' = op
    BY DEF UpCreate, UpMi, DelFound, RenMove, Opens, Closes, OpensNothing, Within, Stay
  <1>3. /\ pc' = [pc EXCEPT ![c] = pc'[c]]
        /\ \/ pc'[c] = "run"
           \/ pc[c] \in Uploading /\ pc'[c] \in {"upMi", "upClose"}
    BY DEF UpCreate, UpMi, DelFound, RenMove, Answer, Goes, Goto, LossInv, TypesOK, Uploading
  <1>4. Sees(c)'
    BY <1>2, <1>3 DEF Sees, LossInv, TypesOK, Renaming, Uploading, Deleting
  <1>5. dir' \in [Clients -> [Names -> {"none", "empty", "old", "new"}]]
        /\ \A d \in Clients \ {c} : dir'[d] = dir[d]
    <2>1. CASE UpCreate(c)
      BY <1>1, <2>1, SMTT(30) DEF UpCreate, NoFile, LossInv, TypesOK
    <2>2. CASE UpMi(c)
      BY <1>1, <2>2 DEF UpMi, LossInv, TypesOK
    <2>3. CASE DelFound(c)
      BY <1>1, <2>3 DEF DelFound, LossInv, TypesOK
    <2>4. CASE RenMove(c)
      BY <1>1, <2>4 DEF RenMove, LossInv, TypesOK
    <2> QED BY <2>1, <2>2, <2>3, <2>4
  <1>6. Own(c)
    <2>1. pc' \in [Clients -> Pcs]
      BY <1>3 DEF LossInv, TypesOK, Pcs
    <2>2. \A d \in Clients \ {c} : pc'[d] = pc[d]
      BY <1>3 DEF LossInv, TypesOK
    <2> QED BY <1>2, <1>5, <2>1, <2>2 DEF Own, LossInv, TypesOK
  <1>7. Allowed(c)
    <2>1. CASE UpCreate(c)
      <3>1. pc[c] = "upCreate" /\ (c \notin blind => ~Exists(c, op[c].name))
        BY <2>1 DEF UpCreate, Goes, Goto, LossInv, Sees
      <3>2. \A f \in Names : f # op[c].name => dir'[c][f] = dir[c][f]
        BY <1>1, <2>1 DEF UpCreate, NoFile, LossInv, TypesOK
      <3> QED BY <3>1, <3>2 DEF Allowed
    <2>2. CASE UpMi(c)
      <3>1. op[c].kind = "upload"
        BY <2>2 DEF UpMi, Goto, LossInv, Sees, Uploading
      <3>2. \A f \in Names : f # op[c].name \/ ~Holds(c, "file") => dir'[c][f] = dir[c][f]
        BY <1>1, <2>2 DEF UpMi, LossInv, TypesOK
      <3> QED BY <3>1, <3>2 DEF Allowed
    <2>3. CASE DelFound(c)
      <3>1. op[c].kind = "delete"
        BY <2>3 DEF DelFound, Answer, Goto, LossInv, Sees, Deleting
      <3>2. \A f \in Names : f # op[c].name => dir'[c][f] = dir[c][f]
        BY <1>1, <2>3 DEF DelFound, LossInv, TypesOK
      <3> QED BY <3>1, <3>2 DEF Allowed
    <2>4. CASE RenMove(c)
      <3>1. op[c].kind = "rename" /\ (c \notin blind => ~Exists(c, op[c].new))
        BY <2>4 DEF RenMove, Answer, Goto, LossInv, Sees, Renaming
      <3>2. /\ dir'[c][op[c].new] = dir[c][op[c].name]
            /\ \A f \in Names : f \notin {op[c].name, op[c].new} => dir'[c][f] = dir[c][f]
        BY <1>1, <2>4 DEF RenMove, LossInv, TypesOK
      <3> QED BY <3>1, <3>2 DEF Allowed
    <2> QED BY <2>1, <2>2, <2>3, <2>4
  <1> QED BY <1>4, <1>6, <1>7

\* A request starts where it belongs.
LEMMA Requested ==
    ASSUME LossInv, NEW c \in Clients, Requests(c)
    PROVE  Own(c) /\ Sees(c)' /\ Allowed(c)
  <1>1. ASSUME NEW o \in Operations, NEW to \in Pcs, Request(c, o, to),
               /\ to \notin {"renMove", "upCreate"}
               /\ to \in Renaming => o.kind = "rename"
               /\ to \in Uploading => o.kind = "upload"
               /\ to \in Deleting => o.kind = "delete"
        PROVE  Own(c) /\ Sees(c)' /\ Allowed(c)
    <2>1. pc' = [pc EXCEPT ![c] = to] /\ op' = [op EXCEPT ![c] = o] /\ dir' = dir /\ blind' = blind
      BY <1>1 DEF Request, Goto, OpensNothing, NoFile
    <2>2. Own(c)
      BY <2>1 DEF Own, LossInv, TypesOK
    <2>3. Sees(c)'
      BY <1>1, <2>1 DEF Sees, LossInv, TypesOK
    <2>4. Allowed(c)
      BY <2>1 DEF Allowed
    <2> QED BY <2>2, <2>3, <2>4
  <1>2. PICK f \in Names, g \in Names :
      \/ Request(c, [kind |-> "rename", name |-> f, new |-> g], "renOld")
      \/ Request(c, [kind |-> "upload", name |-> f, new |-> f], "upM2")
      \/ Request(c, [kind |-> "download", name |-> f, new |-> f], "downM2")
      \/ Request(c, [kind |-> "list", name |-> f, new |-> f], "list")
      \/ Request(c, [kind |-> "delete", name |-> f, new |-> f], "delM3")
    BY DEF Requests
  <1>3. /\ \A k \in {"rename", "upload", "download", "list", "delete"}, h \in Names :
              [kind |-> k, name |-> f, new |-> h] \in Operations
        /\ {"renOld", "upM2", "downM2", "list", "delM3"} \subseteq Pcs
    BY DEF Operations, Pcs
  <1> QED BY <1>1, <1>2, <1>3 DEF Renaming, Uploading, Deleting

\* Every step of a thread is its own and does what its user asked.
LEMMA ThreadStep ==
    ASSUME LossInv, NEW c \in Clients, Thread(c) \/ Requests(c) \/ Vanish(c)
    PROVE  Own(c) /\ Sees(c)' /\ Allowed(c)
  <1>1. CASE Requests(c)
    BY <1>1, Requested
  <1>2. CASE UpCreate(c) \/ UpMi(c) \/ DelFound(c) \/ RenMove(c)
    BY <1>2, Writes
  <1>3. CASE ~(Requests(c) \/ UpCreate(c) \/ UpMi(c) \/ DelFound(c) \/ RenMove(c))
    <2>1. UNCHANGED <<op, dir>>
      BY <1>3 DEF Thread, Login, Handle, PubKey, M2, PrivKey, Sign, GetInstance, Construct,
                  Assign, Cert, M3, M5, Taken, RenOld, RenFound, RenNew, UpM2, UpLook, UpThere,
                  UpClose, DownM2, DownFound, DownOpen, DownSize, DownSized, DownMi, List,
                  Listed, DelM3, Vanish, Within, Stay, NoFile
    <2> QED BY <1>3, <2>1, Looks DEF Thread, Handle
  <1> QED BY <1>1, <1>2, <1>3

\* Nobody has moved at the start.
LEMMA LossInit == Init => LossInv
  <1> SUFFICES ASSUME Init PROVE LossInv
    OBVIOUS
  <1>1. Idle \in Operations
    BY DirsAssumption DEF Idle, Operations
  <1>2. TypesOK
    BY <1>1, DirsAssumption DEF Init, TypesOK, Pcs
  <1>3. \A c \in Clients : Sees(c)
    BY DEF Init, Sees, Renaming, Uploading, Deleting
  <1> QED BY <1>2, <1>3 DEF LossInv

\* Nor does the accept loop touch a file.
LEMMA LossStep == LossInv /\ [Next]_vars => LossInv' /\ \A c \in Clients : Allowed(c)
  <1> SUFFICES ASSUME LossInv, [Next]_vars PROVE LossInv' /\ \A c \in Clients : Allowed(c)
    OBVIOUS
  <1>1. ASSUME NEW c \in Clients, Thread(c) \/ Requests(c) \/ Vanish(c)
        PROVE  LossInv' /\ \A d \in Clients : Allowed(d)
    BY <1>1, ThreadStep, OwnStep
  <1>2. CASE Accept
    <2>1. UNCHANGED <<op, dir, blind>> /\ pc' = [pc EXCEPT ![Head(queue)] = "pubKey"]
      BY <1>2 DEF Accept
    <2>2. TypesOK'
      BY <2>1 DEF LossInv, TypesOK, Pcs
    <2>3. \A c \in Clients : Sees(c)'
      BY <2>1 DEF LossInv, TypesOK, Sees, Exists, Renaming, Uploading, Deleting
    <2> QED BY <2>1, <2>2, <2>3 DEF LossInv, Allowed
  <1>3. CASE EmplaceFails \/ (\E c \in Clients : Connect(c)) \/ UNCHANGED vars
    <2>1. UNCHANGED <<pc, op, dir, blind>>
      BY <1>3 DEF EmplaceFails, Connect, vars, threads
    <2> QED BY <2>1 DEF LossInv, TypesOK, Sees, Exists, Allowed
  <1> QED BY <1>1, <1>2, <1>3 DEF Next

\* Whatever the other threads open and close: a thread that has never failed to open a file
\* moves, removes, replaces or empties a stored file only as its user asked.
THEOREM LossNeedsFullTable == Spec => LossOnlyWhenFull
  <1>1. LossInv /\ [Next]_vars =>
          [\A c \in Clients, f \in Names : Exists(c, f) /\ dir'[c][f] # dir[c][f] =>
              \/ c \in blind
              \/ op[c].kind = "delete" /\ op[c].name = f
              \/ op[c].kind = "rename" /\ op[c].name = f /\ dir'[c][op[c].new] = dir[c][f]
              \/ op[c].kind = "upload" /\ op[c].name = f /\ Holds(c, "file")]_vars
    BY LossStep DEF Allowed
  <1>2. LossInv /\ [Next]_vars => LossInv'
    BY LossStep
  <1> QED BY <1>1, <1>2, LossInit, PTL DEF Spec, LossOnlyWhenFull

-----------------------------------------------------------------------------
(* The types, and the descriptors in use.                                   *)

TypeInv == TypeOK /\ LossInv /\ IsFiniteSet(open)

\* What a thread does to the table: it opens one file, closes one, or neither.
Table1(c) ==
    \/ UNCHANGED open
    \/ \E use \in Uses : Free /\ open' = open \cup {<<c, use, count[c]>>}
    \/ \E use \in Uses : open' = open \ {<<c, use, count[c]>>}

\* The steps of a thread leave the accept loop alone and tell their own client, and only a
\* request is counted.
LEMMA ThreadMoves ==
    ASSUME TypeInv, NEW c \in Clients, Thread(c) \/ Requests(c) \/ Vanish(c)
    PROVE  /\ up /\ UNCHANGED <<up, queue, earlier>>
           /\ pc[c] # "none" /\ pc' = [pc EXCEPT ![c] = pc'[c]] /\ pc'[c] # "none"
           /\ \/ UNCHANGED told
              \/ \E w \in {"waiting", "in", "rejected", "gone"} : told' = [told EXCEPT ![c] = w]
           /\ \/ UNCHANGED count
              \/ count[c] < MaxOps /\ count' = [count EXCEPT ![c] = count[c] + 1]
           /\ Table1(c)
           /\ instance' \in Clients \cup {"null"} /\ made' \subseteq Clients
  <1> USE DEF TypeInv, TypeOK, Table1, Goto, Stay, NoInstance, Tell, Opens, Closes, OpensNothing,
     Misses
  <1>1. CASE PubKey(c) \/ M2(c) \/ PrivKey(c) \/ Sign(c)
    BY <1>1 DEF PubKey, M2, PrivKey, Sign, Uses
  <1>2. CASE GetInstance(c) \/ Construct(c) \/ Assign(c)
    BY <1>2 DEF GetInstance, Construct, Assign
  <1>3. CASE Cert(c) \/ M3(c) \/ M5(c)
    BY <1>3 DEF Cert, M3, M5, Uses
  <1> USE DEF Answer, Goes, Within, Look
  <1>4. CASE Taken(c) \/ RenOld(c) \/ RenFound(c) \/ RenNew(c) \/ RenMove(c)
    BY <1>4 DEF Taken, RenOld, RenFound, RenNew, RenMove, Uses
  <1>5. CASE UpM2(c) \/ UpLook(c) \/ UpThere(c)
    BY <1>5 DEF UpM2, UpLook, UpThere, Uses
  <1>6. CASE UpCreate(c) \/ UpMi(c) \/ UpClose(c)
    BY <1>6 DEF UpCreate, UpMi, UpClose, Uses
  <1>7. CASE DownM2(c) \/ DownFound(c) \/ DownOpen(c)
    BY <1>7 DEF DownM2, DownFound, DownOpen, Uses
  <1>8. CASE DownSize(c) \/ DownSized(c) \/ DownMi(c)
    BY <1>8 DEF DownSize, DownSized, DownMi, Uses
  <1>9. CASE List(c) \/ Listed(c) \/ DelM3(c) \/ DelFound(c)
    BY <1>9 DEF List, Listed, DelM3, DelFound, Uses
  <1>10. CASE Requests(c)
    BY <1>10 DEF Requests, Request
  <1>11. CASE Vanish(c)
    BY <1>11 DEF Vanish, Uses
  <1> QED BY <1>1, <1>2, <1>3, <1>4, <1>5, <1>6, <1>7, <1>8, <1>9, <1>10, <1>11
          DEF Thread, Login, Handle

\* One more descriptor, or one less.
LEMMA Descriptors ==
    ASSUME NEW S, IsFiniteSet(S), NEW d
    PROVE  /\ IsFiniteSet(S \cup {d}) /\ Cardinality(S \cup {d}) <= Cardinality(S) + 1
           /\ IsFiniteSet(S \ {d}) /\ Cardinality(S \ {d}) <= Cardinality(S)
  <1>1. Cardinality(S) \in Nat
    BY FS_CardinalityType
  <1>2. /\ IsFiniteSet(S \cup {d})
        /\ Cardinality(S \cup {d}) = IF d \in S THEN Cardinality(S) ELSE Cardinality(S) + 1
    BY FS_AddElement
  <1>3. /\ IsFiniteSet(S \ {d})
        /\ Cardinality(S \ {d}) = IF d \in S THEN Cardinality(S) - 1 ELSE Cardinality(S)
    BY FS_RemoveElement
  <1> QED BY <1>1, <1>2, <1>3

\* The table is never overfull.
LEMMA TableHolds ==
    ASSUME TypeInv, NEW c \in Clients, Table1(c), UNCHANGED earlier
    PROVE  IsFiniteSet(open') /\ InUse' <= Table /\ open' \subseteq Clients \X Uses \X (0..MaxOps)
  <1>0. earlier \in Nat /\ Table \in Nat /\ Cardinality(open) \in Nat /\ count[c] \in 0..MaxOps
    BY TableAssumption, FS_CardinalityType DEF TypeInv, TypeOK
  <1>1. CASE UNCHANGED open
    BY <1>1 DEF TypeInv, TypeOK, InUse
  <1>2. ASSUME NEW use \in Uses, Free, open' = open \cup {<<c, use, count[c]>>}
        PROVE  IsFiniteSet(open') /\ InUse' <= Table
               /\ open' \subseteq Clients \X Uses \X (0..MaxOps)
    <2>1. IsFiniteSet(open') /\ Cardinality(open') <= Cardinality(open) + 1
      BY <1>0, <1>2, Descriptors DEF TypeInv
    <2>2. Cardinality(open') \in Nat
      BY <2>1, FS_CardinalityType
    <2> QED BY <1>0, <1>2, <2>1, <2>2 DEF Free, InUse, TypeInv, TypeOK
  <1>3. ASSUME NEW use \in Uses, open' = open \ {<<c, use, count[c]>>}
        PROVE  IsFiniteSet(open') /\ InUse' <= Table
               /\ open' \subseteq Clients \X Uses \X (0..MaxOps)
    <2>1. IsFiniteSet(open') /\ Cardinality(open') <= Cardinality(open)
      BY <1>0, <1>3, Descriptors DEF TypeInv
    <2>2. Cardinality(open') \in Nat
      BY <2>1, FS_CardinalityType
    <2> QED BY <1>0, <1>3, <2>1, <2>2 DEF InUse, TypeInv, TypeOK
  <1> QED BY <1>1, <1>2, <1>3 DEF Table1

\* The table starts with the descriptors of past sessions.
LEMMA TypeInit == Init => TypeInv
  <1> SUFFICES ASSUME Init PROVE TypeInv
    OBVIOUS
  <1>1. LossInv
    BY LossInit
  <1>2. IsFiniteSet(open) /\ InUse <= Table
    <2>1. IsFiniteSet(open) /\ Cardinality(open) = 0
      BY FS_EmptySet DEF Init
    <2> QED BY <2>1, TableAssumption DEF Init, InUse
  <1>3. queue \in Seq(Clients) /\ Len(queue) <= MaxRequests
    BY TableAssumption DEF Init
  <1>4. /\ up \in BOOLEAN /\ told \in [Clients -> {"out", "waiting", "in", "rejected", "gone"}]
        /\ count \in [Clients -> 0..MaxOps]
        /\ open \subseteq Clients \X Uses \X (0..MaxOps) /\ earlier \in Earlier
        /\ instance \in Clients \cup {"null"} /\ made \subseteq Clients /\ blind \subseteq Clients
    BY TableAssumption DEF Init
  <1> QED BY <1>1, <1>2, <1>3, <1>4 DEF TypeInv, TypeOK, LossInv, TypesOK

\* Every step opens at most one file, and only while one is free.
LEMMA TypeStep == TypeInv /\ [Next]_vars => TypeInv'
  <1> SUFFICES ASSUME TypeInv, [Next]_vars PROVE TypeInv'
    OBVIOUS
  <1>0. LossInv'
    BY LossStep DEF TypeInv
  <1>1. ASSUME NEW c \in Clients, Thread(c) \/ Requests(c) \/ Vanish(c) PROVE TypeInv'
    <2>1. up' \in BOOLEAN /\ queue' \in Seq(Clients) /\ Len(queue') <= MaxRequests
          /\ earlier' \in Earlier
      BY <1>1, ThreadMoves DEF TypeInv, TypeOK
    <2>2. told' \in [Clients -> {"out", "waiting", "in", "rejected", "gone"}]
      BY <1>1, ThreadMoves DEF TypeInv, TypeOK
    <2>3. count' \in [Clients -> 0..MaxOps]
      <3>1. count \in [Clients -> 0..MaxOps] /\ MaxOps \in Nat
        BY TableAssumption DEF TypeInv, TypeOK
      <3>2. \/ count' = count
            \/ count[c] < MaxOps /\ count' = [count EXCEPT ![c] = count[c] + 1]
        BY <1>1, ThreadMoves
      <3> QED BY <3>1, <3>2
    <2>4. IsFiniteSet(open') /\ InUse' <= Table /\ open' \subseteq Clients \X Uses \X (0..MaxOps)
      BY <1>1, ThreadMoves, TableHolds
    <2>5. instance' \in Clients \cup {"null"} /\ made' \subseteq Clients
      BY <1>1, ThreadMoves
    <2>6. blind' \subseteq Clients
      BY <1>1, ThreadStep DEF Own, TypeInv, TypeOK
    <2> QED BY <1>0, <2>1, <2>2, <2>3, <2>4, <2>5, <2>6 DEF TypeInv, TypeOK, LossInv, TypesOK
  <1>2. CASE Accept
    <2>1. Head(queue) \in Clients /\ Tail(queue) \in Seq(Clients) /\ Len(Tail(queue)) <= Len(queue)
      BY <1>2 DEF Accept, TypeInv, TypeOK
    <2>2. IsFiniteSet(open') /\ InUse' <= Table /\ open' \subseteq Clients \X Uses \X (0..MaxOps)
      <3>1. earlier \in Nat /\ Table \in Nat /\ Cardinality(open) \in Nat
        BY TableAssumption, FS_CardinalityType DEF TypeInv, TypeOK
      <3>2. IsFiniteSet(open') /\ Cardinality(open') <= Cardinality(open) + 1
        BY <1>2, <3>1, Descriptors DEF Accept, TypeInv
      <3>3. Cardinality(open') \in Nat
        BY <3>2, FS_CardinalityType
      <3>4. <<Head(queue), "socket", 0>> \in Clients \X Uses \X (0..MaxOps)
        BY <2>1, TableAssumption DEF Uses
      <3> QED BY <1>2, <3>1, <3>2, <3>3, <3>4, SMTT(30)
              DEF Accept, Free, InUse, TypeInv, TypeOK
    <2>3. queue' \in Seq(Clients) /\ Len(queue') <= MaxRequests
      BY <1>2, <2>1, TableAssumption DEF Accept, TypeInv, TypeOK
    <2>4. UNCHANGED <<up, earlier, told, count, instance, made, blind>>
      BY <1>2 DEF Accept
    <2> QED BY <1>0, <2>2, <2>3, <2>4 DEF TypeInv, TypeOK, LossInv, TypesOK
  <1>3. ASSUME NEW c \in Clients, Connect(c) PROVE TypeInv'
    <2>1. queue' \in Seq(Clients) /\ Len(queue') <= MaxRequests
      BY <1>3, TableAssumption DEF Connect, TypeInv, TypeOK
    <2>2. told' \in [Clients -> {"out", "waiting", "in", "rejected", "gone"}]
      BY <1>3 DEF Connect, TypeInv, TypeOK
    <2>3. UNCHANGED <<up, earlier, open, count, instance, made, blind>>
      BY <1>3 DEF Connect
    <2> QED BY <1>0, <2>1, <2>2, <2>3 DEF TypeInv, TypeOK, LossInv, TypesOK, InUse
  <1>4. CASE EmplaceFails \/ UNCHANGED vars
    <2>1. up' \in BOOLEAN /\ UNCHANGED <<queue, told, earlier, open, count, instance, made, blind>>
      BY <1>4 DEF EmplaceFails, vars, threads, TypeInv, TypeOK
    <2> QED BY <1>0, <2>1 DEF TypeInv, TypeOK, LossInv, TypesOK, InUse
  <1> QED BY <1>1, <1>2, <1>3, <1>4 DEF Next

\* However many threads open files at once, the process never holds more descriptors than its
\* table has, and every variable keeps its range.
THEOREM TypeCorrect == Spec => []TypeOK
  <1>1. TypeInv => TypeOK
    BY DEF TypeInv
  <1> QED BY <1>1, TypeInit, TypeStep, PTL DEF Spec

-----------------------------------------------------------------------------
(* Logins, and the descriptors a thread keeps.                              *)

LoginPcs == {"none", "pubKey", "m2", "privKey", "sign", "getInstance", "construct", "assign",
             "cert", "m3"}
Downloading == {"downM2", "downFound", "downOpen", "downSize", "downSized", "downMi"}

\* The connections in the queue are different ones, and none has a thread yet.
QueueInv ==
    /\ \A i \in 1..Len(queue) : pc[queue[i]] = "none" /\ told[queue[i]] # "out"
    /\ \A i, j \in 1..Len(queue) : queue[i] = queue[j] => i = j
    /\ \A c \in Clients : pc[c] # "none" => told[c] # "out"

\* A login that has failed to open a file does not get as far as M5, and a handler runs for a
\* request that has been counted.
Agrees(c) ==
    /\ pc[c] \in LoginPcs => count[c] = 0 /\ told[c] # "in" /\ c \notin blind
    /\ pc[c] = "m4" => count[c] = 0 /\ told[c] # "in" /\ (told[c] = "waiting" => c \notin blind)
    /\ pc[c] \notin LoginPcs \cup AtRest => count[c] # 0
    /\ told[c] = "in" /\ count[c] = 0 => pc[c] = "run" /\ c \notin blind

\* Where a thread has which file open for its present request.
Holding ==
    {<<"m2", "pubKey">>, <<"sign", "privKey">>, <<"m3", "cert">>, <<"taken", "look">>,
     <<"renFound", "look">>, <<"upThere", "look">>, <<"upMi", "file">>, <<"upClose", "file">>,
     <<"downFound", "look">>, <<"downSize", "file">>, <<"downSized", "file">>,
     <<"downSized", "look">>, <<"downMi", "file">>, <<"listed", "look">>, <<"delFound", "look">>}

\* What else is open is a file that an earlier download lost, or that this one has lost.
Accounted(c, d) ==
    \/ d[2] = "socket"
    \/ d[3] = count[c] /\ <<pc[c], d[2]>> \in Holding
    \/ d[2] = "file" /\ d[3] < count[c]
    \/ d[2] = "file" /\ d[3] = count[c] /\ pc[c] \in AtRest /\ LosesFile(c)

Keeps(c) ==
    /\ pc[c] \in Downloading => op[c].kind = "download"
    /\ \A d \in open : d[1] = c => Accounted(c, d)

KeptInv == TypeInv /\ QueueInv /\ \A c \in Clients : Agrees(c) /\ Keeps(c)

\* A thread's descriptors are its own: those of the others stay as they are.
LEMMA OthersKeep ==
    ASSUME KeptInv, NEW c \in Clients, Thread(c) \/ Requests(c) \/ Vanish(c),
           NEW d \in Clients, d # c
    PROVE  Agrees(d)' /\ Keeps(d)'
  <1>1. /\ pc'[d] = pc[d] /\ op'[d] = op[d] /\ dir'[d] = dir[d] /\ (d \in blind' <=> d \in blind)
        /\ told'[d] = told[d] /\ count'[d] = count[d]
    <2>1. pc'[d] = pc[d] /\ op'[d] = op[d] /\ dir'[d] = dir[d] /\ (d \in blind' <=> d \in blind)
      BY ThreadStep DEF KeptInv, TypeInv, Own
    <2>2. /\ \/ UNCHANGED told
             \/ \E w \in {"waiting", "in", "rejected", "gone"} : told' = [told EXCEPT ![c] = w]
          /\ \/ UNCHANGED count
             \/ count' = [count EXCEPT ![c] = count[c] + 1]
      BY ThreadMoves DEF KeptInv
    <2> QED BY <2>1, <2>2 DEF KeptInv, TypeInv, TypeOK
  <1>2. \A e \in open' : e[1] = d => e \in open
    BY ThreadMoves DEF KeptInv, Table1
  <1>3. Agrees(d) /\ Keeps(d)
    BY DEF KeptInv
  <1>4. Agrees(d)'
    BY <1>1, <1>3 DEF Agrees
  <1>5. Keeps(d)'
    <2>1. \A e \in open : Accounted(d, e) => Accounted(d, e)'
      BY <1>1 DEF Accounted, LosesFile
    <2> QED BY <1>1, <1>2, <1>3, <2>1 DEF Keeps
  <1> QED BY <1>4, <1>5

\* The queue loses nobody to a thread that runs.
LEMMA QueueKept ==
    ASSUME KeptInv, NEW c \in Clients, Thread(c) \/ Requests(c) \/ Vanish(c)
    PROVE  QueueInv'
  <1>1. /\ UNCHANGED queue /\ pc[c] # "none" /\ pc' = [pc EXCEPT ![c] = pc'[c]]
        /\ \/ UNCHANGED told
           \/ \E w \in {"waiting", "in", "rejected", "gone"} : told' = [told EXCEPT ![c] = w]
    BY ThreadMoves DEF KeptInv
  <1>2. \A i \in 1..Len(queue) : queue[i] \in Clients
    BY DEF KeptInv, TypeInv, TypeOK
  <1>3. QueueInv /\ pc \in [Clients -> Pcs]
        /\ told \in [Clients -> {"out", "waiting", "in", "rejected", "gone"}]
    BY DEF KeptInv, TypeInv, TypeOK
  <1>4. \A d \in Clients : told[d] # "out" => told'[d] # "out"
    BY <1>1, <1>3
  <1>5. \A d \in Clients : pc[d] = "none" => d # c /\ pc'[d] = "none"
    BY <1>1, <1>3
  <1>6. \A d \in Clients : pc'[d] # "none" => pc[d] # "none"
    BY <1>1, <1>3
  <1> QED BY <1>1, <1>2, <1>3, <1>4, <1>5, <1>6 DEF QueueInv

\* The login of a thread.
LEMMA LoginAgrees ==
    ASSUME KeptInv, NEW c \in Clients, Login(c)
    PROVE  Agrees(c)' /\ pc[c] \in LoginPcs \cup {"m4"} /\ pc'[c] \notin Downloading
  <1> USE DEF KeptInv, TypeInv, TypeOK, QueueInv, Agrees, Goto, Stay, Tell, Opens, Closes,
     OpensNothing, Misses,
              LoginPcs, AtRest, Downloading
  <1>1. CASE PubKey(c) \/ M2(c)
    BY <1>1 DEF PubKey, M2
  <1>2. CASE PrivKey(c) \/ Sign(c)
    BY <1>2 DEF PrivKey, Sign
  <1>3. CASE GetInstance(c) \/ Construct(c) \/ Assign(c)
    BY <1>3 DEF GetInstance, Construct, Assign
  <1>4. CASE Cert(c) \/ M3(c)
    BY <1>4 DEF Cert, M3
  <1>5. CASE M5(c)
    BY <1>5 DEF M5
  <1> QED BY <1>1, <1>2, <1>3, <1>4, <1>5 DEF Login

\* Handlers leave the count alone and end at run().
LEMMA HandlerAgrees ==
    ASSUME KeptInv, NEW c \in Clients, Handle(c) \/ Requests(c) \/ Vanish(c)
    PROVE  Agrees(c)'
  <1>1. CASE Handle(c)
    <2>1. /\ pc[c] \notin LoginPcs \cup AtRest /\ pc'[c] \notin LoginPcs \cup {"m4", "done"}
          /\ UNCHANGED count
      BY <1>1 DEF KeptInv, TypeInv, TypeOK, Handle, Goto, Answer, Goes, Within, Stay, Look,
             Taken, RenOld, RenFound, RenNew, RenMove, UpM2, UpLook, UpThere, UpCreate, UpMi,
             UpClose, DownM2, DownFound, DownOpen, DownSize, DownSized, DownMi, List, Listed,
             DelM3, DelFound, LoginPcs, AtRest
    <2> QED BY <2>1 DEF KeptInv, Agrees, LoginPcs, AtRest
  <1>2. CASE Requests(c)
    <2>1. PICK to \in {"renOld", "upM2", "downM2", "list", "delM3"} :
            pc' = [pc EXCEPT ![c] = to] /\ count' = [count EXCEPT ![c] = count[c] + 1]
      BY <1>2 DEF Requests, Request, Goto
    <2>2. count[c] \in Nat /\ count'[c] = count[c] + 1 /\ pc'[c] = to
      BY <2>1, TableAssumption DEF KeptInv, TypeInv, TypeOK
    <2> QED BY <2>2 DEF Agrees, LoginPcs, AtRest
  <1>3. CASE Vanish(c)
    BY <1>3 DEF Vanish, Goto, Tell, KeptInv, TypeInv, TypeOK, Agrees, LoginPcs, AtRest
  <1> QED BY <1>1, <1>2, <1>3

\* What a thread closes and keeps, in its login and in its handlers.
LEMMA Keeping ==
    ASSUME KeptInv, NEW c \in Clients, Thread(c) \/ Requests(c) \/ Vanish(c)
    PROVE  \A d \in open' : d[1] = c => Accounted(c, d)'
  <1> SUFFICES ASSUME NEW d \in open', d[1] = c PROVE Accounted(c, d)'
    OBVIOUS
  <1>0. TypeInv'
    BY TypeStep DEF KeptInv, Next
  <1>1. d \in open => Accounted(c, d)
    BY DEF KeptInv, Keeps
  <1>2. d = <<c, d[2], d[3]>> /\ d[2] \in Uses /\ d[3] \in Nat /\ count[c] \in Nat
    BY <1>0, TableAssumption, SMTT(30) DEF KeptInv, TypeInv, TypeOK
  <1>3. /\ pc[c] \in Pcs /\ pc \in [Clients -> Pcs]
        /\ told \in [Clients -> {"out", "waiting", "in", "rejected", "gone"}]
    BY DEF KeptInv, TypeInv, TypeOK
  <1>4. pc[c] \in Downloading => op[c].kind = "download"
    BY DEF KeptInv, Keeps
  <1> HIDE DEF KeptInv
  <1> USE <1>1, <1>2, <1>3 DEF Goto, Stay, Opens, Closes, OpensNothing, Misses, Accounted,
     Holding, AtRest
  <1>5. CASE PubKey(c) \/ M2(c) \/ PrivKey(c) \/ Sign(c)
    BY <1>5 DEF PubKey, M2, PrivKey, Sign
  <1>6. CASE GetInstance(c) \/ Construct(c) \/ Assign(c)
    BY <1>6 DEF GetInstance, Construct, Assign
  <1>7. CASE Cert(c) \/ M3(c)
    BY <1>7 DEF Cert, M3
  <1>8. CASE M5(c)
    <2>1. LosesFile(c) => LosesFile(c)'
      BY <1>8 DEF M5, Tell, NoFile, LosesFile
    <2> QED BY <1>8, <2>1 DEF M5
  <1> USE DEF Answer, Goes, Within, Look
  <1>9. CASE Taken(c) \/ RenOld(c) \/ RenFound(c) \/ RenNew(c) \/ RenMove(c)
    BY <1>9 DEF Taken, RenOld, RenFound, RenNew, RenMove
  <1>10. CASE UpM2(c) \/ UpLook(c) \/ UpThere(c)
    BY <1>10 DEF UpM2, UpLook, UpThere
  <1>11. CASE UpCreate(c) \/ UpMi(c) \/ UpClose(c)
    BY <1>11 DEF UpCreate, UpMi, UpClose
  <1>12. CASE DownM2(c) \/ DownFound(c) \/ DownOpen(c)
    BY <1>12 DEF DownM2, DownFound, DownOpen
  <1>13. CASE DownSize(c) \/ DownSized(c) \/ DownMi(c)
    <2>1. op'[c].kind = "download"
      BY <1>4, <1>13 DEF DownSize, DownSized, DownMi, Downloading
    <2>2. CASE DownSize(c)
      BY <2>1, <2>2 DEF DownSize, LosesFile
    <2>3. CASE DownSized(c)
      BY <2>1, <2>3 DEF DownSized, LosesFile, NoFile
    <2>4. CASE DownMi(c)
      BY <2>4 DEF DownMi
    <2> QED BY <1>13, <2>2, <2>3, <2>4
  <1>14. CASE List(c) \/ Listed(c) \/ DelM3(c) \/ DelFound(c)
    BY <1>14 DEF List, Listed, DelM3, DelFound
  <1>15. CASE Requests(c)
    <2>1. pc[c] = "run" /\ count' = [count EXCEPT ![c] = count[c] + 1] /\ UNCHANGED open
      BY <1>15 DEF Requests, Request
    <2>2. count'[c] = count[c] + 1
      BY <2>1 DEF KeptInv, TypeInv, TypeOK
    <2> QED BY <2>1, <2>2
  <1>16. CASE Vanish(c)
    <2>1. pc[c] = "downMi" => op'[c].kind = "download"
      BY <1>4, <1>16 DEF Vanish, Downloading
    <2>2. told'[c] = "gone" /\ (LosesFile(c) => LosesFile(c)')
      BY <1>16 DEF Vanish, Tell, NoFile, LosesFile
    <2> QED BY <1>16, <2>1, <2>2 DEF Vanish, LosesFile
  <1> QED BY <1>5, <1>6, <1>7, <1>8, <1>9, <1>10, <1>11, <1>12, <1>13, <1>14, <1>15, <1>16
          DEF Thread, Login, Handle

\* The request of a download stays the request while its handler runs.
LEMMA DownloadPlaces ==
    ASSUME KeptInv, NEW c \in Clients, Thread(c) \/ Requests(c) \/ Vanish(c)
    PROVE  pc'[c] \in Downloading => op'[c].kind = "download"
  <1>1. CASE Login(c)
    BY <1>1, LoginAgrees
  <1>2. CASE Handle(c)
    <2>1. (pc'[c] \in Downloading => pc[c] \in Downloading) /\ UNCHANGED op
      BY <1>2 DEF KeptInv, TypeInv, TypeOK, Handle, Goto, Answer, Goes, Within, Stay, Look,
             Taken, RenOld, RenFound, RenNew, RenMove, UpM2, UpLook, UpThere, UpCreate, UpMi,
             UpClose, DownM2, DownFound, DownOpen, DownSize, DownSized, DownMi, List, Listed,
             DelM3, DelFound, Downloading
    <2> QED BY <2>1 DEF KeptInv, Keeps
  <1>3. CASE Requests(c)
    BY <1>3 DEF Requests, Request, Goto, KeptInv, TypeInv, TypeOK, Downloading
  <1>4. CASE Vanish(c)
    BY <1>4 DEF Vanish, Goto, KeptInv, TypeInv, TypeOK, Downloading
  <1> QED BY <1>1, <1>2, <1>3, <1>4 DEF Thread

\* A new thread starts with its socket only.
LEMMA AcceptKeeps == KeptInv /\ Accept => KeptInv'
  <1> SUFFICES ASSUME KeptInv, Accept PROVE KeptInv'
    OBVIOUS
  <1>0. TypeInv'
    BY TypeStep DEF KeptInv, Next
  <1> DEFINE h == Head(queue)
  <1>1. /\ queue \in Seq(Clients) /\ Len(queue) \in Nat \ {0} /\ h = queue[1] /\ h \in Clients
        /\ Len(queue') = Len(queue) - 1 /\ \A i \in 1..Len(queue') : queue'[i] = queue[i + 1]
    BY DEF KeptInv, TypeInv, TypeOK, Accept
  <1>2. /\ pc[h] = "none" /\ pc' = [pc EXCEPT ![h] = "pubKey"]
        /\ open' = open \cup {<<h, "socket", 0>>}
        /\ UNCHANGED <<told, op, count, dir, blind>>
    BY <1>1 DEF KeptInv, QueueInv, Accept
  <1>3. pc \in [Clients -> Pcs]
    BY DEF KeptInv, TypeInv, TypeOK
  <1>4. QueueInv'
    <2>1. ASSUME NEW i \in 1..Len(queue') PROVE pc'[queue'[i]] = "none" /\ told'[queue'[i]] # "out"
      <3>1. i + 1 \in 1..Len(queue) /\ queue'[i] = queue[i + 1] /\ queue[i + 1] \in Clients
        BY <1>1
      <3>2. queue[i + 1] # h
        BY <1>1, <3>1 DEF KeptInv, QueueInv
      <3> QED BY <1>2, <1>3, <3>1, <3>2 DEF KeptInv, QueueInv
    <2>2. ASSUME NEW i \in 1..Len(queue'), NEW j \in 1..Len(queue'),
       queue'[i] = queue'[j] PROVE i = j
      <3>1. i + 1 \in 1..Len(queue) /\ j + 1 \in 1..Len(queue) /\ queue[i + 1] = queue[j + 1]
        BY <1>1, <2>2
      <3>2. i + 1 = j + 1
        BY <3>1 DEF KeptInv, QueueInv
      <3> QED BY <1>1, <3>2
    <2>3. \A c \in Clients : pc'[c] # "none" => told'[c] # "out"
      BY <1>1, <1>2, <1>3 DEF KeptInv, QueueInv
    <2> QED BY <2>1, <2>2, <2>3 DEF QueueInv
  <1>5. \A c \in Clients : Agrees(c)'
    BY <1>1, <1>2, <1>3 DEF KeptInv, Agrees, LoginPcs, AtRest
  <1>6. ASSUME NEW c \in Clients PROVE Keeps(c)'
    <2>1. Keeps(c)
      BY DEF KeptInv
    <2>2. (pc'[c] = pc[c] \/ (pc[c] = "none" /\ pc'[c] = "pubKey"))
      BY <1>2, <1>3
    <2>3. \A d \in open : Accounted(c, d) => Accounted(c, d)'
      BY <1>2, <2>2 DEF Accounted, Holding, AtRest, LosesFile
    <2>4. \A d : d = <<h, "socket", 0>> => Accounted(c, d)'
      BY DEF Accounted
    <2>5. \A d \in open' : d[1] = c => Accounted(c, d)'
      BY <1>2, <2>1, <2>3, <2>4 DEF Keeps
    <2>6. pc'[c] \in Downloading => op'[c].kind = "download"
      BY <1>2, <2>1, <2>2 DEF Keeps, Downloading
    <2> QED BY <2>5, <2>6 DEF Keeps
  <1> QED BY <1>0, <1>4, <1>5, <1>6 DEF KeptInv

\* Who connects is not in the queue yet.
LEMMA ConnectKeeps == ASSUME KeptInv, NEW c \in Clients, Connect(c) PROVE KeptInv'
  <1>0. TypeInv'
    BY TypeStep DEF KeptInv, Next
  <1>1. /\ told[c] = "out" /\ told' = [told EXCEPT ![c] = "waiting"] /\ queue' = Append(queue, c)
        /\ UNCHANGED <<pc, open, op, count, dir, blind>>
    BY DEF Connect
  <1>2. /\ queue \in Seq(Clients) /\ Len(queue) \in Nat /\ Len(queue') = Len(queue) + 1
        /\ \A i \in 1..Len(queue) : queue'[i] = queue[i] /\ queue[i] \in Clients
        /\ queue'[Len(queue) + 1] = c
    BY <1>1 DEF KeptInv, TypeInv, TypeOK
  <1>3. told \in [Clients -> {"out", "waiting", "in", "rejected", "gone"}] /\ pc[c] = "none"
    BY <1>1 DEF KeptInv, TypeInv, TypeOK, QueueInv
  <1>4. \A d \in Clients : told'[d] = told[d] \/ (d = c /\ told'[d] = "waiting")
    BY <1>1, <1>3
  <1>5. QueueInv'
    <2>1. \A i \in 1..Len(queue) : queue[i] # c
      BY <1>1 DEF KeptInv, QueueInv
    <2>2. \A i \in 1..Len(queue') : i \in 1..Len(queue) \/ i = Len(queue) + 1
      BY <1>2
    <2>3. \A i \in 1..Len(queue') : pc'[queue'[i]] = "none" /\ told'[queue'[i]] # "out"
      BY <1>1, <1>2, <1>3, <1>4, <2>2 DEF KeptInv, QueueInv
    <2>4. \A i, j \in 1..Len(queue') : queue'[i] = queue'[j] => i = j
      BY <1>2, <2>1, <2>2 DEF KeptInv, QueueInv
    <2>5. \A d \in Clients : pc'[d] # "none" => told'[d] # "out"
      BY <1>1, <1>4 DEF KeptInv, QueueInv
    <2> QED BY <2>3, <2>4, <2>5 DEF QueueInv
  <1>6. ASSUME NEW d \in Clients PROVE Agrees(d)' /\ Keeps(d)'
    <2>1. Agrees(d) /\ Keeps(d)
      BY DEF KeptInv
    <2>2. Agrees(d)'
      BY <1>1, <1>3, <1>4, <2>1 DEF Agrees, LoginPcs
    <2>3. \A e \in open : Accounted(d, e) => Accounted(d, e)'
      BY <1>1, <1>3, <1>4 DEF Accounted, LosesFile, AtRest
    <2> QED BY <1>1, <2>1, <2>2, <2>3 DEF Keeps
  <1> QED BY <1>0, <1>5, <1>6 DEF KeptInv

\* Nothing is queued or open at the start.
LEMMA KeptInit == Init => KeptInv
  <1> SUFFICES ASSUME Init PROVE KeptInv
    OBVIOUS
  <1>1. QueueInv
    BY DEF Init, QueueInv
  <1>2. \A c \in Clients : Agrees(c) /\ Keeps(c)
    BY DEF Init, Agrees, Keeps, LoginPcs, AtRest, Downloading
  <1> QED BY <1>1, <1>2, TypeInit DEF KeptInv

\* Every step keeps the queue, the logins and the descriptors in order.
LEMMA KeptStep == KeptInv /\ [Next]_vars => KeptInv'
  <1> SUFFICES ASSUME KeptInv, [Next]_vars PROVE KeptInv'
    OBVIOUS
  <1>0. TypeInv'
    BY TypeStep DEF KeptInv
  <1>1. ASSUME NEW c \in Clients, Thread(c) \/ Requests(c) \/ Vanish(c) PROVE KeptInv'
    <2>1. Agrees(c)'
      BY <1>1, LoginAgrees, HandlerAgrees DEF Thread
    <2>2. Keeps(c)'
      BY <1>1, Keeping, DownloadPlaces DEF Keeps
    <2>3. QueueInv' /\ \A d \in Clients \ {c} : Agrees(d)' /\ Keeps(d)'
      BY <1>1, QueueKept, OthersKeep
    <2> QED BY <1>0, <2>1, <2>2, <2>3 DEF KeptInv
  <1>2. CASE Accept
    BY <1>2, AcceptKeeps
  <1>3. CASE \E c \in Clients : Connect(c)
    BY <1>3, ConnectKeeps
  <1>4. CASE EmplaceFails \/ UNCHANGED vars
    <2>1. UNCHANGED <<queue, told, pc, op, dir, open, count, blind>>
      BY <1>4 DEF EmplaceFails, vars, threads
    <2> QED BY <1>0, <2>1 DEF KeptInv, QueueInv, Agrees, Keeps, Accounted, LosesFile
  <1> QED BY <1>1, <1>2, <1>3, <1>4 DEF Next

\* However a login or a handler ends, and whatever it could not open: a thread at rest keeps its
\* socket and the files of downloads that were announced with size 0 or cut short, nothing else.
THEOREM ThreadsKeepNothing == Spec => []NothingKept
  <1>1. KeptInv => NothingKept
    <2> SUFFICES ASSUME KeptInv, NEW d \in open, pc[d[1]] \in AtRest
                 PROVE  \/ d[2] = "socket"
                        \/ d[2] = "file" /\ (d[3] = count[d[1]] => LosesFile(d[1]))
      BY DEF NothingKept
    <2>1. d[1] \in Clients /\ d[3] \in Nat /\ count[d[1]] \in Nat
      BY TableAssumption DEF KeptInv, TypeInv, TypeOK
    <2>2. Accounted(d[1], d)
      BY <2>1 DEF KeptInv, Keeps
    <2> QED BY <2>1, <2>2 DEF Accounted, Holding, AtRest
  <1> QED BY <1>1, KeptInit, KeptStep, PTL DEF Spec

\* However full the table is when a login opens its files: who is logged in has a thread in run()
\* that has opened them all.
THEOREM LoginsTrue == Spec => []LoginsAgree
  <1>1. KeptInv => LoginsAgree
    BY DEF KeptInv, Agrees, LoginsAgree
  <1> QED BY <1>1, KeptInit, KeptStep, PTL DEF Spec

=============================================================================

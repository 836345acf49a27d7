------------------------- MODULE SessionRefinement -------------------------
(***************************************************************************)
(* Session implements CloudStorage: seen by its user, the exchange of       *)
(* messages with its keys, counters and handshakes is one operation after   *)
(* the other on a store that decides each at one moment.                    *)
(***************************************************************************)
EXTENDS Dialogue

\* An upload that holds its file open shows only when its last chunk has arrived, and a
\* last chunk in the buffer of the stream counts.
StoreView == [f \in Names |->
    IF s_stream = "open" /\ f = s_file
    THEN IF s_i < s_size THEN Absent ELSE store[f] + (IF s_buf THEN 1 ELSE 0)
    ELSE store[f]]

\* A download shows only when it is complete, or has failed.
LocalView == [f \in Names |->
    IF ClientAt \in {"downMi", "downWrite"} /\ f = c_file THEN Absent ELSE local[f]]

\* The new name of a rename is in its request as long as that is under way, and with the
\* server afterwards.
NewName ==
    IF s_pc = "crashed" THEN c_file
    ELSE IF \E k \in 1..Len(c2s) : c2s[k].type = "RenM1"
    THEN (CHOOSE m \in {c2s[k] : k \in 1..Len(c2s)} : m.type = "RenM1").body.new
    ELSE s_new

\* The operation of a client at this place, with its file and the new name of that.
OperationAt(at, f, g) ==
    CASE at = "menu" -> [kind |-> "idle"]
      [] at \in {"left", "exit"} -> [kind |-> "left"]
      [] at \in {"listM2", "listM3"} -> [kind |-> "list"]
      [] at \in {"downM2", "downOpen", "downMi", "downWrite"} ->
           [kind |-> "download", name |-> f]
      [] at \in {"upM2", "upMi", "upEnd"} -> [kind |-> "upload", name |-> f]
      [] at = "renM2" -> [kind |-> "rename", name |-> f, new |-> g]
      [] at \in {"delM2", "delAsk", "delM4"} -> [kind |-> "delete", name |-> f]
      [] at = "outM2" -> [kind |-> "logout"]
Doing == OperationAt(ClientAt, c_file, NewName)

\* The answers that end an operation, and what they say of it.
Decisions == [UpM2 |-> {"NACK"}, UpEnd |-> {"ACK"}, DownM2 |-> {"FILE_NOT_FOUND"},
              RenM2 |-> Codes, DelM4 |-> Codes]
Ends(m) == m.type \in DOMAIN Decisions /\ m.body.code \in Decisions[m.type]
Outcome(code) ==
    CASE code = "ACK" -> "SUCCESS" [] code = "NACK" -> "FILE_ALREADY_EXISTS" [] OTHER -> code

\* An operation is decided when such an answer is on its way, and an upload when the last
\* chunk is written.
Final == {m \in {s2c[k] : k \in 1..Len(s2c)} : Ends(m)}
Decided ==
    IF Final # {} THEN Outcome((CHOOSE m \in Final : TRUE).body.code)
    ELSE IF ServerAt = "upEnd" THEN "SUCCESS" ELSE "none"

\* The last chunk of an upload is in the buffer of its stream.
AtRisk == IF s_stream = "open" /\ s_buf THEN {s_file} ELSE {}

Cloud == INSTANCE CloudStorage WITH
    MayCrash <- ServerMayExit,
    store <- StoreView,
    local <- LocalView,
    up <- s_pc # "crashed",
    doing <- Doing,
    out <- Decided,
    atRisk <- AtRisk,
    res <- c_res

\* One session, however often it re-authenticates in the middle of an operation, is an
\* atomic store for its user: every operation takes effect at one moment between request
\* and answer, the user is told what happened, half-written files never show, and a crash
\* of the server costs at most the operation in progress and one buffered chunk.
ActsAtomically == Cloud!Spec

\* And every operation that was picked is decided and told.
ActsAndEnds == Cloud!FairSpec

-----------------------------------------------------------------------------
(* What the implementation rests on, besides the invariants of Dialogue.    *)

\* The answers that end an operation or a login say what the server has found.
Honest(m) ==
    /\ m.type \in {"UpEnd", "DelM4"} => m.body.code = "ACK"
    /\ m.type = "RenM2" => m.body.code # "NACK"
    /\ m.type = "AuthM2" => m.body.code = IF user = "unreadable" THEN "NACK" ELSE "ACK"
    /\ m.type = "AuthM5" => m.body.code = IF user = "mismatched" THEN "NACK" ELSE "ACK"
Truthful == \A k \in 1..Len(s2c) : Honest(s2c[k])

\* A user who is not registered does not get past the login.
KeptOut == user # "registered" =>
    /\ c_pc \in Gone \/ (c_pc \in AuthPcs /\ c_ret = "menu")
    /\ s_pc \in Gone \/ (s_pc \in AuthPcs /\ s_ret = "run")
    /\ user # "mismatched" =>
         /\ c_pc \in {"auth", "authM2"} \cup Gone /\ s_pc \in {"authM1", "authM2"} \cup Gone
         /\ s_pc = "authM2" => user = "unreadable"
         /\ \A k \in 1..Len(s2c) : s2c[k].type = "AuthM2" /\ s2c[k].body.code = "NACK"

\* The client sends the file it has, and asks for one it does not have.
LocalKnown == ClientHere =>
    /\ ClientAt \in {"upM2", "upMi", "upEnd"} => c_size = local[c_file]
    /\ ClientAt \in {"downM2", "downOpen"} => local[c_file] = Absent

\* If no other session changes the storage: the file of an upload keeps its name.
Named == s_stream = "open" => store[s_file] # Absent

\* A client that is gone has read everything.
AllRead == c_pc \in {"left", "exit"} => s2c = <<>>

=============================================================================

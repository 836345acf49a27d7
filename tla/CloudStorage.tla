---------------------------- MODULE CloudStorage ----------------------------
(***************************************************************************)
(* What a session promises its user: the user picks one operation at a      *)
(* time, the server decides it at one moment against the files stored, and  *)
(* the user is told what was decided.  There are no messages, no keys, no   *)
(* chunks on their way and no half-written files, except that a server that *)
(* crashes may keep a prefix of an upload that was not yet decided, may     *)
(* lose the last chunk of one that was not yet written out, and leaves the  *)
(* user without an answer.                                                  *)
(***************************************************************************)
EXTENDS Integers

CONSTANTS
    Names,      \* the file names
    MaxChunks,  \* bound: files have at most this many chunks
    MayCrash    \* may the server process end?

VARIABLES
    user,          \* the kind of user: only a registered one gets in
    store, local,  \* chunks per file, on the server and at the client
    up,            \* does the server run?
    doing,         \* the operation in progress
    out,           \* what the server has decided about it, or "none"
    atRisk,        \* the files whose last chunk is not yet written out: one at most
    res            \* what the user was told last

vars == <<user, store, local, up, doing, out, atRisk, res>>

Absent == -1
Sizes == Absent .. MaxChunks
Idle == [kind |-> "idle"]
Left == [kind |-> "left"]
Failures == {"RECEIVE_FAILURE", "DECRYPTION_FAILURE"}

Init ==
    /\ user \in {"registered", "mismatched", "unreadable", "unknown"}
    /\ store \in [Names -> Sizes] /\ local \in [Names -> Sizes]
    /\ up = TRUE /\ doing = Idle /\ out = "none" /\ atRisk = {} /\ res = "none"

-----------------------------------------------------------------------------
\* The user picks an operation.
Begin(o) ==
    /\ doing = Idle /\ user = "registered"
    /\ doing' = o /\ out' = "none" /\ res' = "none"
    /\ UNCHANGED <<user, store, local, up, atRisk>>

\* It is turned down at once.
Refuse(code) ==
    /\ doing = Idle /\ user = "registered"
    /\ res' = code
    /\ UNCHANGED <<user, store, local, up, doing, out, atRisk>>

Pick == \E f, g \in Names :
    \/ Begin([kind |-> "list"])
    \/ Begin([kind |-> "logout"])
    \/ local[f] = Absent /\ Begin([kind |-> "download", name |-> f])
    \/ local[f] # Absent /\ Refuse("FILE_ALREADY_EXISTS")
    \/ local[f] > 0 /\ Begin([kind |-> "upload", name |-> f])
    \/ local[f] = 0 /\ Refuse("WRONG_FILE_SIZE")
    \/ local[f] = Absent /\ Refuse("FILE_NOT_FOUND")
    \/ Begin([kind |-> "rename", name |-> f, new |-> g])
    \/ store[f] # Absent /\ Begin([kind |-> "delete", name |-> f])
    \/ store[f] = Absent /\ Refuse("FILE_NOT_FOUND")

Stores(s, risk) == store' = s /\ atRisk' = risk

\* The one moment at which an operation is looked up in the store and takes effect.
Decide(code) ==
    /\ up /\ out = "none"
    /\ out' = code
    /\ UNCHANGED <<user, local, up, doing, res>>

DecideUpload ==
    /\ doing.kind = "upload"
    /\ \/ store[doing.name] # Absent /\ Decide("FILE_ALREADY_EXISTS")
            /\ UNCHANGED <<store, atRisk>>
       \/ store[doing.name] = Absent /\ Decide("SUCCESS")
            /\ \E risk \in {{doing.name}, {}} :
                 Stores([store EXCEPT ![doing.name] = local[doing.name]], risk)

DecideRename ==
    /\ doing.kind = "rename"
    /\ LET f == doing.name g == doing.new IN
       \/ store[f] = Absent /\ Decide("FILE_NOT_FOUND") /\ UNCHANGED <<store, atRisk>>
       \/ store[f] # Absent /\ store[g] # Absent /\ Decide("FILE_ALREADY_EXISTS")
            /\ UNCHANGED <<store, atRisk>>
       \/ store[f] # Absent /\ store[g] = Absent /\ Decide("SUCCESS")
            /\ Stores([store EXCEPT ![f] = Absent, ![g] = store[f]], atRisk)

DecideDelete ==
    /\ doing.kind = "delete"
    /\ store[doing.name] # Absent /\ Decide("SUCCESS")
    /\ Stores([store EXCEPT ![doing.name] = Absent], atRisk)

\* A file that is not there is reported; one that is there is on its way.
DecideDownload ==
    /\ doing.kind = "download"
    /\ store[doing.name] = Absent /\ Decide("FILE_NOT_FOUND") /\ UNCHANGED <<store, atRisk>>

\* The user is told.
Tell(code, files) ==
    /\ res' = code /\ out' = "none" /\ doing' = Idle
    /\ local' = files
    /\ UNCHANGED <<user, store, up, atRisk>>

End ==
    \/ out # "none" /\ Tell(out, local)
    \/ doing.kind = "list" /\ Tell("SUCCESS", local)
    \/ doing.kind = "delete" /\ out = "none" /\ Tell("NO_DELETE_CONFIRM", local)
    \/ /\ doing.kind = "download" /\ store[doing.name] # Absent
       /\ Tell("SUCCESS", [local EXCEPT ![doing.name] = store[doing.name]])

Logout ==
    /\ doing.kind = "logout"
    /\ doing' = Left /\ res' = "SUCCESS"
    /\ UNCHANGED <<user, store, local, up, out, atRisk>>

\* The last chunk is written out.
Flush == atRisk # {} /\ atRisk' = {}
           /\ UNCHANGED <<user, store, local, up, doing, out, res>>

\* A login that fails is the end of the session.
LoginFails ==
    /\ doing = Idle /\ user # "registered"
    /\ doing' = Left
    /\ UNCHANGED <<user, store, local, up, out, atRisk, res>>

-----------------------------------------------------------------------------
\* The server process ends, and with it what was not written out; its last answer may be
\* lost.  An upload that was not decided leaves a prefix, or nothing if it had not begun; a
\* rename that was not decided never will be, so that its new name no longer matters.
Crash ==
    /\ MayCrash /\ up
    /\ up' = FALSE /\ atRisk' = {}
    /\ out' \in {out, "none"}
    /\ doing' = IF doing.kind = "rename" THEN [doing EXCEPT !.new = doing.name] ELSE doing
    /\ IF atRisk # {}
       THEN store' = [f \in Names |-> IF f \in atRisk THEN store[f] - 1 ELSE store[f]]
       ELSE IF doing.kind = "upload" /\ out = "none" /\ store[doing.name] = Absent
       THEN \E k \in Absent .. local[doing.name] - 1 :
              store' = [store EXCEPT ![doing.name] = k]
       ELSE store' = store
    /\ UNCHANGED <<user, local, res>>

\* Without an answer the user is told of a failure, and a download leaves a prefix.
Remains ==
    {local} \cup
    {[local EXCEPT ![doing.name] = k] : k \in
        IF doing.kind = "download" /\ store[doing.name] # Absent THEN 0 .. store[doing.name]
                                                               ELSE {}}

Fail == \E code \in Failures, files \in Remains :
    /\ ~up /\ doing \notin {Idle, Left}
    /\ Tell(code, files)

\* The session ends with its server.
Lose == \E files \in Remains :
    /\ ~up /\ doing # Left
    /\ doing' = Left /\ local' = files /\ out' = "none"
    /\ UNCHANGED <<user, store, up, atRisk, res>>

Next ==
    \/ Pick \/ DecideUpload \/ DecideRename \/ DecideDelete \/ DecideDownload
    \/ End \/ Logout \/ Flush \/ LoginFails
    \/ Crash \/ Fail \/ Lose

Spec == Init /\ [][Next]_vars

\* What has been picked comes to its end, by itself.
FairSpec == Spec /\ WF_vars(End \/ Logout \/ Fail \/ Lose \/ DecideUpload \/ DecideRename
                            \/ DecideDelete \/ DecideDownload)

=============================================================================

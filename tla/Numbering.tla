----------------------------- MODULE Numbering -----------------------------
(***************************************************************************)
(* A session with a record of the numbers its messages have carried under   *)
(* the present session key.  Either program counts what it sends and what   *)
(* it takes with the one m_counter, and both start again at 0 after every   *)
(* handshake (authenticationRequest and incrementCounter in Client.cpp and  *)
(* Server.cpp).                                                             *)
(***************************************************************************)
EXTENDS Dialogue

VARIABLES
    sent,  \* history: how many messages of operations both sides have sent under this key
    used   \* history: the sides and numbers of all messages sent under it

history == <<sent, used>>

\* What this step puts into the connection.
Spoken ==
    (IF Len(c2s') > Len(c2s) THEN {[by |-> "client", m |-> c2s'[Len(c2s')]]} ELSE {})
    \cup (IF Len(s2c') > Len(s2c) THEN {[by |-> "server", m |-> s2c'[Len(s2c')]]} ELSE {})

OfOperation(w) == w.m.type \notin Handshake

\* M3 is the first message under the session key that the server has derived for it.
Rekeyed == s_pc = "authM3" /\ s_pc' = "authM4"

Count ==
    sent' = IF Rekeyed THEN 0
            ELSE IF \E w \in Spoken : OfOperation(w) THEN sent + 1 ELSE sent

Remember ==
    used' = (IF Rekeyed THEN {} ELSE used)
              \cup {<<w.by, w.m.ctr>> : w \in {v \in Spoken : v.m.key # NoKey}}

NumberedInit == Init /\ sent = 0 /\ used = {}

\* The count alone is enough for NumberedInTurn; the set of the numbers would multiply the states.
NumberedNext == Next /\ Count /\ UNCHANGED used

NumberedSpec == NumberedInit /\ [][NumberedNext]_<<vars, history>>

FairNumberedSpec == NumberedSpec /\ WF_vars(ClientStep) /\ WF_vars(ServerStep)

RememberedSpec == NumberedInit /\ [][Next /\ Count /\ Remember]_<<vars, history>>

-----------------------------------------------------------------------------

\* The number of a message is the number of messages of operations that both sides together
\* have sent before it under its key: no message of an operation has the number of another
\* one, of either side, and none is left out, although each side counts for itself, sends
\* ahead of the other, and returns early where its peer does not.
NumberedInTurn == [][
    \A w \in Spoken : OfOperation(w) => w.m.ctr = sent ]_<<vars, history>>

\* README.md:92: "a counter within the Additional Authenticated Data (AAD) field,
\* specifically designed to keep track of the messages sent".  Under one key no side sends
\* two messages with one number.
NumbersUsedOnce == [][
    \A w \in Spoken : w.m.key # NoKey /\ ~Rekeyed => <<w.by, w.m.ctr>> \notin used
    ]_<<vars, history>>

=============================================================================

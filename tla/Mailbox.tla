------------------------------ MODULE Mailbox ------------------------------
(***************************************************************************)
(* What the reception of messages promises, whatever crashes, failing      *)
(* calls and reused object paths do: a message stays in the modem until it *)
(* is on record, and it is put on record once.  SmsService implements it.  *)
(***************************************************************************)
EXTENDS Sequences, Functions

CONSTANTS
    Messages,  \* what the network delivers
    Texts      \* the messages that are to be recorded

VARIABLES
    arrived,   \* messages that have reached the modem
    held,      \* messages the modem has an object for
    recorded   \* messages committed to the inbox, in order

mailVars == <<arrived, held, recorded>>

Init == arrived = {} /\ held = {} /\ recorded = << >>

Arrive(m) ==
    /\ m \notin arrived
    /\ arrived' = arrived \cup {m} /\ held' = held \cup {m}
    /\ UNCHANGED recorded

Record(m) ==
    /\ m \in held \cap Texts /\ m \notin Range(recorded)
    /\ recorded' = Append(recorded, m)
    /\ UNCHANGED <<arrived, held>>

Remove(m) ==
    /\ m \in held /\ (m \in Texts => m \in Range(recorded))
    /\ held' = held \ {m}
    /\ UNCHANGED <<arrived, recorded>>

Next == \E m \in Messages : Arrive(m) \/ Record(m) \/ Remove(m)
Spec == Init /\ [][Next]_mailVars

-----------------------------------------------------------------------------
TypeOK == arrived \subseteq Messages /\ held \subseteq Messages /\ recorded \in Seq(Messages)

\* A text message that has arrived is in the modem or on record (processOne deletes
\* the modem's copy only after deliverIncomingSMS).
NothingLost == \A m \in arrived \cap Texts : m \in held \/ m \in Range(recorded)

\* A message is on record once, however often the modem's copy is read.
RecordedOnce == \A i, j \in DOMAIN recorded : recorded[i] = recorded[j] => i = j
=============================================================================

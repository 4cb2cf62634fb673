--------------------------- MODULE HubClient_proofs ---------------------------
(***************************************************************************)
(* Theorems about HubClient, for any number of messages.                   *)
(***************************************************************************)
EXTENDS HubClient, SequenceTheorems, TLAPS

\* recv takes a prefix and leaves the rest.
LEMMA Split ==
    ASSUME inbox \in Seq(Messages), NEW n \in 1..Len(inbox)
    PROVE  /\ SubSeq(inbox, 1, n) \in Seq(Messages)
           /\ SubSeq(inbox, n + 1, Len(inbox)) \in Seq(Messages)
<1>1. \A i \in 1..Len(inbox) : inbox[i] \in Messages
  OBVIOUS
<1>2. 1 \in 1..(Len(inbox) + 1) /\ n + 1 \in 1..(Len(inbox) + 1)
      /\ n \in 0..Len(inbox) /\ Len(inbox) \in 0..Len(inbox)
  OBVIOUS
<1> QED
  BY <1>1, <1>2, SubSeqProperties

LEMMA ContentTyped ==
    ASSUME NEW s \in Seq(Messages)
    PROVE  Content(s) \subseteq Messages
BY DEF Content

LEMMA Empty == <<>> \in Seq(Messages)
OBVIOUS

LEMMA TypeInit == Init => TypeOK
<1> SUFFICES ASSUME Init PROVE TypeOK
  OBVIOUS
<1>1. sent \in 0..MaxMessages
  BY HubAssumption DEF Init
<1>2. inbox \in Seq(Messages) /\ chunk \in Seq(Messages) /\ response \in Seq(Messages)
  BY Empty DEF Init
<1> QED
  BY <1>1, <1>2 DEF Init, TypeOK

LEMMA TypeStep == TypeOK /\ [Next]_vars => TypeOK'
<1> SUFFICES ASSUME TypeOK, [Next]_vars PROVE TypeOK'
  OBVIOUS
<1> USE DEF TypeOK, socket, reading
<1>1. CASE ServerSends
  <2>1. sent + 1 \in Messages /\ sent + 1 \in 0..MaxMessages /\ inbox' = Append(inbox, sent + 1)
    BY <1>1, HubAssumption DEF ServerSends, Messages
  <2>2. inbox' \in Seq(Messages)
    BY <2>1
  <2> QED
    BY <1>1, <2>1, <2>2 DEF ServerSends
<1>2. CASE ServerCloses
  BY <1>2 DEF ServerCloses
<1>3. CASE StartFails \/ NoListener
  BY <1>3 DEF StartFails, NoListener
<1>12. CASE Connect
  BY <1>12 DEF Connect
<1>13. CASE StartListener
  BY <1>13 DEF StartListener
<1>4. CASE SendOnly \/ SendQuery
  BY <1>4 DEF SendOnly, SendQuery, SendWorks, SendFails
<1>5. CASE ReceiveResponse \/ Receive
  <2>1. PICK n \in Messages :
           /\ n \in 1..Len(inbox) /\ inbox' = SubSeq(inbox, n + 1, Len(inbox))
           /\ response' = SubSeq(inbox, 1, n) \/ chunk' = SubSeq(inbox, 1, n)
           /\ response' = SubSeq(inbox, 1, n) \/ UNCHANGED response
           /\ chunk' = SubSeq(inbox, 1, n) \/ UNCHANGED chunk
    BY <1>5 DEF ReceiveResponse, Receive, Takes, First
  <2>2. /\ inbox' \in Seq(Messages) /\ chunk' \in Seq(Messages)
        /\ response' \in Seq(Messages)
    BY <2>1, Split
  <2> QED
    BY <1>5, <2>2 DEF ReceiveResponse, Receive
<1>6. CASE NoResponse \/ ChooseDisconnect \/ Disconnect \/ Join
  BY <1>6 DEF NoResponse, ChooseDisconnect, Disconnect, Join
<1>7. CASE ShowResponse
  <2>1. Content(response) \subseteq Messages
    BY ContentTyped
  <2> QED
    BY <1>7, <2>1, Empty DEF ShowResponse
<1>8. CASE SendKills
  BY <1>8 DEF SendKills, Killed
<1>9. CASE NothingThere \/ EndOfStream \/ RecvError \/ Wake \/ Canceled
  BY <1>9 DEF NothingThere, EndOfStream, RecvError, Wake, Canceled
<1>10. CASE ShowMessage
  <2>1. Content(chunk) \subseteq Messages
    BY ContentTyped
  <2> QED
    BY <1>10, <2>1, Empty DEF ShowMessage
<1>11. CASE UNCHANGED vars
  BY <1>11 DEF vars
<1> QED
  BY <1>1, <1>2, <1>3, <1>4, <1>5, <1>6, <1>7, <1>8, <1>9, <1>10, <1>11,
     <1>12, <1>13
     DEF Next, MainWorks, UserChooses, ListenerStep

\* The variables have their types, and each reader shows all it has read before it reads
\* again: its buffer is empty then.
THEOREM TypeCorrect == Spec => []TypeOK
BY TypeInit, TypeStep, PTL DEF Spec

(***************************************************************************)
(* The stages of the program, and why a listener that is gone is gone.     *)
(***************************************************************************)
Stages ==
    /\ menu = "start" => ~open
    /\ menu \in {"menu", "query", "response"} => listener # "none"
    /\ menu \in {"join", "down"} => ~open
    /\ listener = "gone" => ~open
    /\ listener = "ended" /\ open => link # "up"

ListenInv == TypeOK /\ Stages

LEMMA ListenStep == ListenInv /\ [Next]_vars => ListenInv'
<1> SUFFICES ASSUME ListenInv, [Next]_vars PROVE Stages'
  BY TypeStep DEF ListenInv
<1> USE DEF ListenInv, Stages, socket, reading
<1>1. CASE ServerSends \/ ServerCloses
  BY <1>1 DEF ServerSends, ServerCloses
<1>2. CASE StartFails \/ Connect \/ StartListener \/ NoListener
  <2>1. menu \in {"start", "spawn"} => listener = "none"
    BY DEF TypeOK
  <2> QED
    BY <1>2, <2>1 DEF StartFails, Connect, StartListener, NoListener
<1>3. CASE SendOnly \/ SendQuery
  BY <1>3 DEF SendOnly, SendQuery, SendWorks, SendFails
<1>4. CASE ReceiveResponse \/ NoResponse \/ ShowResponse
  BY <1>4 DEF ReceiveResponse, NoResponse, ShowResponse
<1>5. CASE ChooseDisconnect \/ Disconnect \/ Join
  BY <1>5 DEF ChooseDisconnect, Disconnect, Join
<1>6. CASE SendKills
  BY <1>6 DEF SendKills, Killed
<1>7. CASE Receive \/ NothingThere \/ EndOfStream
  BY <1>7 DEF Receive, NothingThere, EndOfStream
<1>10. CASE RecvError
  <2>1. /\ listener = "recv" /\ listener' = "ended" /\ UNCHANGED <<menu, open>>
        /\ open => link' = "broken"
    BY <1>10 DEF RecvError
  <2> QED
    BY <2>1
<1>8. CASE Wake \/ ShowMessage
  <2>1. listener' = "recv" /\ UNCHANGED <<menu, open>>
    BY <1>8 DEF Wake, ShowMessage
  <2> QED
    BY <2>1
<1>11. CASE Canceled
  BY <1>11 DEF Canceled
<1>9. CASE UNCHANGED vars
  BY <1>9 DEF vars
<1> QED
  BY <1>1, <1>2, <1>3, <1>4, <1>5, <1>6, <1>7, <1>8, <1>9, <1>10, <1>11
     DEF Next, MainWorks, UserChooses, ListenerStep

\* The listener does not give up as long as there is a connection, whatever data is there
\* or is taken from it by a query; an EAGAIN is not an end (listener.c:21).
THEOREM ListenerListensCorrect == Spec => []ListenerListens
<1>1. Init => ListenInv
  BY TypeInit DEF Init, ListenInv, Stages
<1>2. ListenInv => ListenerListens
  BY DEF ListenInv, TypeOK, Stages, ListenerListens, ListenerGone
<1> QED
  BY <1>1, <1>2, ListenStep, PTL DEF Spec
=============================================================================

------------------------------- MODULE HubClient -------------------------------
(***************************************************************************)
(* The hub's program (hub/src): the menu in main and the listener thread   *)
(* read one socket, which is O_NONBLOCK (hub.c), so that recv returns      *)
(* at once.  When the server closes, recv returns 0 and leaves errno as it *)
(* was; the listener looks at errno.  The texts of messages are left out:  *)
(* they are numbered as the server sends them.                             *)
(***************************************************************************)
EXTENDS Naturals, Sequences

CONSTANT MaxMessages   \* bound: messages the server sends

ASSUME HubAssumption == MaxMessages \in Nat

VARIABLES
    menu,       \* where main is
    listener,   \* where the listener thread is
    again,      \* its errno is EAGAIN
    open,       \* the hub has not closed its socket
    link,       \* "up"; "closed" by the server; "reset", with an error to report;
                \* "broken": nothing more can be sent
    sent,       \* messages the server sent
    inbox,      \* those not read yet
    chunk,      \* what the listener has read and not shown
    response,   \* what a query has read and not shown
    shown       \* messages on the screen

vars == <<menu, listener, again, open, link, sent, inbox, chunk, response, shown>>

socket == <<link, sent, inbox>>
reading == <<listener, again, chunk>>

Messages == 1..MaxMessages
Content(s) == {s[i] : i \in DOMAIN s}

Init ==
    /\ menu = "start" /\ listener = "none"
    /\ again = FALSE /\ open = FALSE
    /\ link = "up" /\ sent = 0 /\ inbox = <<>>
    /\ chunk = <<>> /\ response = <<>> /\ shown = {}

-----------------------------------------------------------------------------
(* The server and the network.                                             *)

ServerSends ==
    /\ open /\ link = "up" /\ sent < MaxMessages
    /\ sent' = sent + 1
    /\ inbox' = Append(inbox, sent + 1)
    /\ UNCHANGED <<menu, reading, open, link, response, shown>>

\* It resets the connection if it has not read everything.
ServerCloses ==
    /\ open /\ link = "up"
    /\ link' \in {"closed", "reset"}
    /\ UNCHANGED <<menu, reading, open, sent, inbox, response, shown>>

\* send: it may fail as long as the connection is up; the server answers what it does not
\* expect any more with a reset, which may take time; the error of a reset is reported
\* once, to the send or recv that comes first.
SendWorks == \/ link = "up" /\ UNCHANGED link
             \/ link = "closed" /\ link' \in {"closed", "broken"}
SendFails == \/ link = "up" /\ UNCHANGED link
             \/ link = "reset" /\ link' = "broken"

\* A further one raises SIGPIPE, which ends the program.
Killed ==
    /\ link = "broken"
    /\ menu' = "down" /\ listener' = "gone" /\ open' = FALSE
    /\ UNCHANGED <<socket, again, chunk, response, shown>>

\* recv takes some of the messages that are there, as its buffer and their arrival allow.
Takes(n) == n \in 1..Len(inbox) /\ inbox' = SubSeq(inbox, n + 1, Len(inbox))
First(n) == SubSeq(inbox, 1, n)

-----------------------------------------------------------------------------
(* main.                                                                   *)

\* The connection fails, or the client_info cannot be sent.
StartFails ==
    /\ menu = "start"
    /\ menu' = "down"
    /\ UNCHANGED <<reading, open, socket, response, shown>>

Connect ==
    /\ menu = "start"
    /\ menu' = "spawn" /\ open' = TRUE
    /\ UNCHANGED <<reading, socket, response, shown>>

StartListener ==
    /\ menu = "spawn"
    /\ menu' = "menu" /\ listener' = "recv"
    /\ UNCHANGED <<again, chunk, open, socket, response, shown>>

\* Without a listener the hub disconnects.
NoListener ==
    /\ menu = "spawn"
    /\ menu' = "leave"
    /\ UNCHANGED <<reading, open, socket, response, shown>>

\* handle_create_order, handle_cancel_order, handle_delivery_update: a send that fails is
\* reported and forgotten.
SendOnly ==
    /\ menu = "menu"
    /\ SendWorks \/ SendFails
    /\ UNCHANGED <<menu, reading, open, sent, inbox, response, shown>>

\* handle_query_order_status sends and, if that worked, receives at once.
SendQuery ==
    /\ menu = "menu"
    /\ \/ SendWorks /\ menu' = "query"
       \/ SendFails /\ UNCHANGED menu
    /\ UNCHANGED <<reading, open, sent, inbox, response, shown>>

ReceiveResponse ==
    /\ menu = "query"
    /\ \E n \in Messages : Takes(n) /\ response' = First(n)
    /\ menu' = "response"
    /\ UNCHANGED <<reading, open, link, sent, shown>>

\* Nothing there yet, the end of the stream, or its error, which is reported once.
NoResponse ==
    /\ menu = "query" /\ inbox = <<>>
    /\ link' = IF link = "reset" THEN "broken" ELSE link
    /\ menu' = "menu"
    /\ UNCHANGED <<reading, open, sent, inbox, response, shown>>

\* Mutant: a response is only shown when the connection is still up.
ShowIfUp ==
    /\ menu = "response"
    /\ shown' = IF link = "up" THEN shown \cup Content(response) ELSE shown
    /\ response' = <<>>
    /\ menu' = "menu"
    /\ UNCHANGED <<reading, open, socket>>

ShowResponse ==
    /\ menu = "response"
    /\ shown' = shown \cup Content(response)
    /\ response' = <<>>
    /\ menu' = "menu"
    /\ UNCHANGED <<reading, open, socket>>

ChooseDisconnect ==
    /\ menu = "menu"
    /\ menu' = "leave"
    /\ UNCHANGED <<reading, open, socket, response, shown>>

\* disconnect_hub_from_server, and pthread_cancel or, without a listener, the end.
Disconnect ==
    /\ menu = "leave" /\ link # "broken"
    /\ open' = FALSE
    /\ menu' = IF listener = "none" THEN "down" ELSE "join"
    /\ UNCHANGED <<reading, socket, response, shown>>

\* Mutant: only a listener that was canceled is waited for.
GoneOnly == listener = "gone"

ListenerGone == listener \in {"none", "gone", "ended"}

Join ==
    /\ menu = "join" /\ ListenerGone
    /\ menu' = "down"
    /\ UNCHANGED <<reading, open, socket, response, shown>>

\* The message of a choice, or of the disconnection.
SendKills == menu \in {"menu", "leave"} /\ Killed

-----------------------------------------------------------------------------
(* listen_for_updates.                                                     *)

Receive ==
    /\ listener = "recv" /\ open
    /\ \E n \in Messages : Takes(n) /\ chunk' = First(n)
    /\ listener' = "read"
    /\ UNCHANGED <<menu, again, open, link, sent, response, shown>>

\* Mutant: the listener gives up when there is nothing to read.
GivesUp ==
    /\ listener = "recv" /\ open /\ link = "up" /\ inbox = <<>>
    /\ again' = TRUE
    /\ listener' = "ended"
    /\ UNCHANGED <<menu, chunk, open, socket, response, shown>>

NothingThere ==
    /\ listener = "recv" /\ open /\ link = "up" /\ inbox = <<>>
    /\ again' = TRUE
    /\ listener' = "sleep"
    /\ UNCHANGED <<menu, chunk, open, socket, response, shown>>

\* Mutant: the end of the stream is taken for an empty one.
NeverEnds ==
    /\ listener = "recv" /\ open /\ link \in {"closed", "broken"} /\ inbox = <<>>
    /\ listener' = "sleep"
    /\ UNCHANGED <<menu, again, chunk, open, socket, response, shown>>

\* recv returns 0: what errno says is left from an earlier call.
EndOfStream ==
    /\ listener = "recv" /\ open /\ link \in {"closed", "broken"} /\ inbox = <<>>
    /\ listener' = IF again THEN "sleep" ELSE "ended"
    /\ UNCHANGED <<menu, again, chunk, open, socket, response, shown>>

\* recv returns -1 with another errno: the connection was reset, or main has closed the
\* descriptor.
RecvError ==
    /\ listener = "recv"
    /\ ~open \/ (link = "reset" /\ inbox = <<>>)
    /\ link' = IF open THEN "broken" ELSE link
    /\ again' = FALSE
    /\ listener' = "ended"
    /\ UNCHANGED <<menu, chunk, open, sent, inbox, response, shown>>

Wake ==
    /\ listener = "sleep"
    /\ listener' = "recv"
    /\ UNCHANGED <<menu, again, chunk, open, socket, response, shown>>

\* The message is printed, parsed and listed; output may change errno.
ShowMessage ==
    /\ listener = "read"
    /\ shown' = shown \cup Content(chunk)
    /\ chunk' = <<>>
    /\ again' \in {again, FALSE}
    /\ listener' = "recv"
    /\ UNCHANGED <<menu, open, socket, response>>

\* recv, sleep and printf are cancelation points.
Canceled ==
    /\ menu = "join" /\ listener \in {"recv", "sleep", "read"}
    /\ listener' = "gone"
    /\ UNCHANGED <<menu, again, chunk, open, socket, response, shown>>

-----------------------------------------------------------------------------
MainWorks ==
    \/ StartListener \/ NoListener
    \/ ReceiveResponse \/ NoResponse \/ ShowResponse
    \/ Disconnect \/ Join \/ (menu = "leave" /\ SendKills)

UserChooses == SendOnly \/ SendQuery \/ ChooseDisconnect \/ (menu = "menu" /\ SendKills)

ListenerStep ==
    Receive \/ NothingThere \/ EndOfStream \/ RecvError \/ Wake \/ ShowMessage \/ Canceled

Next ==
    \/ ServerSends \/ ServerCloses
    \/ StartFails \/ Connect \/ UserChooses \/ MainWorks
    \/ ListenerStep

Spec == Init /\ [][Next]_vars

\* Both threads run on; the user and the server may do nothing for ever.
FairSpec == Spec /\ WF_vars(MainWorks) /\ WF_vars(ListenerStep)

-----------------------------------------------------------------------------
TypeOK ==
    /\ menu \in {"start", "spawn", "menu", "query", "response", "leave", "join", "down"}
    /\ listener \in {"none", "recv", "sleep", "read", "ended", "gone"}
    /\ again \in BOOLEAN /\ open \in BOOLEAN
    /\ link \in {"up", "closed", "reset", "broken"}
    /\ sent \in 0..MaxMessages
    /\ inbox \in Seq(Messages) /\ chunk \in Seq(Messages) /\ response \in Seq(Messages)
    /\ shown \subseteq Messages
    /\ menu \in {"start", "spawn"} => listener = "none"
    /\ listener \in {"none", "recv", "sleep"} => chunk = <<>>
    /\ menu \in {"start", "spawn", "menu", "query"} => response = <<>>

\* As long as the connection is up and the hub uses it there is a listener to read it,
\* whatever the menu's queries take away from it (listener.c:21: no data is no reason to
\* stop).
ListenerListens ==
    open /\ link = "up" /\ menu \notin {"spawn", "leave"} => ~ListenerGone

\* What the server has sent appears on the screen in the end, shown by one thread or by
\* the other, also when the server closes after it; unless the hub leaves or is killed.
EverythingIsShown ==
    \A i \in Messages : i \in Content(inbox) ~> i \in shown \/ ~open

\* When the server has closed, the listener stops; if its last recv found nothing there
\* it turns for ever instead, since it takes the 0 for another EAGAIN (listener.c:21).
ListenerStops == open /\ link # "up" /\ ~again ~> ListenerGone \/ ~open

\* "Wait for the listener thread to finish" (main.c:117): the wait ends.
LeaveTerminates == menu = "leave" ~> menu = "down"
=============================================================================

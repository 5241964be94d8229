-------------------------------- MODULE Chat --------------------------------
(***************************************************************************)
(* Chat between the staff of a club, and between its players and its staff *)
(* (chat.service, player-chat.service and their routes).                   *)
(*                                                                         *)
(* A handler reads in its first step and then makes its writes one by one, *)
(* in the order of the code.  A save loads the row again ("load") and then *)
(* writes the columns that differ from what it found ("save");             *)
(* assigned_staff is not among them unless the handler set it.             *)
(***************************************************************************)
EXTENDS Naturals, Sequences

CONSTANTS
  Team, Admins,        \* who works at the club; those who may have no row in staff
  Guests,              \* players
  Chats, Messages,     \* ids
  Lines                \* slots for requests under way

ASSUME ChatAssumption ==
  /\ Admins \subseteq Team /\ Team \cap Guests = {}
  /\ "nobody" \notin Team \cup Guests /\ "left" \notin Team \cup Guests

VARIABLES
  listed,    \* the Team with a row in staff
  chat,      \* chat[c]: the row c of chat_sessions
  message,   \* message[m]: the row m of chat_messages
  sending    \* sending[l]: the request in slot l, the row it holds, what it has to
             \* write, and the row its save has found

chatVars == <<listed, chat, message, sending>>

Live == {"open", "in_progress"}
Status == Live \cup {"resolved", "closed"}
Somebody == Team \cup Guests \cup {"nobody"}

\* A staff chat has an initiator and a recipient, a player chat its player.
\* Both "nobody" and "left" stand for an assigned_staff_id of NULL: "left" for
\* the one the deletion of the assigned member has left behind.
Chat == [kind : {"unused", "staff", "player"}, initiator : Somebody, recipient : Somebody,
         assigned : Team \cup {"nobody", "left"}, status : Status, archived : SUBSET Team]
NoChat == [kind |-> "unused", initiator |-> "nobody", recipient |-> "nobody",
           assigned |-> "nobody", status |-> "open", archived |-> {}]

Message == [chat : Chats \cup {"none"}, sender : Somebody, read : BOOLEAN]
NoMessage == [chat |-> "none", sender |-> "nobody", read |-> FALSE]

Writes == {"insert", "load", "save", "say", "read"}
Request == [todo : UNION {[1..n -> Writes] : n \in 0..3}, who : Somebody,
            chat : Chats \cup {"none"}, row : Chat, base : Chat]
Idle == [todo |-> <<>>, who |-> "nobody", chat |-> "none", row |-> NoChat, base |-> NoChat]

TypeOK ==
  /\ listed \subseteq Team /\ chat \in [Chats -> Chat]
  /\ message \in [Messages -> Message] /\ sending \in [Lines -> Request]

Init ==
  /\ listed = Team \ Admins /\ chat = [c \in Chats |-> NoChat]
  /\ message = [m \in Messages |-> NoMessage] /\ sending = [l \in Lines |-> Idle]

-----------------------------------------------------------------------------
(* Requests.                                                               *)

Quiet == \A l \in Lines : sending[l] = Idle

\* An admin without a row in staff is given one by whatever he first does;
\* anybody else without one is turned away.
Starts(l, people, request) ==
  /\ people \subseteq listed \cup Admins
  /\ sending[l] = Idle /\ sending' = [sending EXCEPT ![l] = request]
  /\ listed' = listed \cup people
  /\ UNCHANGED <<chat, message>>

Does(l, write) == sending[l].todo # <<>> /\ Head(sending[l].todo) = write
Goes(l, c) ==
  LET r == sending[l] IN
  sending' = [sending EXCEPT ![l] =
    IF Len(r.todo) = 1 THEN Idle ELSE [r EXCEPT !.todo = Tail(@), !.chat = c]]

InsertChat(l, c) ==
  /\ Does(l, "insert") /\ chat[c] = NoChat
  /\ chat' = [chat EXCEPT ![c] = sending[l].row] /\ Goes(l, c)
  /\ UNCHANGED <<listed, message>>

LoadAgain(l) ==
  /\ Does(l, "load")
  /\ sending' = [sending EXCEPT ![l].todo = Tail(@), ![l].base = chat[sending[l].chat]]
  /\ UNCHANGED <<listed, chat, message>>

\* Fault: a relation that was not loaded is written as null.
SavedWhole(mine, found, now) == mine
\* A column is written if it differs from what the save found.  A relation that
\* was not loaded is not written; who a chat is between never changes.
Column(mine, found, now) == IF mine = found THEN now ELSE mine
Saved(mine, found, now) ==
  [now EXCEPT
     !.status = Column(mine.status, found.status, @),
     !.archived = {a \in Team : Column(a \in mine.archived, a \in found.archived, a \in @)},
     !.assigned = IF mine.assigned = "nobody" THEN @
                  ELSE Column(mine.assigned, found.assigned, @)]
SaveChat(l) ==
  LET r == sending[l] IN
  /\ Does(l, "save") /\ Goes(l, r.chat)
  /\ chat' = [chat EXCEPT ![r.chat] = Saved(r.row, r.base, @)]
  /\ UNCHANGED <<listed, message>>

Say(l, m) ==
  LET r == sending[l] IN
  /\ Does(l, "say") /\ Goes(l, r.chat) /\ message[m] = NoMessage
  /\ message' = [message EXCEPT ![m] = [chat |-> r.chat, sender |-> r.who, read |-> FALSE]]
  /\ UNCHANGED <<listed, chat>>

\* Every unread message is marked, on the page that was fetched or not: in a
\* staff chat those of the others, in a player chat those of the other side.
ForReader(who, c) ==
  {m \in Messages : message[m].chat = c /\
     IF chat[c].kind = "staff" THEN message[m].sender # who
     ELSE (message[m].sender \in Guests) = (who \in Team)}
MarkRead(l) ==
  LET r == sending[l] IN
  /\ Does(l, "read") /\ Goes(l, r.chat)
  /\ message' = [m \in Messages |-> [message[m] EXCEPT !.read = @ \/ m \in ForReader(r.who, r.chat)]]
  /\ UNCHANGED <<listed, chat>>

\* The process dies between two writes.
Abandon(l) ==
  sending[l] # Idle /\ sending' = [sending EXCEPT ![l] = Idle] /\ UNCHANGED <<listed, chat, message>>

-----------------------------------------------------------------------------
(* chat.service: staff.                                                    *)

\* Loaded without its relations.
Loaded(c) == [chat[c] EXCEPT !.assigned = "nobody"]

\* Fault: only chats the initiator began are found.
Begun(a, b) == {c \in Chats : chat[c].kind = "staff" /\ chat[c].initiator = a /\ chat[c].recipient = b}
Between(a, b) ==
  {c \in Chats : chat[c].kind = "staff" /\ {chat[c].initiator, chat[c].recipient} = {a, b}}

\* A chat the two have is taken up again, archived or not.
CreateStaffChatSession(l, a, b) ==
  /\ a # b
  /\ \/ /\ Between(a, b) = {}
        /\ Starts(l, {a, b}, [Idle EXCEPT !.todo = <<"insert">>,
             !.row = [NoChat EXCEPT !.kind = "staff", !.initiator = a, !.recipient = b]])
     \/ \E c \in Between(a, b) :
          /\ a \in chat[c].archived
          /\ Starts(l, {a, b}, [Idle EXCEPT !.todo = <<"load", "save">>, !.chat = c,
               !.row = [Loaded(c) EXCEPT !.archived = @ \ {a}]])

\* Fault: the player is put down as the one who looks after the chat.
PlayerHandled(p) == [NoChat EXCEPT !.kind = "player", !.initiator = p, !.assigned = p]
PlayerChat(p) == [NoChat EXCEPT !.kind = "player", !.initiator = p]
CreatePlayerChatSession(l, p) ==
  Starts(l, {}, [Idle EXCEPT !.todo = <<"insert">>, !.row = PlayerChat(p)])

PartyTo(a, c) == a \in {chat[c].initiator, chat[c].recipient}

\* A staff message is inserted before its chat is saved.
SendStaffMessage(l, a, c) ==
  /\ chat[c].kind = "staff" /\ PartyTo(a, c)
  /\ Starts(l, {a}, [Idle EXCEPT !.todo = <<"say", "load", "save">>, !.who = a, !.chat = c,
       !.row = Loaded(c)])

\* assignedStaff is not among the relations sendMessage loads, so whoever
\* answers is assigned, whatever the status of the chat.
SendAnswer(l, a, c) ==
  /\ chat[c].kind = "player"
  /\ Starts(l, {a}, [Idle EXCEPT !.todo = <<"load", "save", "say">>, !.who = a, !.chat = c,
       !.row = [chat[c] EXCEPT !.assigned = a,
                               !.status = IF @ = "open" THEN "in_progress" ELSE @]])

GetSessionMessages(l, a, c) ==
  /\ chat[c].kind = "player" \/ (chat[c].kind = "staff" /\ PartyTo(a, c))
  /\ Starts(l, {a}, [Idle EXCEPT !.todo = <<"read">>, !.who = a, !.chat = c])

\* The status, who is to look after it, or both.
UpdateChatSession(l, c, status, a) ==
  /\ chat[c].kind # "unused" /\ a \in listed \cup {"nobody"}
  /\ Starts(l, {}, [Idle EXCEPT !.todo = <<"load", "save">>, !.chat = c,
       !.row = [Loaded(c) EXCEPT !.status = status, !.assigned = a]])

ArchiveChatSession(l, a, c) ==
  /\ chat[c].kind = "staff" /\ PartyTo(a, c)
  /\ Starts(l, {a}, [Idle EXCEPT !.todo = <<"load", "save">>, !.chat = c,
       !.row = [Loaded(c) EXCEPT !.archived = @ \cup {a}]])

\* The lists and the unread counts write nothing but the admin's row.
LookUp(a) ==
  a \in listed \cup Admins /\ listed' = listed \cup {a} /\ UNCHANGED <<chat, message, sending>>

-----------------------------------------------------------------------------
(* staff-management.service, as far as chats go.                           *)

\* The row of a that a request holds is still to be written.
Holds(r, a) ==
  r.todo # <<"read">> /\ a \in {r.who, r.row.initiator, r.row.recipient, r.row.assigned}

\* The foreign keys set their columns to NULL, which the checks of the tables
\* refuse for the parties of a staff chat and the sender of a message.  What
\* requests hold of the row is refused when they write it: they end here.
DeleteStaff(a) ==
  /\ a \in listed
  /\ \A c \in Chats : chat[c].kind = "staff" => ~PartyTo(a, c)
  /\ \A m \in Messages : message[m].sender # a
  /\ listed' = listed \ {a}
  /\ chat' = [c \in Chats |-> IF chat[c].assigned = a THEN [chat[c] EXCEPT !.assigned = "left"]
                             ELSE chat[c]]
  /\ sending' = [l \in Lines |-> IF Holds(sending[l], a) THEN Idle ELSE sending[l]]
  /\ UNCHANGED message

-----------------------------------------------------------------------------
(* player-chat.service.                                                    *)

ChatsOf(p) == {c \in Chats : chat[c].kind = "player" /\ chat[c].initiator = p}

\* Fault: a chat in progress is not found.
OpenOf(p) == {c \in ChatsOf(p) : chat[c].status = "open"}
LiveOf(p) == {c \in ChatsOf(p) : chat[c].status \in Live}

\* With chats that were all resolved or closed the player is turned away.
SendMessage(l, p) ==
  \/ /\ ChatsOf(p) = {}
     /\ Starts(l, {}, [Idle EXCEPT !.todo = <<"insert", "say">>, !.who = p, !.row = PlayerChat(p)])
  \/ \E c \in LiveOf(p) :
       Starts(l, {}, [Idle EXCEPT !.todo = <<"load", "save", "say">>, !.who = p, !.chat = c,
         !.row = Loaded(c)])

StartNewChatSession(l, p) ==
  /\ LiveOf(p) = {}
  /\ Starts(l, {}, [Idle EXCEPT !.todo = <<"insert">>, !.row = PlayerChat(p)])

ReadOwnChat(l, p, c) ==
  /\ c \in ChatsOf(p)
  /\ Starts(l, {}, [Idle EXCEPT !.todo = <<"read">>, !.who = p, !.chat = c])

-----------------------------------------------------------------------------
StaffChatStep(l) ==
  \E a \in Team :
    \/ \E b \in Team : CreateStaffChatSession(l, a, b)
    \/ \E c \in Chats : SendStaffMessage(l, a, c) \/ ArchiveChatSession(l, a, c)
                        \/ GetSessionMessages(l, a, c)
    \/ LookUp(a)
AnswerStep(l) == \E a \in Team, c \in Chats : SendAnswer(l, a, c)
UpdateStep(l, statuses) ==
  \E c \in Chats, s \in statuses, a \in Team \cup {"nobody"} : UpdateChatSession(l, c, s, a)
OpenStep(l) == \E p \in Guests : CreatePlayerChatSession(l, p)
PlayerChatStep(l) ==
  \E p \in Guests : \/ SendMessage(l, p) \/ StartNewChatSession(l, p)
                    \/ \E c \in Chats : ReadOwnChat(l, p, c)
WriteStep(l) ==
  \/ \E c \in Chats : InsertChat(l, c)
  \/ \E m \in Messages : Say(l, m)
  \/ LoadAgain(l) \/ SaveChat(l) \/ MarkRead(l) \/ Abandon(l)

Next ==
  \/ \E l \in Lines : \/ StaffChatStep(l) \/ AnswerStep(l) \/ UpdateStep(l, Status) \/ OpenStep(l)
                      \/ PlayerChatStep(l) \/ WriteStep(l)
  \/ \E a \in Team : DeleteStaff(a)

Spec == Init /\ [][Next]_chatVars

-----------------------------------------------------------------------------
(* Properties.                                                             *)

\* Two of the staff have one chat with each other, whoever began it and
\* whoever archived it since.
OneChatPerPair ==
  \A c, d \in Chats :
    c # d /\ chat[c].kind = "staff" /\ chat[d].kind = "staff"
      => {chat[c].initiator, chat[c].recipient} # {chat[d].initiator, chat[d].recipient}

\* A player has one chat that is open or in progress: the one that both his
\* messages and his history are taken from.
OneLiveChat == \A p \in Guests : \A c, d \in LiveOf(p) : c = d

\* A player who was answered has somebody looking after the chat until that
\* member of staff is deleted, whatever was saved over it in the meantime and
\* wherever a request died: the answer is inserted after the chat is saved, and
\* no save takes the assignment away.
AnsweredIsAssigned ==
  \A m \in Messages :
    message[m] # NoMessage /\ message[m].sender \in Team /\ chat[message[m].chat].kind = "player"
      => chat[message[m].chat].assigned # "nobody"
=============================================================================

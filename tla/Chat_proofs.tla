----------------------------- MODULE Chat_proofs -----------------------------
(***************************************************************************)
(* Theorems about Chat, for any staff, players, chats, messages and number *)
(* of requests under way.                                                  *)
(*                                                                         *)
(*   TypeCorrect       every variable keeps its type (TypeOK)              *)
(*   AnswersAssigned   a player who was answered has somebody assigned     *)
(*                     until that one is deleted (AnsweredIsAssigned)      *)
(*   ChatsStayApart    requests taken in turn open one chat for two of the *)
(*                     staff, and one live chat for a player (ChatsApart)  *)
(*                                                                         *)
(* The second is about what has been written and rests on what is still to *)
(* be written: a request that holds an answer has its assignment to save   *)
(* first, or has saved it, no save that other requests hold takes an       *)
(* assignment away, and one that found somebody assigned still does when   *)
(* it leaves that column alone (Fits).  The                                *)
(* third is about MCSpec in its mode "in turn": the row a request holds is *)
(* new among the chats until it is inserted, or follows the chat it was    *)
(* loaded from until it is saved (Fresh).                                  *)
(***************************************************************************)
EXTENDS MCChat, TLAPS

\* What a request may have left to write.
Inserts == {<<"insert">>, <<"insert", "say">>}
Loads == {<<"load", "save">>, <<"say", "load", "save">>, <<"load", "save", "say">>}
Saves == {<<"save">>, <<"save", "say">>}
Todo == {<<>>, <<"say">>, <<"read">>} \cup Inserts \cup Loads \cup Saves

\* The request r makes sense for the chats as they are in ch.
Fits(r, ch) ==
  /\ r.todo \in Todo
  /\ r.todo \in Inserts => r.row.kind # "unused"
  /\ r.todo = <<"insert", "say">> => r.who \in Guests
  /\ r.todo \in Todo \ (Inserts \cup {<<>>}) => r.chat \in Chats /\ ch[r.chat].kind # "unused"
  /\ r.todo = <<"say", "load", "save">> => ch[r.chat].kind = "staff"
  /\ r.todo \in Saves /\ r.base.assigned # "nobody" => ch[r.chat].assigned # "nobody"
  /\ r.todo \in {<<"load", "save", "say">>, <<"save", "say">>} /\ r.who \in Team =>
       r.row.assigned # "nobody"
  /\ r.todo = <<"say">> /\ r.who \in Team => ch[r.chat].assigned # "nobody"

\* What one of the staff said was said in a chat, and a player's chat it was
\* said in is assigned.
Said(m, ch) ==
  m.sender \in Team =>
    /\ m.chat \in Chats /\ ch[m.chat].kind # "unused"
    /\ ch[m.chat].kind = "player" => ch[m.chat].assigned # "nobody"

\* A chat keeps its kind, and somebody assigned to it may only be replaced.
Grows(ch, new) ==
  \A c \in Chats : ch[c].kind # "unused" =>
    /\ new[c].kind = ch[c].kind
    /\ ch[c].assigned # "nobody" => new[c].assigned # "nobody"

IInv ==
  /\ TypeOK
  /\ \A l \in Lines : Fits(sending[l], chat)
  /\ \A m \in Messages : Said(message[m], chat)

-----------------------------------------------------------------------------
(* Lemmas.                                                                 *)

\* The sequences of writes are what TypeOK says they are.
LEMMA TodoType == \A todo \in Todo : todo \in UNION {[1..n -> Writes] : n \in 0..3}
<1> DEFINE Short(todo) == \E n \in 0..3 : todo \in [1..n -> Writes]
<1>1. Short(<<>>)
  <2>1. <<>> \in [1..0 -> Writes] /\ 0 \in 0..3
    OBVIOUS
  <2> QED
    BY <2>1
<1>2. ASSUME NEW w \in Writes PROVE Short(<<w>>)
  <2>1. <<w>> \in [1..1 -> Writes] /\ 1 \in 0..3
    OBVIOUS
  <2> QED
    BY <2>1
<1>3. ASSUME NEW v \in Writes, NEW w \in Writes PROVE Short(<<v, w>>)
  <2>1. <<v, w>> \in [1..2 -> Writes] /\ 2 \in 0..3
    OBVIOUS
  <2> QED
    BY <2>1
<1>7. ASSUME NEW u \in Writes, NEW v \in Writes, NEW w \in Writes PROVE Short(<<u, v, w>>)
  <2>1. <<u, v, w>> \in [1..3 -> Writes] /\ 3 \in 0..3
    OBVIOUS
  <2> QED
    BY <2>1
<1>4. ASSUME NEW todo, Short(todo) PROVE todo \in UNION {[1..n -> Writes] : n \in 0..3}
  BY <1>4
<1>5. {"insert", "load", "save", "say", "read"} = Writes
  BY DEF Writes
<1> HIDE DEF Short
<1>6. \A todo \in Todo : Short(todo)
  BY <1>1, <1>2, <1>3, <1>5, <1>7 DEF Todo, Inserts, Loads, Saves
<1> QED
  BY <1>4, <1>6

\* The write a request makes first, and what it has left after it.
LEMMA TodoSteps ==
  /\ \A w : Len(<<w>>) = 1 /\ Head(<<w>>) = w
  /\ \A v, w : Len(<<v, w>>) = 2 /\ Head(<<v, w>>) = v /\ Tail(<<v, w>>) = <<w>>
  /\ \A u, v, w : Len(<<u, v, w>>) = 3 /\ Head(<<u, v, w>>) = u /\ Tail(<<u, v, w>>) = <<v, w>>
OBVIOUS

\* What each write is the first of.
LEMMA TodoFirst ==
  ASSUME NEW l \in Lines, Fits(sending[l], chat)
  PROVE  /\ Does(l, "insert") => sending[l].todo \in Inserts
         /\ Does(l, "load") => sending[l].todo \in {<<"load", "save">>, <<"load", "save", "say">>}
         /\ Does(l, "save") => sending[l].todo \in Saves
         /\ Does(l, "say") => sending[l].todo \in {<<"say">>, <<"say", "load", "save">>}
         /\ Does(l, "read") => sending[l].todo = <<"read">>
BY TodoSteps DEF Does, Fits, Todo, Inserts, Loads, Saves

\* What fits the chats fits them as they grow.
LEMMA StillFits ==
  ASSUME NEW ch, NEW new, Grows(ch, new), NEW r, Fits(r, ch)
  PROVE  Fits(r, new)
BY DEF Fits, Grows, Todo, Inserts, Loads, Saves

\* So does what was said.
LEMMA StillSaid ==
  ASSUME NEW ch, NEW new, Grows(ch, new), NEW m, Said(m, ch)
  PROVE  Said(m, new)
BY DEF Said, Grows

\* The request that is over.
LEMMA IdleFits == Idle \in Request /\ \A ch : Fits(Idle, ch)
<1>1. <<>> \in Todo
  BY DEF Todo
<1>2. NoChat \in Chat
  BY DEF NoChat, Chat, Somebody, Status, Live
<1>3. Idle \in Request
  BY <1>1, <1>2, TodoType DEF Idle, Request, Somebody
<1> QED
  BY <1>1, <1>3 DEF Idle, Fits, Inserts, Loads, Saves

\* A request begins with what fits the chats.
LEMMA StartKeeps ==
  ASSUME IInv, NEW l \in Lines, NEW people, NEW r \in Request,
         Fits(r, chat), Starts(l, people, r)
  PROVE  IInv'
BY ChatAssumption DEF Starts, IInv, TypeOK

-----------------------------------------------------------------------------
(* The requests.                                                           *)

LEMMA StaffStarts ==
  ASSUME IInv, NEW l \in Lines, StaffChatStep(l)
  PROVE  IInv'
<1>1. PICK a \in Team :
        \/ \E b \in Team : CreateStaffChatSession(l, a, b)
        \/ \E c \in Chats : SendStaffMessage(l, a, c) \/ ArchiveChatSession(l, a, c)
                            \/ GetSessionMessages(l, a, c)
        \/ LookUp(a)
  BY DEF StaffChatStep
<1>2. ASSUME NEW b \in Team, CreateStaffChatSession(l, a, b) PROVE IInv'
  <2>1. CASE Starts(l, {a, b}, [Idle EXCEPT !.todo = <<"insert">>,
               !.row = [NoChat EXCEPT !.kind = "staff", !.initiator = a, !.recipient = b]])
    <3> DEFINE new == [NoChat EXCEPT !.kind = "staff", !.initiator = a, !.recipient = b]
               r == [Idle EXCEPT !.todo = <<"insert">>, !.row = new]
    <3>1. new \in Chat /\ new.kind = "staff"
      BY DEF NoChat, Chat, Somebody, Status, Live
    <3>2. Starts(l, {a, b}, r)
      BY <2>1
    <3> HIDE DEF new
    <3>3. r \in Request /\ Fits(r, chat)
      BY <3>1, IdleFits, TodoType DEF Request, Idle, Fits, Todo, Inserts, Loads, Saves
    <3> HIDE DEF r
    <3> QED
      BY <3>2, <3>3, StartKeeps
  <2>2. ASSUME NEW c \in Between(a, b),
               Starts(l, {a, b}, [Idle EXCEPT !.todo = <<"load", "save">>, !.chat = c,
                 !.row = [Loaded(c) EXCEPT !.archived = @ \ {a}]])
        PROVE  IInv'
    <3> DEFINE new == [Loaded(c) EXCEPT !.archived = @ \ {a}]
               r == [Idle EXCEPT !.todo = <<"load", "save">>, !.chat = c, !.row = new]
    <3>1. c \in Chats /\ chat[c].kind = "staff"
      BY DEF Between
    <3>2. new \in Chat /\ new.kind = chat[c].kind
      BY <3>1 DEF IInv, TypeOK, Loaded, Chat
    <3>3. Starts(l, {a, b}, r)
      BY <2>2
    <3> HIDE DEF new
    <3>4. r \in Request /\ Fits(r, chat)
      BY <3>1, <3>2, IdleFits, TodoType DEF Request, Idle, Fits, Todo, Inserts, Loads, Saves
    <3> HIDE DEF r
    <3> QED
      BY <3>3, <3>4, StartKeeps
  <2> QED
    BY <1>2, <2>1, <2>2 DEF CreateStaffChatSession
<1>3. ASSUME NEW c \in Chats, SendStaffMessage(l, a, c) PROVE IInv'
  <2> DEFINE r == [Idle EXCEPT !.todo = <<"say", "load", "save">>, !.who = a, !.chat = c, !.row = Loaded(c)]
  <2>1. chat[c].kind = "staff" /\ Starts(l, {a}, r)
    BY <1>3 DEF SendStaffMessage
  <2>2. Loaded(c) \in Chat /\ Loaded(c).kind = chat[c].kind
    BY DEF IInv, TypeOK, Loaded, Chat
  <2>3. r \in Request /\ Fits(r, chat)
    BY <2>1, <2>2, IdleFits, TodoType DEF Request, Somebody, Idle, Fits, Todo, Inserts, Loads, Saves
  <2> HIDE DEF r
  <2> QED
    BY <2>1, <2>3, StartKeeps
<1>4. ASSUME NEW c \in Chats, ArchiveChatSession(l, a, c) PROVE IInv'
  <2> DEFINE new == [Loaded(c) EXCEPT !.archived = @ \cup {a}]
             r == [Idle EXCEPT !.todo = <<"load", "save">>, !.chat = c, !.row = new]
  <2>1. chat[c].kind = "staff" /\ Starts(l, {a}, r)
    BY <1>4 DEF ArchiveChatSession
  <2>2. new \in Chat /\ new.kind = chat[c].kind
    BY ZenonT(30) DEF IInv, TypeOK, Loaded, Chat
  <2> HIDE DEF new
  <2>3. r \in Request /\ Fits(r, chat)
    BY <2>1, <2>2, IdleFits, TodoType DEF Request, Idle, Fits, Todo, Inserts, Loads, Saves
  <2> HIDE DEF r
  <2> QED
    BY <2>1, <2>3, StartKeeps
<1>5. ASSUME NEW c \in Chats, GetSessionMessages(l, a, c) PROVE IInv'
  <2> DEFINE r == [Idle EXCEPT !.todo = <<"read">>, !.who = a, !.chat = c]
  <2>1. chat[c].kind \in {"player", "staff"} /\ Starts(l, {a}, r)
    BY <1>5 DEF GetSessionMessages
  <2>2. r \in Request /\ Fits(r, chat)
    BY <2>1, IdleFits, TodoType DEF Request, Somebody, Idle, Fits, Todo, Inserts, Loads, Saves
  <2> HIDE DEF r
  <2> QED
    BY <2>1, <2>2, StartKeeps
<1>6. CASE LookUp(a)
  BY <1>6, ChatAssumption DEF LookUp, IInv, TypeOK
<1> QED
  BY <1>1, <1>2, <1>3, <1>4, <1>5, <1>6

LEMMA AnswerStarts ==
  ASSUME IInv, NEW l \in Lines, NEW a \in Team, NEW c \in Chats, SendAnswer(l, a, c)
  PROVE  IInv'
<1> DEFINE new == [chat[c] EXCEPT !.assigned = a,
                                  !.status = IF @ = "open" THEN "in_progress" ELSE @]
           r == [Idle EXCEPT !.todo = <<"load", "save", "say">>, !.who = a, !.chat = c, !.row = new]
<1>1. chat[c].kind = "player" /\ Starts(l, {a}, r)
  BY DEF SendAnswer
<1>2. new \in Chat /\ new.kind = chat[c].kind /\ new.assigned = a
  BY DEF IInv, TypeOK, Chat, Status, Live
<1>3. a # "nobody"
  BY ChatAssumption
<1> HIDE DEF new
<1>4. r \in Request /\ Fits(r, chat)
  BY <1>1, <1>2, <1>3, IdleFits, TodoType DEF Request, Somebody, Idle, Fits, Todo, Inserts, Loads, Saves
<1> HIDE DEF r
<1> QED
  BY <1>1, <1>4, StartKeeps

LEMMA UpdateStarts ==
  ASSUME IInv, NEW l \in Lines, NEW c \in Chats, NEW status \in Status,
         NEW a \in Team \cup {"nobody"}, UpdateChatSession(l, c, status, a)
  PROVE  IInv'
<1> DEFINE new == [Loaded(c) EXCEPT !.status = status, !.assigned = a]
           r == [Idle EXCEPT !.todo = <<"load", "save">>, !.chat = c, !.row = new]
<1>1. chat[c].kind # "unused" /\ Starts(l, {}, r)
  BY DEF UpdateChatSession
<1>2. new \in Chat /\ new.kind = chat[c].kind
  BY DEF IInv, TypeOK, Loaded, Chat
<1> HIDE DEF new
<1>3. r \in Request /\ Fits(r, chat)
  BY <1>1, <1>2, IdleFits, TodoType DEF Request, Idle, Fits, Todo, Inserts, Loads, Saves
<1> HIDE DEF r
<1> QED
  BY <1>1, <1>3, StartKeeps

\* The row of a player's new chat.
LEMMA PlayerChatType ==
  ASSUME NEW p \in Guests
  PROVE  PlayerChat(p) \in Chat /\ PlayerChat(p).kind = "player"
BY DEF PlayerChat, NoChat, Chat, Somebody, Status, Live

LEMMA OpenStarts ==
  ASSUME IInv, NEW l \in Lines, NEW p \in Guests,
         CreatePlayerChatSession(l, p) \/ StartNewChatSession(l, p)
  PROVE  IInv'
<1> DEFINE r == [Idle EXCEPT !.todo = <<"insert">>, !.row = PlayerChat(p)]
<1>1. Starts(l, {}, r)
  BY DEF CreatePlayerChatSession, StartNewChatSession
<1>2. r \in Request /\ Fits(r, chat)
  BY PlayerChatType, IdleFits, TodoType DEF Request, Idle, Fits, Todo, Inserts, Loads, Saves
<1> HIDE DEF r
<1> QED
  BY <1>1, <1>2, StartKeeps

LEMMA PlayerStarts ==
  ASSUME IInv, NEW l \in Lines, NEW p \in Guests,
         SendMessage(l, p) \/ \E c \in Chats : ReadOwnChat(l, p, c)
  PROVE  IInv'
<1>1. CASE Starts(l, {}, [Idle EXCEPT !.todo = <<"insert", "say">>, !.who = p,
                                      !.row = PlayerChat(p)])
  <2> DEFINE r == [Idle EXCEPT !.todo = <<"insert", "say">>, !.who = p, !.row = PlayerChat(p)]
  <2>1. r \in Request /\ Fits(r, chat)
    BY PlayerChatType, IdleFits, TodoType DEF Request, Somebody, Idle, Fits, Todo, Inserts, Loads, Saves
  <2>2. Starts(l, {}, r)
    BY <1>1
  <2> HIDE DEF r
  <2> QED
    BY <2>1, <2>2, StartKeeps
<1>2. ASSUME NEW c \in LiveOf(p),
             Starts(l, {}, [Idle EXCEPT !.todo = <<"load", "save", "say">>, !.who = p, !.chat = c,
               !.row = Loaded(c)])
      PROVE  IInv'
  <2> DEFINE r == [Idle EXCEPT !.todo = <<"load", "save", "say">>, !.who = p, !.chat = c, !.row = Loaded(c)]
  <2>1. c \in Chats /\ chat[c].kind = "player" /\ p \notin Team
    BY ChatAssumption DEF LiveOf, ChatsOf
  <2>2. Loaded(c) \in Chat /\ Loaded(c).kind = chat[c].kind
    BY <2>1 DEF IInv, TypeOK, Loaded, Chat
  <2>3. r \in Request /\ Fits(r, chat)
    BY <2>1, <2>2, IdleFits, TodoType DEF Request, Somebody, Idle, Fits, Todo, Inserts, Loads, Saves
  <2>4. Starts(l, {}, r)
    BY <1>2
  <2> HIDE DEF r
  <2> QED
    BY <2>3, <2>4, StartKeeps
<1>3. ASSUME NEW c \in Chats, ReadOwnChat(l, p, c) PROVE IInv'
  <2> DEFINE r == [Idle EXCEPT !.todo = <<"read">>, !.who = p, !.chat = c]
  <2>1. chat[c].kind = "player" /\ Starts(l, {}, r)
    BY <1>3 DEF ReadOwnChat, ChatsOf
  <2>2. r \in Request /\ Fits(r, chat)
    BY <2>1, IdleFits, TodoType DEF Request, Somebody, Idle, Fits, Todo, Inserts, Loads, Saves
  <2> HIDE DEF r
  <2> QED
    BY <2>1, <2>2, StartKeeps
<1> QED
  BY <1>1, <1>2, <1>3 DEF SendMessage

-----------------------------------------------------------------------------
(* The writes.                                                             *)

\* A request that made one of its writes goes on to the next, if any.
LEMMA WriteKeeps ==
  ASSUME IInv, NEW l \in Lines, NEW c, Goes(l, c), listed' = listed,
         chat' \in [Chats -> Chat], Grows(chat, chat'),
         message' \in [Messages -> Message], \A m \in Messages : Said(message'[m], chat'),
         \/ Len(sending[l].todo) = 1
         \/ LET next == [sending[l] EXCEPT !.todo = Tail(@), !.chat = c] IN
            next \in Request /\ Fits(next, chat')
  PROVE  IInv'
<1> DEFINE r == sending[l]
           next == [r EXCEPT !.todo = Tail(@), !.chat = c]
           new == IF Len(r.todo) = 1 THEN Idle ELSE next
<1>1. sending' = [sending EXCEPT ![l] = new]
  BY DEF Goes
<1>2. new \in Request /\ Fits(new, chat')
  BY IdleFits
<1>3. \A k \in Lines : Fits(sending[k], chat')
  BY StillFits DEF IInv
<1> HIDE DEF new
<1>4. sending' \in [Lines -> Request] /\ \A k \in Lines : Fits(sending'[k], chat')
  BY <1>1, <1>2, <1>3 DEF IInv, TypeOK
<1>5. TypeOK'
  BY <1>4 DEF TypeOK, IInv
<1>6. (\A k \in Lines : Fits(sending[k], chat))'
  BY <1>4 DEF Fits
<1>7. (\A m \in Messages : Said(message[m], chat))'
  BY DEF Said
<1> QED
  BY <1>5, <1>6, <1>7 DEF IInv

\* Chats that stay as they are grow, too.
LEMMA SameGrows == \A ch : Grows(ch, ch)
BY DEF Grows

LEMMA InsertKeeps ==
  ASSUME IInv, NEW l \in Lines, NEW c \in Chats, InsertChat(l, c)
  PROVE  IInv'
<1> DEFINE r == sending[l]
           next == [r EXCEPT !.todo = Tail(@), !.chat = c]
<1>1. r \in Request /\ Fits(r, chat) /\ chat \in [Chats -> Chat]
  BY DEF IInv, TypeOK
<1>2. r.todo \in {<<"insert">>, <<"insert", "say">>}
  BY <1>1, TodoFirst DEF InsertChat, Inserts
<1>3. chat[c] = NoChat /\ chat' = [chat EXCEPT ![c] = r.row] /\ Goes(l, c)
      /\ listed' = listed /\ message' = message
  BY DEF InsertChat
<1>4. r.row \in Chat /\ r.row.kind # "unused"
  BY <1>1, <1>2 DEF Request, Fits, Inserts
<1>5. chat' \in [Chats -> Chat] /\ chat'[c] = r.row
  BY <1>1, <1>3, <1>4
<1>6. Grows(chat, chat')
  BY <1>1, <1>3 DEF Grows, NoChat
<1>7. \A m \in Messages : Said(message'[m], chat')
  BY <1>3, <1>6, StillSaid DEF IInv
<1>8. CASE r.todo = <<"insert">>
  <2>1. Len(r.todo) = 1
    BY <1>8, TodoSteps
  <2> QED
    BY <1>3, <1>5, <1>6, <1>7, <2>1, WriteKeeps DEF IInv, TypeOK
<1>9. CASE r.todo = <<"insert", "say">>
  <2>1. Tail(r.todo) = <<"say">> /\ r.who \in Guests
    BY <1>1, <1>9, TodoSteps DEF Fits
  <2>2. r.who \notin Team
    BY <2>1, ChatAssumption
  <2>3. next \in Request
    BY <1>1, <2>1, TodoType DEF Request, Todo, Inserts, Loads, Saves
  <2>4. next.todo = <<"say">> /\ next.chat = c /\ next.who = r.who
    BY <1>1, <2>1 DEF Request
  <2>5. Fits(next, chat')
    <3> HIDE DEF next
    <3> QED
      BY <1>4, <1>5, <2>2, <2>4 DEF Fits, Todo, Inserts, Loads, Saves
  <2>6. message' \in [Messages -> Message]
    BY <1>3 DEF IInv, TypeOK
  <2> QED
    BY <1>3, <1>5, <1>6, <1>7, <2>3, <2>5, <2>6, WriteKeeps
<1> QED
  BY <1>2, <1>8, <1>9

LEMMA LoadKeeps ==
  ASSUME IInv, NEW l \in Lines, LoadAgain(l)
  PROVE  IInv'
<1> DEFINE r == sending[l]
           found == chat[r.chat]
           next == [r EXCEPT !.todo = Tail(@), !.base = found]
<1>1. r \in Request /\ Fits(r, chat) /\ chat \in [Chats -> Chat] /\ sending \in [Lines -> Request]
  BY DEF IInv, TypeOK
<1>2. r.todo \in {<<"load", "save">>, <<"load", "save", "say">>}
  BY <1>1, TodoFirst DEF LoadAgain
<1>3. sending' = [sending EXCEPT ![l] = next] /\ UNCHANGED <<listed, chat, message>>
  BY <1>1 DEF LoadAgain
<1>4. r.chat \in Chats /\ found \in Chat /\ found.kind # "unused"
      /\ (r.todo = <<"load", "save", "say">> /\ r.who \in Team => r.row.assigned # "nobody")
  <2>1. r.todo \in Loads
    BY <1>2 DEF Loads
  <2>2. r.chat \in Chats /\ chat[r.chat].kind # "unused"
    <3>1. Head(r.todo) = "load" /\ (\A todo \in Inserts : Head(todo) = "insert")
      BY <1>2, TodoSteps DEF Inserts
    <3>2. r.todo # <<>>
      BY <1>2
    <3>3. r.todo \in Todo \ (Inserts \cup {<<>>})
      BY <2>1, <3>1, <3>2 DEF Todo
    <3> QED
      BY <1>1, <3>3 DEF Fits
  <2>3. found \in Chat
    BY <1>1, <2>2
  <2>4. r.todo = <<"load", "save", "say">> /\ r.who \in Team => r.row.assigned # "nobody"
    BY <1>1 DEF Fits
  <2> QED
    BY <2>2, <2>3, <2>4
<1>5. Tail(r.todo) \in Saves /\ (Tail(r.todo) = <<"save", "say">> => r.todo = <<"load", "save", "say">>)
  <2>1. CASE r.todo = <<"load", "save">>
    <3>1. Tail(r.todo) = <<"save">>
      BY <2>1, TodoSteps
    <3> QED
      BY <3>1 DEF Saves
  <2>2. CASE r.todo = <<"load", "save", "say">>
    <3>1. Tail(r.todo) = <<"save", "say">>
      BY <2>2, TodoSteps
    <3> QED
      BY <2>2, <3>1 DEF Saves
  <2> QED
    BY <1>2, <2>1, <2>2
<1>6. Tail(r.todo) \in Todo
  BY <1>5 DEF Todo
<1> DEFINE tail == Tail(r.todo)
<1>7. tail \in UNION {[1..n -> Writes] : n \in 0..3}
  BY <1>6, TodoType
<1> HIDE DEF found, tail
<1>8. next \in Request /\ next.todo = tail /\ next.base = found /\ next.chat = r.chat
      /\ next.who = r.who /\ next.row = r.row
  BY <1>1, <1>4, <1>7 DEF Request, tail
<1> HIDE DEF next
<1>9. Fits(next, chat)
  BY <1>4, <1>5, <1>6, <1>8 DEF Fits, Todo, Inserts, Loads, Saves, tail, found
<1> QED
  BY <1>1, <1>3, <1>8, <1>9 DEF IInv, TypeOK

\* What a save makes of the row as it is now.
LEMMA SavedFacts ==
  ASSUME NEW mine \in Chat, NEW found \in Chat, NEW now \in Chat
  PROVE  LET row == Saved(mine, found, now) IN
         /\ row \in Chat
         /\ row.kind = now.kind /\ row.initiator = now.initiator /\ row.recipient = now.recipient
         /\ row.status \in {mine.status, now.status}
         /\ row.assigned \in {mine.assigned, now.assigned}
         /\ mine.assigned = "nobody" => row.assigned = now.assigned
         /\ mine.assigned # found.assigned /\ mine.assigned # "nobody" => row.assigned = mine.assigned
<1> DEFINE status == Column(mine.status, found.status, now.status)
           archived == {a \in Team : Column(a \in mine.archived, a \in found.archived, a \in now.archived)}
           assigned == IF mine.assigned = "nobody" THEN now.assigned
                       ELSE Column(mine.assigned, found.assigned, now.assigned)
<1>1. status \in {mine.status, now.status} /\ archived \in SUBSET Team
      /\ assigned \in {mine.assigned, now.assigned}
  BY DEF Column
<1>2. /\ mine.assigned = "nobody" => assigned = now.assigned
      /\ mine.assigned # found.assigned /\ mine.assigned # "nobody" => assigned = mine.assigned
  BY DEF Column
<1>3. Saved(mine, found, now) = [now EXCEPT !.status = status, !.archived = archived, !.assigned = assigned]
  BY Zenon DEF Saved
<1> HIDE DEF status, archived, assigned
<1> QED
  BY <1>1, <1>2, <1>3 DEF Chat

LEMMA SaveKeeps ==
  ASSUME IInv, NEW l \in Lines, SaveChat(l)
  PROVE  IInv'
<1> DEFINE r == sending[l]
           c == r.chat
           row == Saved(r.row, r.base, chat[c])
           next == [r EXCEPT !.todo = Tail(@), !.chat = c]
<1>1. r \in Request /\ Fits(r, chat) /\ chat \in [Chats -> Chat]
  BY DEF IInv, TypeOK
<1>2. r.todo \in Saves
  BY <1>1, TodoFirst DEF SaveChat
<1>3. chat' = [chat EXCEPT ![c] = row] /\ Goes(l, c)
      /\ listed' = listed /\ message' = message
  BY <1>1 DEF SaveChat
<1>4. c \in Chats /\ chat[c].kind # "unused" /\ r.row \in Chat /\ r.base \in Chat
      /\ (r.base.assigned # "nobody" => chat[c].assigned # "nobody")
  BY <1>1, <1>2, SMTT(30) DEF Request, Fits, Todo, Inserts, Loads, Saves
<1>5. /\ row \in Chat /\ row.kind = chat[c].kind
      /\ chat[c].assigned # "nobody" \/ r.row.assigned # "nobody" => row.assigned # "nobody"
  <2>1. chat[c] \in Chat
    BY <1>1, <1>4
  <2> QED
    BY <1>4, <2>1, SavedFacts
<1> HIDE DEF row
<1>6. chat' \in [Chats -> Chat] /\ chat'[c] = row
  BY <1>1, <1>3, <1>4, <1>5
<1>7. Grows(chat, chat')
  BY <1>1, <1>3, <1>4, <1>5, <1>6 DEF Grows
<1>8. \A m \in Messages : Said(message'[m], chat')
  BY <1>3, <1>7, StillSaid DEF IInv
<1>9. message' \in [Messages -> Message]
  BY <1>3 DEF IInv, TypeOK
<1>10. CASE r.todo = <<"save">>
  <2>1. Len(r.todo) = 1
    BY <1>10, TodoSteps
  <2> QED
    BY <1>3, <1>6, <1>7, <1>8, <1>9, <2>1, WriteKeeps
<1>11. CASE r.todo = <<"save", "say">>
  <2>1. Tail(r.todo) = <<"say">> /\ (r.who \in Team => r.row.assigned # "nobody")
    BY <1>1, <1>11, TodoSteps DEF Fits
  <2>2. next \in Request
    BY <1>1, <2>1, TodoType DEF Request, Todo, Inserts, Loads, Saves
  <2>3. next.todo = <<"say">> /\ next.chat = c /\ next.who = r.who
    BY <1>1, <2>1 DEF Request
  <2>4. Fits(next, chat')
    <3> HIDE DEF next
    <3> QED
      BY <1>4, <1>5, <1>6, <2>1, <2>3 DEF Fits, Todo, Inserts, Loads, Saves
  <2> QED
    BY <1>3, <1>6, <1>7, <1>8, <1>9, <2>2, <2>4, WriteKeeps
<1> QED
  BY <1>2, <1>10, <1>11 DEF Saves

LEMMA SayKeeps ==
  ASSUME IInv, NEW l \in Lines, NEW m \in Messages, Say(l, m)
  PROVE  IInv'
<1> DEFINE r == sending[l]
           new == [chat |-> r.chat, sender |-> r.who, read |-> FALSE]
           next == [r EXCEPT !.todo = Tail(@), !.chat = r.chat]
<1>1. r \in Request /\ Fits(r, chat)
  BY DEF IInv, TypeOK
<1>2. r.todo \in {<<"say">>, <<"say", "load", "save">>}
  BY <1>1, TodoFirst DEF Say
<1>3. message' = [message EXCEPT ![m] = new] /\ Goes(l, r.chat)
      /\ listed' = listed /\ chat' = chat
  BY DEF Say
<1>4. r.chat \in Chats /\ chat[r.chat].kind # "unused"
      /\ (r.who \in Team => chat[r.chat].kind = "staff" \/ chat[r.chat].assigned # "nobody")
  BY <1>1, <1>2 DEF Fits, Todo, Inserts, Loads, Saves
<1>5. new \in Message /\ Said(new, chat)
  BY <1>1, <1>4 DEF Message, Request, Said
<1> HIDE DEF new
<1>6. message' \in [Messages -> Message] /\ \A k \in Messages : Said(message'[k], chat')
  BY <1>3, <1>5 DEF IInv, TypeOK
<1>7. chat' \in [Chats -> Chat] /\ Grows(chat, chat')
  BY <1>3, SameGrows DEF IInv, TypeOK
<1>8. CASE r.todo = <<"say">>
  <2>1. Len(r.todo) = 1
    BY <1>8, TodoSteps
  <2> QED
    BY <1>3, <1>6, <1>7, <2>1, WriteKeeps
<1>9. CASE r.todo = <<"say", "load", "save">>
  <2>1. Tail(r.todo) = <<"load", "save">>
    BY <1>9, TodoSteps
  <2>2. next \in Request
    BY <1>1, <2>1, TodoType DEF Request, Todo, Inserts, Loads, Saves
  <2>3. next.todo = <<"load", "save">> /\ next.chat = r.chat /\ next.row = r.row
    BY <1>1, <2>1 DEF Request
  <2>5. Fits(next, chat')
    <3> HIDE DEF next
    <3> QED
      BY <1>3, <1>4, <2>3 DEF Fits, Todo, Inserts, Loads, Saves
  <2> QED
    BY <1>3, <1>6, <1>7, <2>2, <2>5, WriteKeeps
<1> QED
  BY <1>2, <1>8, <1>9

LEMMA ReadKeeps ==
  ASSUME IInv, NEW l \in Lines, MarkRead(l)
  PROVE  IInv'
<1> DEFINE r == sending[l]
<1>1. r \in Request /\ Fits(r, chat) /\ message \in [Messages -> Message]
  BY DEF IInv, TypeOK
<1>2. r.todo = <<"read">>
  BY <1>1, TodoFirst DEF MarkRead
<1>3. Goes(l, r.chat) /\ listed' = listed /\ chat' = chat
      /\ message' = [m \in Messages |->
           [message[m] EXCEPT !.read = @ \/ m \in ForReader(r.who, r.chat)]]
  BY DEF MarkRead
<1>4. ASSUME NEW m \in Messages PROVE message'[m] \in Message /\ Said(message'[m], chat')
  <2> DEFINE b == message[m].read \/ m \in ForReader(r.who, r.chat)
  <2>1. message'[m] = [message[m] EXCEPT !.read = b]
    BY <1>3
  <2>2. message[m] \in Message /\ Said(message[m], chat)
    BY <1>1 DEF IInv
  <2>3. b \in BOOLEAN
    BY <2>2 DEF Message
  <2> HIDE DEF b
  <2> QED
    BY <1>3, <2>1, <2>2, <2>3 DEF Message, Said
<1>5. message' \in [Messages -> Message]
  BY <1>3, <1>4
<1>6. chat' \in [Chats -> Chat] /\ Grows(chat, chat')
  BY <1>3, SameGrows DEF IInv, TypeOK
<1>7. Len(r.todo) = 1
  BY <1>2, TodoSteps
<1> QED
  BY <1>3, <1>4, <1>5, <1>6, <1>7, WriteKeeps

LEMMA AbandonKeeps ==
  ASSUME IInv, NEW l \in Lines, Abandon(l)
  PROVE  IInv'
BY IdleFits DEF Abandon, IInv, TypeOK

\* The assignee who is deleted leaves his mark.
LEMMA DeleteKeeps ==
  ASSUME IInv, NEW a \in Team, DeleteStaff(a)
  PROVE  IInv'
<1> DEFINE left(c) == [chat[c] EXCEPT !.assigned = "left"]
<1>1. /\ chat \in [Chats -> Chat] /\ sending \in [Lines -> Request]
      /\ \A l \in Lines : Fits(sending[l], chat)
      /\ message \in [Messages -> Message] /\ \A m \in Messages : Said(message[m], chat)
  BY DEF IInv, TypeOK
<1>2. /\ listed' = listed \ {a} /\ message' = message
      /\ chat' = [c \in Chats |-> IF chat[c].assigned = a THEN left(c) ELSE chat[c]]
      /\ sending' = [l \in Lines |-> IF Holds(sending[l], a) THEN Idle ELSE sending[l]]
  BY DEF DeleteStaff
<1>3. ASSUME NEW c \in Chats
      PROVE  left(c) \in Chat /\ left(c).kind = chat[c].kind /\ left(c).assigned = "left"
  BY <1>1 DEF Chat
<1> HIDE DEF left
<1>4. chat' \in [Chats -> Chat] /\ Grows(chat, chat')
  BY <1>1, <1>2, <1>3 DEF Grows
<1>5. sending' \in [Lines -> Request] /\ \A l \in Lines : Fits(sending'[l], chat')
  BY <1>1, <1>2, <1>4, IdleFits, StillFits
<1>6. \A m \in Messages : Said(message'[m], chat')
  BY <1>1, <1>2, <1>4, StillSaid
<1>7. TypeOK'
  BY <1>1, <1>2, <1>4, <1>5 DEF IInv, TypeOK
<1> QED
  BY <1>5, <1>6, <1>7 DEF IInv

-----------------------------------------------------------------------------
(* The theorems.                                                           *)

LEMMA KeptInit == Init => IInv
<1> SUFFICES ASSUME Init PROVE IInv
  OBVIOUS
<1>1. NoChat \in Chat
  BY DEF NoChat, Chat, Somebody, Status, Live
<1>2. NoMessage \in Message /\ Said(NoMessage, chat)
  BY ChatAssumption DEF NoMessage, Message, Somebody, Said
<1> QED
  BY <1>1, <1>2, IdleFits DEF Init, IInv, TypeOK

LEMMA KeptNext == IInv /\ [Next]_chatVars => IInv'
<1> SUFFICES ASSUME IInv, [Next]_chatVars PROVE IInv'
  OBVIOUS
<1>1. ASSUME NEW l \in Lines, StaffChatStep(l) PROVE IInv'
  BY <1>1, StaffStarts
<1>2. ASSUME NEW l \in Lines, AnswerStep(l) PROVE IInv'
  BY <1>2, AnswerStarts DEF AnswerStep
<1>3. ASSUME NEW l \in Lines, UpdateStep(l, Status) PROVE IInv'
  BY <1>3, UpdateStarts DEF UpdateStep
<1>4. ASSUME NEW l \in Lines, OpenStep(l) PROVE IInv'
  BY <1>4, OpenStarts DEF OpenStep
<1>5. ASSUME NEW l \in Lines, PlayerChatStep(l) PROVE IInv'
  BY <1>5, OpenStarts, PlayerStarts DEF PlayerChatStep
<1>6. ASSUME NEW l \in Lines, WriteStep(l) PROVE IInv'
  BY <1>6, InsertKeeps, SayKeeps, LoadKeeps, SaveKeeps, ReadKeeps, AbandonKeeps DEF WriteStep
<1>8. ASSUME NEW a \in Team, DeleteStaff(a) PROVE IInv'
  BY <1>8, DeleteKeeps
<1>7. CASE UNCHANGED chatVars
  BY <1>7 DEF chatVars, IInv, TypeOK, Fits, Said
<1> QED
  BY <1>1, <1>2, <1>3, <1>4, <1>5, <1>6, <1>7, <1>8 DEF Next

LEMMA Invariant == Spec => []IInv
BY KeptInit, KeptNext, PTL DEF Spec

\* Every row, and every row a request holds, keeps its type, wherever requests
\* die and whatever they save over each other.
THEOREM TypeCorrect == Spec => []TypeOK
<1>1. IInv => TypeOK
  BY DEF IInv
<1> QED
  BY <1>1, Invariant, PTL

\* A player who was answered has somebody looking after the chat until that
\* member of staff is deleted: the answer is inserted after the assignment is
\* saved, and no save takes it away.
THEOREM AnswersAssigned == Spec => []AnsweredIsAssigned
<1>1. IInv => AnsweredIsAssigned
  BY DEF IInv, Said, AnsweredIsAssigned
<1> QED
  BY <1>1, Invariant, PTL

-----------------------------------------------------------------------------
(* Requests taken in turn.                                                 *)

Pair(x) == {x.initiator, x.recipient}
IsLive(x) == x.kind = "player" /\ x.status \in Live

\* The chats in ch are apart, and so is the row x from all of them.
Apart(ch) ==
  \A c, d \in Chats : c # d =>
    /\ ch[c].kind = "staff" /\ ch[d].kind = "staff" => Pair(ch[c]) # Pair(ch[d])
    /\ IsLive(ch[c]) /\ IsLive(ch[d]) => ch[c].initiator # ch[d].initiator
New(x, ch) ==
  \A c \in Chats :
    /\ ch[c].kind = "staff" /\ x.kind = "staff" => Pair(ch[c]) # Pair(x)
    /\ IsLive(ch[c]) /\ IsLive(x) => ch[c].initiator # x.initiator

\* The row x is the row y of the same chat, at most less live.
Follows(x, y) ==
  /\ x.kind = y.kind /\ x.initiator = y.initiator /\ x.recipient = y.recipient
  /\ x.status \in Live => y.status \in Live

\* What a request holds is still so.
Fresh(r, ch) ==
  /\ r.todo \in Inserts => New(r.row, ch)
  /\ r.todo \in Loads \cup Saves => Follows(r.row, ch[r.chat])

TurnInv ==
  /\ IInv /\ Apart(chat)
  /\ \A k, l \in Lines : sending[k] # Idle /\ sending[l] # Idle => k = l
  /\ \A l \in Lines : Fresh(sending[l], chat)

Alone(l) == TurnInv /\ IInv' /\ \A k \in Lines \ {l} : sending[k] = Idle

LEMMA IdleFresh == \A ch : Fresh(Idle, ch)
BY DEF Fresh, Idle, Inserts, Loads, Saves

LEMMA BeginsTurn ==
  ASSUME NEW l \in Lines, Alone(l), NEW people, NEW r, Starts(l, people, r), Fresh(r, chat)
  PROVE  TurnInv'
<1>1. sending' = [sending EXCEPT ![l] = r] /\ chat' = chat
  BY DEF Starts
<1>2. sending \in [Lines -> Request]
  BY DEF Alone, TurnInv, IInv, TypeOK
<1>3. Apart(chat')
  BY <1>1 DEF Alone, TurnInv
<1>4. \A k \in Lines : Fresh(sending'[k], chat')
  BY <1>1, <1>2 DEF Alone, TurnInv
<1>5. \A j, k \in Lines : sending'[j] # Idle /\ sending'[k] # Idle => j = k
  BY <1>1, <1>2 DEF Alone
<1>6. Apart(chat)' /\ (\A k \in Lines : Fresh(sending[k], chat))'
  BY <1>3, <1>4 DEF Apart, Fresh
<1> QED
  BY <1>5, <1>6 DEF Alone, TurnInv

LEMMA WritesTurn ==
  ASSUME NEW l \in Lines, Alone(l), NEW c, Goes(l, c), Apart(chat'),
         LET next == [sending[l] EXCEPT !.todo = Tail(@), !.chat = c] IN
           Len(sending[l].todo) = 1 \/ Fresh(next, chat')
  PROVE  TurnInv'
<1> DEFINE next == [sending[l] EXCEPT !.todo = Tail(@), !.chat = c]
           new == IF Len(sending[l].todo) = 1 THEN Idle ELSE next
<1>1. sending' = [sending EXCEPT ![l] = new]
  BY DEF Goes
<1>2. Fresh(new, chat')
  BY IdleFresh
<1> HIDE DEF new
<1>3. sending \in [Lines -> Request]
  BY DEF Alone, TurnInv, IInv, TypeOK
<1>4. \A k \in Lines : Fresh(sending'[k], chat')
  BY <1>1, <1>2, <1>3, IdleFresh DEF Alone
<1>5. \A j, k \in Lines : sending'[j] # Idle /\ sending'[k] # Idle => j = k
  BY <1>1, <1>3 DEF Alone
<1>6. Apart(chat)' /\ (\A k \in Lines : Fresh(sending[k], chat))'
  BY <1>4 DEF Apart, Fresh
<1> QED
  BY <1>5, <1>6 DEF Alone, TurnInv

\* The row of one chat is written.
LEMMA ApartStill ==
  ASSUME NEW c \in Chats, NEW x, chat \in [Chats -> Chat], chat' = [chat EXCEPT ![c] = x],
         Apart(chat), Follows(x, chat[c]) \/ New(x, chat)
  PROVE  Apart(chat')
<1>1. ASSUME NEW d \in Chats, d # c
      PROVE  /\ chat[d].kind = "staff" /\ x.kind = "staff" => Pair(chat[d]) # Pair(x)
             /\ IsLive(chat[d]) /\ IsLive(x) => chat[d].initiator # x.initiator
  BY <1>1 DEF Apart, Follows, New, Pair, IsLive
<1>2. chat'[c] = x /\ \A d \in Chats \ {c} : chat'[d] = chat[d]
  OBVIOUS
<1> QED
  BY <1>1, <1>2 DEF Apart

LEMMA ChatsNow ==
  ASSUME NEW l \in Lines, Alone(l)
  PROVE  /\ chat \in [Chats -> Chat] /\ Apart(chat) /\ sending[l] \in Request
         /\ Fits(sending[l], chat) /\ Fresh(sending[l], chat)
BY DEF Alone, TurnInv, IInv, TypeOK

\* A row whose status and archivers are set, at most out of the live ones.
LEMMA Followed ==
  ASSUME NEW x \in Chat
  PROVE  /\ Follows(x, x)
         /\ \A a : Follows([x EXCEPT !.assigned = a], x)
         /\ \A a, v : Follows([[x EXCEPT !.assigned = a] EXCEPT !.archived = v], x)
         /\ \A a, b, st : st \notin Live =>
              Follows([[x EXCEPT !.assigned = a] EXCEPT !.status = st, !.assigned = b], x)
         /\ \A a : Follows([x EXCEPT !.assigned = a,
                              !.status = IF @ = "open" THEN "in_progress" ELSE @], x)
BY DEF Follows, Chat, Live

LEMMA StaffTurn ==
  ASSUME NEW l \in Lines, Alone(l), NEW a \in Team, NEW b \in Team, CreateStaffChatSession(l, a, b)
  PROVE  TurnInv'
<1>1. CASE /\ Between(a, b) = {}
           /\ Starts(l, {a, b}, [Idle EXCEPT !.todo = <<"insert">>,
               !.row = [NoChat EXCEPT !.kind = "staff", !.initiator = a, !.recipient = b]])
  <2> DEFINE new == [NoChat EXCEPT !.kind = "staff", !.initiator = a, !.recipient = b]
             r == [Idle EXCEPT !.todo = <<"insert">>, !.row = new]
  <2>1. new.kind = "staff" /\ new.initiator = a /\ new.recipient = b
    BY DEF NoChat
  <2>2. Starts(l, {a, b}, r) /\ Between(a, b) = {}
    BY <1>1
  <2> HIDE DEF new
  <2>3. r.todo = <<"insert">> /\ r.row = new
    BY DEF Idle
  <2>4. New(new, chat)
    BY <2>1, <2>2 DEF New, Between, Pair, IsLive
  <2> HIDE DEF r
  <2>5. Fresh(r, chat)
    BY <2>3, <2>4 DEF Fresh, Inserts, Loads, Saves
  <2> QED
    BY <2>2, <2>5, BeginsTurn
<1>2. ASSUME NEW c \in Between(a, b),
             Starts(l, {a, b}, [Idle EXCEPT !.todo = <<"load", "save">>, !.chat = c,
               !.row = [Loaded(c) EXCEPT !.archived = @ \ {a}]])
      PROVE  TurnInv'
  <2> DEFINE new == [Loaded(c) EXCEPT !.archived = @ \ {a}]
             r == [Idle EXCEPT !.todo = <<"load", "save">>, !.chat = c, !.row = new]
  <2>1. chat[c] \in Chat
    BY ChatsNow DEF Between
  <2>2. Follows(new, chat[c])
    BY <2>1, Followed DEF Loaded
  <2>3. Starts(l, {a, b}, r)
    BY <1>2
  <2> HIDE DEF new
  <2>4. r.todo = <<"load", "save">> /\ r.chat = c /\ r.row = new
    BY DEF Idle
  <2> HIDE DEF r
  <2>5. Fresh(r, chat)
    BY <2>2, <2>4 DEF Fresh, Inserts, Loads, Saves
  <2> QED
    BY <2>3, <2>5, BeginsTurn
<1> QED
  BY <1>1, <1>2, Zenon DEF CreateStaffChatSession

LEMMA StaffMessageTurn ==
  ASSUME NEW l \in Lines, Alone(l), NEW a \in Team, NEW c \in Chats,
         SendStaffMessage(l, a, c) \/ ArchiveChatSession(l, a, c) \/ GetSessionMessages(l, a, c)
  PROVE  TurnInv'
<1>0. chat[c] \in Chat
  BY ChatsNow
<1>1. CASE SendStaffMessage(l, a, c)
  <2> DEFINE r == [Idle EXCEPT !.todo = <<"say", "load", "save">>, !.who = a, !.chat = c, !.row = Loaded(c)]
  <2>1. Starts(l, {a}, r)
    BY <1>1 DEF SendStaffMessage
  <2>2. Fresh(r, chat)
    BY <1>0, Followed DEF Fresh, Inserts, Loads, Saves, Loaded, Idle
  <2> HIDE DEF r
  <2> QED
    BY <2>1, <2>2, BeginsTurn
<1>2. CASE ArchiveChatSession(l, a, c)
  <2> DEFINE new == [Loaded(c) EXCEPT !.archived = @ \cup {a}]
             r == [Idle EXCEPT !.todo = <<"load", "save">>, !.chat = c, !.row = new]
  <2>1. Starts(l, {a}, r)
    BY <1>2 DEF ArchiveChatSession
  <2>2. Follows(new, chat[c])
    BY <1>0, Followed DEF Loaded
  <2> HIDE DEF new
  <2>3. r.todo = <<"load", "save">> /\ r.chat = c /\ r.row = new
    BY DEF Idle
  <2> HIDE DEF r
  <2> QED
    BY <2>1, <2>2, <2>3, BeginsTurn DEF Fresh, Inserts, Loads, Saves
<1>3. CASE GetSessionMessages(l, a, c)
  <2> DEFINE r == [Idle EXCEPT !.todo = <<"read">>, !.who = a, !.chat = c]
  <2>1. Starts(l, {a}, r)
    BY <1>3 DEF GetSessionMessages
  <2>2. r.todo = <<"read">>
    BY DEF Idle
  <2> HIDE DEF r
  <2> QED
    BY <2>1, <2>2, BeginsTurn DEF Fresh, Inserts, Loads, Saves
<1> QED
  BY <1>1, <1>2, <1>3

LEMMA AnswerTurn ==
  ASSUME NEW l \in Lines, Alone(l), NEW a \in Team, NEW c \in Chats, SendAnswer(l, a, c)
  PROVE  TurnInv'
<1> DEFINE new == [chat[c] EXCEPT !.assigned = a,
                                  !.status = IF @ = "open" THEN "in_progress" ELSE @]
           r == [Idle EXCEPT !.todo = <<"load", "save", "say">>, !.who = a, !.chat = c, !.row = new]
<1>1. Starts(l, {a}, r)
  BY DEF SendAnswer
<1>2. Follows(new, chat[c])
  BY ChatsNow, Followed
<1> HIDE DEF new
<1>3. Fresh(r, chat)
  BY <1>2 DEF Fresh, Inserts, Loads, Saves, Idle
<1> HIDE DEF r
<1> QED
  BY <1>1, <1>3, BeginsTurn

LEMMA UpdateTurn ==
  ASSUME NEW l \in Lines, Alone(l), NEW c \in Chats, NEW status \in Status \ Live,
         NEW a \in Team \cup {"nobody"}, UpdateChatSession(l, c, status, a)
  PROVE  TurnInv'
<1> DEFINE new == [Loaded(c) EXCEPT !.status = status, !.assigned = a]
           r == [Idle EXCEPT !.todo = <<"load", "save">>, !.chat = c, !.row = new]
<1>1. Starts(l, {}, r)
  BY DEF UpdateChatSession
<1>2. Follows(new, chat[c])
  BY ChatsNow, Followed DEF Loaded
<1> HIDE DEF new
<1>3. r.todo = <<"load", "save">> /\ r.chat = c /\ r.row = new
  BY DEF Idle
<1> HIDE DEF r
<1> QED
  BY <1>1, <1>2, <1>3, BeginsTurn DEF Fresh, Inserts, Loads, Saves

LEMMA NewPlayerChat ==
  ASSUME NEW p, LiveOf(p) = {}
  PROVE  New(PlayerChat(p), chat)
<1>1. PlayerChat(p).kind = "player" /\ PlayerChat(p).initiator = p
  BY DEF PlayerChat, NoChat
<1>2. \A c \in Chats : IsLive(chat[c]) => chat[c].initiator # p
  BY DEF LiveOf, ChatsOf, IsLive
<1> QED
  BY <1>1, <1>2 DEF New

LEMMA PlayerTurn ==
  ASSUME NEW l \in Lines, Alone(l), NEW p \in Guests,
         SendMessage(l, p) \/ StartNewChatSession(l, p) \/ \E c \in Chats : ReadOwnChat(l, p, c)
  PROVE  TurnInv'
<1>1. CASE StartNewChatSession(l, p)
  <2> DEFINE r == [Idle EXCEPT !.todo = <<"insert">>, !.row = PlayerChat(p)]
  <2>1. Starts(l, {}, r) /\ New(PlayerChat(p), chat)
    BY <1>1, NewPlayerChat DEF StartNewChatSession
  <2>2. r.todo = <<"insert">> /\ r.row = PlayerChat(p)
    BY DEF Idle
  <2> HIDE DEF r
  <2> QED
    BY <2>1, <2>2, BeginsTurn DEF Fresh, Inserts, Loads, Saves
<1>2. CASE ChatsOf(p) = {} /\ Starts(l, {}, [Idle EXCEPT !.todo = <<"insert", "say">>, !.who = p,
                                                         !.row = PlayerChat(p)])
  <2> DEFINE r == [Idle EXCEPT !.todo = <<"insert", "say">>, !.who = p, !.row = PlayerChat(p)]
  <2>1. Starts(l, {}, r) /\ New(PlayerChat(p), chat)
    BY <1>2, NewPlayerChat DEF LiveOf
  <2>2. r.todo = <<"insert", "say">> /\ r.row = PlayerChat(p)
    BY DEF Idle
  <2> HIDE DEF r
  <2> QED
    BY <2>1, <2>2, BeginsTurn DEF Fresh, Inserts, Loads, Saves
<1>3. ASSUME NEW c \in LiveOf(p),
             Starts(l, {}, [Idle EXCEPT !.todo = <<"load", "save", "say">>, !.who = p, !.chat = c,
               !.row = Loaded(c)])
      PROVE  TurnInv'
  <2> DEFINE r == [Idle EXCEPT !.todo = <<"load", "save", "say">>, !.who = p, !.chat = c, !.row = Loaded(c)]
  <2>1. Follows(Loaded(c), chat[c])
    BY ChatsNow, Followed DEF Loaded, LiveOf, ChatsOf
  <2>2. Starts(l, {}, r)
    BY <1>3
  <2>3. Fresh(r, chat)
    BY <2>1 DEF Fresh, Inserts, Loads, Saves, Idle
  <2> HIDE DEF r
  <2> QED
    BY <2>2, <2>3, BeginsTurn
<1>4. ASSUME NEW c \in Chats, ReadOwnChat(l, p, c) PROVE TurnInv'
  <2> DEFINE r == [Idle EXCEPT !.todo = <<"read">>, !.who = p, !.chat = c]
  <2>1. Starts(l, {}, r)
    BY <1>4 DEF ReadOwnChat
  <2>2. r.todo = <<"read">>
    BY DEF Idle
  <2> HIDE DEF r
  <2> QED
    BY <2>1, <2>2, BeginsTurn DEF Fresh, Inserts, Loads, Saves
<1> QED
  BY <1>1, <1>2, <1>3, <1>4, Zenon DEF SendMessage

LEMMA WriteTurn ==
  ASSUME NEW l \in Lines, Alone(l), WriteStep(l)
  PROVE  TurnInv'
<1> DEFINE r == sending[l]
<1>0. r \in Request /\ Fits(r, chat) /\ Fresh(r, chat) /\ chat \in [Chats -> Chat] /\ Apart(chat)
  BY ChatsNow
<1>1. ASSUME NEW c \in Chats, InsertChat(l, c) PROVE TurnInv'
  <2>1. r.todo \in {<<"insert">>, <<"insert", "say">>}
    BY <1>0, <1>1, TodoFirst DEF InsertChat, Inserts
  <2>2. chat' = [chat EXCEPT ![c] = r.row] /\ Goes(l, c)
    BY <1>1 DEF InsertChat
  <2>3. New(r.row, chat)
    BY <1>0, <2>1 DEF Fresh, Inserts
  <2>4. Apart(chat')
    BY <1>0, <2>2, <2>3, ApartStill
  <2>5. CASE r.todo = <<"insert">>
    BY <2>2, <2>4, <2>5, TodoSteps, WritesTurn
  <2>6. CASE r.todo = <<"insert", "say">>
    <3> DEFINE next == [r EXCEPT !.todo = Tail(@), !.chat = c]
    <3>1. next.todo = <<"say">>
      BY <1>0, <2>6, TodoSteps DEF Request
    <3>2. Fresh(next, chat')
      <4> HIDE DEF next
      <4> QED
        BY <3>1 DEF Fresh, Inserts, Loads, Saves
    <3> QED
      BY <2>2, <2>4, <3>2, WritesTurn
  <2> QED
    BY <2>1, <2>5, <2>6
<1>6. CASE LoadAgain(l)
  <2> DEFINE found == chat[r.chat]
             next == [r EXCEPT !.todo = Tail(@), !.base = found]
  <2>1. r.todo \in {<<"load", "save">>, <<"load", "save", "say">>}
    BY <1>0, <1>6, TodoFirst DEF LoadAgain
  <2>2. sending' = [sending EXCEPT ![l] = next] /\ chat' = chat
    BY <1>6 DEF LoadAgain
  <2>3. next.chat = r.chat /\ next.row = r.row /\ next.todo = Tail(r.todo)
    BY <1>0 DEF Request
  <2>4. Tail(r.todo) \in Saves /\ Follows(r.row, chat[r.chat])
    <3>1. Follows(r.row, chat[r.chat])
      BY <1>0, <2>1 DEF Fresh, Loads
    <3>2. CASE r.todo = <<"load", "save">>
      <4>1. Tail(r.todo) = <<"save">>
        BY <3>2, TodoSteps
      <4> QED
        BY <3>1, <4>1 DEF Saves
    <3>3. CASE r.todo = <<"load", "save", "say">>
      <4>1. Tail(r.todo) = <<"save", "say">>
        BY <3>3, TodoSteps
      <4> QED
        BY <3>1, <4>1 DEF Saves
    <3> QED
      BY <2>1, <3>2, <3>3
  <2> HIDE DEF next
  <2>5. Fresh(next, chat)
    BY <2>3, <2>4 DEF Fresh, Inserts, Loads, Saves
  <2>6. sending \in [Lines -> Request]
    BY DEF Alone, TurnInv, IInv, TypeOK
  <2>7. Apart(chat)' /\ (\A k \in Lines : Fresh(sending[k], chat))'
    BY <1>0, <2>2, <2>5, <2>6, IdleFresh DEF Alone, Apart, Fresh
  <2>8. \A j, k \in Lines : sending'[j] # Idle /\ sending'[k] # Idle => j = k
    BY <2>2, <2>6 DEF Alone
  <2> QED
    BY <2>7, <2>8 DEF Alone, TurnInv
<1>2. CASE SaveChat(l)
  <2> DEFINE x == Saved(r.row, r.base, chat[r.chat])
  <2>1. r.todo \in Saves
    BY <1>0, <1>2, TodoFirst DEF SaveChat
  <2>2. chat' = [chat EXCEPT ![r.chat] = x] /\ Goes(l, r.chat)
    BY <1>0, <1>2 DEF SaveChat
  <2>3. r.chat \in Chats /\ Follows(r.row, chat[r.chat]) /\ r.row \in Chat /\ r.base \in Chat
    <3>0. r.todo \in Todo \ (Inserts \cup {<<>>})
      BY <2>1 DEF Todo, Inserts, Saves
    <3>1. r.chat \in Chats
      BY <1>0, <3>0 DEF Fits
    <3>2. Follows(r.row, chat[r.chat])
      BY <1>0, <2>1 DEF Fresh
    <3>3. r.row \in Chat /\ r.base \in Chat
      BY <1>0 DEF Request
    <3> QED
      BY <3>1, <3>2, <3>3
  <2>4. Follows(x, chat[r.chat])
    <3>1. chat[r.chat] \in Chat
      BY <1>0, <2>3
    <3>2. x.kind = chat[r.chat].kind /\ x.initiator = chat[r.chat].initiator
          /\ x.recipient = chat[r.chat].recipient /\ x.status \in {r.row.status, chat[r.chat].status}
      BY <2>3, <3>1, SavedFacts
    <3> HIDE DEF x
    <3> QED
      BY <2>3, <3>2 DEF Follows
  <2> HIDE DEF x
  <2>5. Apart(chat')
    BY <1>0, <2>2, <2>3, <2>4, ApartStill
  <2>6. CASE r.todo = <<"save">>
    BY <2>2, <2>5, <2>6, TodoSteps, WritesTurn
  <2>7. CASE r.todo = <<"save", "say">>
    <3> DEFINE next == [r EXCEPT !.todo = Tail(@), !.chat = r.chat]
    <3>1. next.todo = <<"say">>
      BY <1>0, <2>7, TodoSteps DEF Request
    <3>2. Fresh(next, chat')
      <4> HIDE DEF next
      <4> QED
        BY <3>1 DEF Fresh, Inserts, Loads, Saves
    <3> QED
      BY <2>2, <2>5, <3>2, WritesTurn
  <2> QED
    BY <2>1, <2>6, <2>7 DEF Saves
<1>3. ASSUME NEW m \in Messages, Say(l, m) PROVE TurnInv'
  <2>1. r.todo \in {<<"say">>, <<"say", "load", "save">>}
    BY <1>0, <1>3, TodoFirst DEF Say
  <2>2. chat' = chat /\ Goes(l, r.chat)
    BY <1>3 DEF Say
  <2>3. CASE r.todo = <<"say">>
    BY <1>0, <2>2, <2>3, TodoSteps, WritesTurn
  <2>4. CASE r.todo = <<"say", "load", "save">>
    <3> DEFINE next == [r EXCEPT !.todo = Tail(@), !.chat = r.chat]
    <3>1. next.todo = <<"load", "save">> /\ next.chat = r.chat /\ next.row = r.row
      BY <1>0, <2>4, TodoSteps DEF Request
    <3>2. Follows(r.row, chat[r.chat])
      BY <1>0, <2>4 DEF Fresh, Loads
    <3>3. Fresh(next, chat')
      <4> HIDE DEF next
      <4> QED
        BY <2>2, <3>1, <3>2 DEF Fresh, Inserts, Loads, Saves
    <3> QED
      BY <1>0, <2>2, <3>3, WritesTurn
  <2> QED
    BY <2>1, <2>3, <2>4
<1>4. CASE MarkRead(l)
  <2>1. r.todo = <<"read">>
    BY <1>0, <1>4, TodoFirst DEF MarkRead
  <2>2. chat' = chat /\ Goes(l, r.chat)
    BY <1>4 DEF MarkRead
  <2> QED
    BY <1>0, <2>1, <2>2, TodoSteps, WritesTurn
<1>5. CASE Abandon(l)
  <2>1. sending' = [sending EXCEPT ![l] = Idle] /\ chat' = chat
    BY <1>5 DEF Abandon
  <2>2. sending \in [Lines -> Request]
    BY DEF Alone, TurnInv, IInv, TypeOK
  <2>3. \A k \in Lines : sending'[k] = Idle
    BY <2>1, <2>2 DEF Alone
  <2>4. Apart(chat)' /\ (\A k \in Lines : Fresh(sending[k], chat))'
    BY <1>0, <2>1, <2>3, IdleFresh DEF Apart, Fresh
  <2> QED
    BY <2>3, <2>4 DEF Alone, TurnInv
<1> QED
  BY <1>1, <1>2, <1>3, <1>4, <1>5, <1>6 DEF WriteStep

\* Nobody has a request under way when a member of staff is deleted in turn, and
\* whoever is in a chat stays in it.
LEMMA DeleteTurn ==
  ASSUME TurnInv, IInv', Quiet, NEW a \in Team, DeleteStaff(a)
  PROVE  TurnInv'
<1> DEFINE left(c) == [chat[c] EXCEPT !.assigned = "left"]
<1>1. /\ chat \in [Chats -> Chat] /\ \A l \in Lines : sending[l] = Idle
  BY DEF TurnInv, IInv, TypeOK, Quiet
<1>2. /\ chat' = [c \in Chats |-> IF chat[c].assigned = a THEN left(c) ELSE chat[c]]
      /\ sending' = [l \in Lines |-> IF Holds(sending[l], a) THEN Idle ELSE sending[l]]
  BY DEF DeleteStaff
<1>3. ASSUME NEW c \in Chats
      PROVE  /\ left(c).kind = chat[c].kind /\ left(c).status = chat[c].status
             /\ left(c).initiator = chat[c].initiator /\ left(c).recipient = chat[c].recipient
  BY <1>1 DEF Chat
<1> HIDE DEF left
<1>4. ASSUME NEW c \in Chats
      PROVE  /\ chat'[c].kind = chat[c].kind /\ IsLive(chat'[c]) = IsLive(chat[c])
             /\ Pair(chat'[c]) = Pair(chat[c]) /\ chat'[c].initiator = chat[c].initiator
  BY <1>2, <1>3 DEF IsLive, Pair
<1>5. Apart(chat)'
  <2>1. Apart(chat)
    BY DEF TurnInv
  <2> QED
    BY <1>4, <2>1 DEF Apart
<1>6. \A l \in Lines : sending'[l] = Idle
  BY <1>1, <1>2
<1>7. (\A l \in Lines : Fresh(sending[l], chat))'
  BY <1>6, IdleFresh DEF Fresh
<1> QED
  BY <1>5, <1>6, <1>7 DEF TurnInv

InTurn == mode = "in turn"

\* What is done in one step when requests are taken in turn.
LEMMA TurnStep ==
  ASSUME InTurn, MCNext
  PROVE  /\ InTurn'
         /\ \/ Quiet /\ \E a \in Team : DeleteStaff(a)
            \/ \E l \in Lines :
                 /\ \A k \in Lines \ {l} : sending[k] = Idle
                 /\ \/ AnswerStep(l) \/ PlayerChatStep(l) \/ WriteStep(l) \/ StaffChatStep(l)
                    \/ UpdateStep(l, Updates \ Live)
BY Zenon DEF InTurn, MCNext, Turn

\* The steps of Chat that an instance takes.
LEMMA ModeNext == MCNext => Next
<1> SUFFICES ASSUME MCNext PROVE Next
  OBVIOUS
<1>1. CASE \E a \in Team : DeleteStaff(a)
  BY <1>1, Zenon DEF Next
<1>2. ASSUME NEW l \in Lines,
             \/ AnswerStep(l) \/ PlayerChatStep(l) \/ WriteStep(l) \/ StaffChatStep(l) \/ OpenStep(l)
             \/ UpdateStep(l, Updates) \/ UpdateStep(l, Updates \ Live)
      PROVE  Next
  <2>1. UpdateStep(l, Updates) \/ UpdateStep(l, Updates \ Live) => UpdateStep(l, Status)
    BY UpdatesAssumption, Zenon DEF UpdateStep
  <2> QED
    BY <1>2, <2>1, Zenon DEF Next
<1> QED
  BY <1>1, <1>2, Zenon DEF MCNext

LEMMA TurnKept ==
  ASSUME NEW l \in Lines, Alone(l),
         \/ AnswerStep(l) \/ PlayerChatStep(l) \/ WriteStep(l) \/ StaffChatStep(l)
         \/ UpdateStep(l, Updates \ Live)
  PROVE  TurnInv'
<1>1. CASE AnswerStep(l)
  BY <1>1, AnswerTurn, Zenon DEF AnswerStep
<1>2. CASE PlayerChatStep(l)
  BY <1>2, PlayerTurn, Zenon DEF PlayerChatStep
<1>3. CASE StaffChatStep(l)
  <2>1. ASSUME NEW a \in Team, LookUp(a) PROVE TurnInv'
    <3>1. chat' = chat /\ sending' = sending
      BY <2>1 DEF LookUp
    <3> QED
      BY <3>1 DEF Alone, TurnInv, Apart, Fresh
  <2> QED
    BY <1>3, <2>1, StaffTurn, StaffMessageTurn, Zenon DEF StaffChatStep
<1>4. CASE UpdateStep(l, Updates \ Live)
  BY <1>4, UpdateTurn, UpdatesAssumption, Zenon DEF UpdateStep
<1> QED
  BY <1>1, <1>2, <1>3, <1>4, WriteTurn

ModeInv == IInv /\ (InTurn => TurnInv)

LEMMA ModeStep ==
  ASSUME ModeInv, [MCNext]_<<chatVars, mode>>
  PROVE  ModeInv'
<1>1. CASE MCNext
  <2>1. IInv'
    BY <1>1, ModeNext, KeptNext DEF ModeInv
  <2>2. ASSUME InTurn' PROVE TurnInv'
    <3>1. InTurn
      BY <1>1, <2>2, Zenon DEF MCNext, InTurn
    <3>2. CASE Quiet /\ \E a \in Team : DeleteStaff(a)
      BY <2>1, <3>1, <3>2, DeleteTurn, Zenon DEF ModeInv
    <3>3. ASSUME NEW l \in Lines, \A k \in Lines \ {l} : sending[k] = Idle,
                 \/ AnswerStep(l) \/ PlayerChatStep(l) \/ WriteStep(l) \/ StaffChatStep(l)
                 \/ UpdateStep(l, Updates \ Live)
          PROVE  TurnInv'
      <4>1. Alone(l)
        BY <2>1, <3>1, <3>3, Zenon DEF Alone, ModeInv
      <4> QED
        BY <3>3, <4>1, TurnKept, Zenon
    <3> QED
      BY <1>1, <3>1, <3>2, <3>3, TurnStep, Zenon
  <2> QED
    BY <2>1, <2>2 DEF ModeInv
<1>2. CASE UNCHANGED <<chatVars, mode>>
  <2>1. UNCHANGED chatVars /\ (InTurn' <=> InTurn)
    BY <1>2, Zenon DEF InTurn
  <2>2. IInv'
    BY <2>1, KeptNext DEF ModeInv
  <2>3. chat' = chat /\ sending' = sending
    BY <2>1 DEF chatVars
  <2>4. TurnInv => TurnInv'
    BY <2>2, <2>3 DEF TurnInv, Apart, Fresh
  <2> QED
    BY <2>1, <2>2, <2>4, Zenon DEF ModeInv
<1> QED
  BY <1>1, <1>2

\* Between requests taken in turn two of the staff have one chat, whoever began
\* it and whoever archived it, and a player one that is live, whether he or an
\* answer opened it: no handler inserts a second, and none makes a closed one
\* live again beside it.
THEOREM ChatsStayApart == MCSpec => []ChatsApart
<1>1. MCInit => ModeInv
  <2> SUFFICES ASSUME MCInit PROVE ModeInv
    OBVIOUS
  <2>1. Init
    BY Zenon DEF MCInit
  <2>2. IInv
    BY <2>1, KeptInit
  <2>3. \A l \in Lines : sending[l] = Idle
    BY <2>1 DEF Init
  <2>4. \A c \in Chats : chat[c].kind = "unused"
    BY <2>1 DEF Init, NoChat
  <2>5. Apart(chat)
    BY <2>4 DEF Apart, IsLive
  <2> QED
    BY <2>2, <2>3, <2>5, IdleFresh DEF ModeInv, TurnInv
<1>2. ModeInv /\ [MCNext]_<<chatVars, mode>> => ModeInv'
  BY ModeStep
<1>3. ModeInv => ChatsApart
  <2>1. TurnInv => OneChatPerPair
    BY DEF TurnInv, Apart, Pair, OneChatPerPair
  <2>2. TurnInv => OneLiveChat
    BY DEF TurnInv, Apart, IsLive, OneLiveChat, LiveOf, ChatsOf
  <2> QED
    BY <2>1, <2>2, Zenon DEF ModeInv, ChatsApart, InTurn
<1> QED
  BY <1>1, <1>2, <1>3, PTL DEF MCSpec

=============================================================================

------------------------------- MODULE MCChat -------------------------------
(* Model-checking instances of Chat: the values are in the .cfg files, the *)
(* symmetry set here.  A behaviour keeps to one mode, chosen at the start: *)
(* "in turn", one request at a time, where staff neither open a player's   *)
(* chat nor reopen one; "desk", what is done about one player's chat, at   *)
(* once.                                                                   *)
EXTENDS Chat, FiniteSets, TLC

CONSTANTS
  Modes,
  Updates  \* the statuses staff set

ASSUME UpdatesAssumption == Updates \subseteq Status

VARIABLE mode

MCInit == Init /\ mode \in Modes

Turn(l) == mode = "in turn" => \A k \in Lines \ {l} : sending[k] = Idle

\* At the desk one chat is enough, and what is read changes nothing else.
InFocus ==
  mode = "desk" =>
    /\ Cardinality({c \in Chats : chat'[c] # NoChat}) < 2
    /\ \A l \in Lines : sending'[l].todo # <<"read">>

MCNext ==
  /\ \/ \E l \in Lines :
          /\ Turn(l)
          /\ \/ AnswerStep(l) \/ PlayerChatStep(l) \/ WriteStep(l)
             \/ mode = "in turn" /\ StaffChatStep(l)
             \/ UpdateStep(l, IF mode = "desk" THEN Updates ELSE Updates \ Live)
             \/ mode = "desk" /\ OpenStep(l)
     \/ \E a \in Team : (mode = "in turn" => Quiet) /\ DeleteStaff(a)
  /\ mode' = mode /\ InFocus

MCSpec == MCInit /\ [][MCNext]_<<chatVars, mode>>

Symmetry == Permutations(Chats) \cup Permutations(Messages) \cup Permutations(Lines)

\* Between requests taken in turn, two of the staff have one chat, and a player
\* one that is live.
ChatsApart == mode = "in turn" /\ Quiet => OneChatPerPair /\ OneLiveChat
=============================================================================

SPECIFICATION MCSpec
CONSTANTS
  Team = {a1, s1}
  Admins = {a1}
  Guests = {p1}
  Chats = {c1, c2}
  Messages = {m1, m2}
  Lines = {l1, l2}
  Modes = {"in turn", "desk"}
  Updates = {"open", "closed"}
SYMMETRY Symmetry
CHECK_DEADLOCK FALSE
INVARIANTS TypeOK ChatsApart AnsweredIsAssigned

------------------------------ MODULE SeatMap ------------------------------
(***************************************************************************)
(* What seating promises, without the rows, the locks and the requests:    *)
(* a numbered seat of a table is held by one waitlist entry or by nobody,  *)
(* it changes hands only by being freed first, and an entry holds at most  *)
(* one seat.                                                               *)
(***************************************************************************)
CONSTANTS Tables, Seats, Entries, Nobody    \* Nobody is not an entry

VARIABLE holder    \* holder[<<t, s>>]: who has seat s of table t

Init == holder = [ts \in Tables \X Seats |-> Nobody]

Take(t, s, e) ==
  /\ holder[<<t, s>>] = Nobody
  /\ \A ts \in Tables \X Seats : holder[ts] # e
  /\ holder' = [holder EXCEPT ![<<t, s>>] = e]

\* A buy-out or a settlement frees every seat of the players it settles.
Leave(gone) ==
  holder' = [ts \in Tables \X Seats |-> IF ts \in gone THEN Nobody ELSE holder[ts]]

Next ==
  \/ \E t \in Tables, s \in Seats, e \in Entries : Take(t, s, e)
  \/ \E gone \in SUBSET (Tables \X Seats) : Leave(gone)

Spec == Init /\ [][Next]_holder
=============================================================================

-------------------------- MODULE MCTournamentDesk --------------------------
(* Model-checking instances of TournamentDesk: the values are in the .cfg  *)
(* files, the symmetry set here.  A behaviour keeps to one mode, chosen at *)
(* the start: "in turn", requests one at a time with every edit; "stakes   *)
(* kept", the same in a poker tournament whose edits leave the buy-in and  *)
(* the game alone and take no tournament back to scheduled; "at once",     *)
(* requests at once, without cancellations; "rummy", a rummy tournament.   *)
EXTENDS TournamentDesk, TLC

CONSTANT Modes
VARIABLE mode

InTurn == mode \in {"in turn", "stakes kept"}

KeepsStakes(r) ==
  r.cols \cap {"buyIn", "game"} = {} /\ ("status" \in r.cols => r.seen.status # "scheduled")

\* Bounds of a mode, cut from it only to keep the instance small.
Small ==
  /\ mode = "in turn" =>
       /\ \A p \in Players : refunded[p] <= 1 /\ tp[p].invested <= 1
       /\ \A h \in Handlers : /\ req[h].pc \notin {"stop", "rebuy", "exit", "end"}
                              /\ "status" \notin req[h].cols
  /\ mode = "stakes kept" =>
       /\ t.ran <= 1 /\ ends <= 1 /\ t.size \in {0, 2}
       /\ \A h \in Handlers : req[h].cols \subseteq {"status"}
  /\ mode = "at once" =>
       /\ \A h \in Handlers : /\ req[h].pc \notin {"stop", "stopPlayers"}
                              /\ At(h, "exit") => req[h].amount = 0
                              /\ At(h, "rebuy") => req[h].kind = "rebuy"
                              /\ At(h, "edit") => req[h].cols = {"status"}
                                                 /\ req[h].seen.status = "active"
       /\ \A p \in Players : charged[p] <= 1 /\ tp[p].invested <= 1
       /\ t.status \in {"unborn", "deleted"} \/ t.game = "rummy"
       /\ t.ran <= 1 /\ t.size \in {0, 2} /\ t.buyIn <= 1

InMode ==
  /\ InTurn => Cardinality({h \in Handlers : ~At(h, "idle")}) <= 1
  /\ mode = "stakes kept" =>
       t.game = "poker" /\ \A h \in Handlers : At(h, "edit") => KeepsStakes(req[h])
  /\ mode = "at once" => \A h \in Handlers : ~At(h, "cancel")
  /\ mode = "rummy" => t.status = "unborn" \/ t.game = "rummy"

MCInit == Init /\ mode \in Modes
MCNext ==
  /\ \/ \E h \in Handlers : PlayerStep(h) \/ DeskStep(h) \/ SeatStep(h)
     \/ Minute
  /\ UNCHANGED mode /\ InMode' /\ Small'
MCSpec == MCInit /\ [][MCNext]_<<vars, mode>>

Symmetry == Permutations(Handlers) \cup Permutations(Players)

-----------------------------------------------------------------------------
\* With requests taken in turn, where no edit changes the buy-in or the game of
\* a poker tournament or takes it back to scheduled, what the desk reports as
\* invested was charged, and no player is given back more than was charged.
StakesInTurn == mode = "stakes kept" => InvestedWasCharged /\ RefundsWithinCharges

\* With requests taken in turn, whatever edits came before, registering takes
\* nobody beyond the capacity of the moment and overdraws neither the wallet nor
\* the credit limit of a player who pays partly from the credit line.
AdmitsInTurn == [][InTurn => Admits]_vars
=============================================================================

--------------------------- MODULE MCTableSeating ---------------------------
(* Model-checking instances of TableSeating: the values are in the .cfg    *)
(* files, the symmetry sets here.  A behaviour keeps to one mode, chosen   *)
(* at the start, which says which requests there are and whether they      *)
(* overlap.                                                                *)
EXTENDS TableSeating, TLC

CONSTANT Modes
VARIABLE mode

OpsOf ==
  [m \in {"locked", "close", "stale edit", "in turn"} |->
     CASE m = "locked" ->
            {"createWaitlistEntry", "cancelWaitlistEntry", "deleteWaitlistEntry", "assignSeat",
             "startCallTime", "manualBuyOut", "updateSessionParams"}
       [] m = "close" -> {"createWaitlistEntry", "assignSeat", "settleAndEnd", "manualBuyOut"}
       [] m = "stale edit" ->
            {"createWaitlistEntry", "updateWaitlistEntry", "assignSeat", "unseatPlayer"}
       [] m = "in turn" ->
            {"joinWaitlist", "updateWaitlistEntry", "cancelWaitlistEntry", "deleteWaitlistEntry",
             "assignSeat", "unseatPlayer", "createTable", "updateTable", "deleteTable",
             "pauseSession", "resumeSession", "endSession", "updateSessionParams"}]

\* Only requests taken in turn come from parties and for tables of all sizes; a
\* table under maintenance is one more that is closed.
InMode ==
  /\ \A h \in Handlers : req[h].op \in OpsOf[mode] \cup {"none"}
  /\ mode = "in turn" => \A h \in Handlers : req[h].tab.status # "MAINTENANCE"
  /\ mode # "in turn" =>
       /\ \A e \in Entries : entry[e].party < 2
       /\ \A t \in Tables : table[t].max # 1

MCInit == Init /\ mode \in Modes /\ InMode

Turn(h) == mode = "in turn" => \A g \in Handlers \ {h} : At(g, "idle")

\* Requests die, and requests to leave are decided, in the mode "locked".
MCNext ==
  /\ \/ \E h \in Handlers :
          /\ Turn(h)
          /\ \/ SaveEntry(h) \/ WriteEntry(h) \/ SaveTable(h) \/ WriteTable(h) \/ LoadTable(h)
             \/ WaitlistStep(h) \/ SeatStep(h)
             \/ mode \in {"locked", "in turn"} /\ TableStep(h)
             \/ mode \in {"locked", "close"} /\ BuyOutStep(h)
             \/ mode = "locked" /\ Abandon(h)
     \/ mode = "locked" /\ \E p \in Players, t \in Tables : ApproveBuyOut(p, t) \/ RejectBuyOut(p, t)
  /\ UNCHANGED mode /\ InMode'

MCSpec == MCInit /\ [][MCNext]_<<vars, mode>>

Symmetry == Permutations(Players) \cup Permutations(Entries)
              \cup Permutations(Handlers)

-----------------------------------------------------------------------------
(* What holds between requests taken one at a time.                        *)

\* In turn, no table seats more people than it has chairs, and its counter,
\* current_seats, is the number of people seated, whatever party an entry is
\* edited to and however it leaves its seat.  (A buy-out posted twice at once
\* frees a chair somebody still sits on, so neither holds of requests that
\* overlap.)
PeopleCounted == mode = "in turn" => NotOverbooked /\ SeatCountExact

\* A player has at most one entry that waits or sits, and no table is deleted
\* from under the people who sit at it.
VisitsInTurn == mode = "in turn" => OneLiveEntry /\ SeatsExist

\* In turn, a table loses its session under the people who sit at it only by an
\* edit of its notes or of the session's parameters, which rebuilds them: ending
\* a session is refused while anybody sits there, assignSeat seats nobody without
\* a session, and pausing, resuming and leaving keep the marker.
NotesEditors == {"updateTable", "updateSessionParams"}
OnlyNotesStrand ==
  [][mode = "in turn" =>
       \A t \in Tables : Stranded(t)' =>
         \/ Stranded(t)
         \/ \E h \in Handlers : At(h, "writeTable") /\ req[h].op \in NotesEditors]_<<vars, mode>>
=============================================================================

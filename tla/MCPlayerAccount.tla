-------------------------- MODULE MCPlayerAccount --------------------------
(* Model-checking instances of PlayerAccount: the values are in the .cfg   *)
(* files, the symmetry sets here.  A behaviour keeps to one mode, chosen   *)
(* at the start: "in turn", all requests but those of the cashier, one at  *)
(* a time; "credit", those about credit and the seat, at once; "money",    *)
(* whatever the instance lets requests do, at once.                        *)
EXTENDS PlayerAccount, FiniteSets, TLC

CONSTANT Modes
VARIABLE mode

Used(rows, blank) == Cardinality({i \in DOMAIN rows : rows[i] # blank})

\* In turn, one credit request and one limit are enough.
InMode ==
  /\ mode = "in turn" => Used(credit, NoCredit) < 2 /\ limit < 2
  /\ mode = "credit" =>
       /\ Used(buyIn, NoBuyRequest) + Used(buyOut, NoBuyRequest) = 0
       /\ \A h \in Handlers : req[h].op \notin {"manualBuyOut", "updateVisibility"}

MCInit == Init /\ mode \in Modes

Turn(others) == mode = "in turn" => \A g \in others : At(g, "idle")

MCNext ==
  /\ \/ Turn(Handlers) /\ DirectStep
     \/ \E h \in Handlers :
          /\ Turn(Handlers \ {h})
          /\ CashierStep(h) \/ SeatStep(h) \/ BuyInStep(h) \/ BuyOutStep(h)
             \/ CreditStep(h) \/ Abandon(h)
  /\ mode' = mode /\ InMode'

MCSpec == MCInit /\ [][MCNext]_<<vars, mode>>

Symmetry == Permutations(Handlers) \cup Permutations(BuyIns)
              \cup Permutations(BuyOuts) \cup Permutations(Credits)

-----------------------------------------------------------------------------
\* Taken in turn, no way out pays back more credit than is owed.
LineInTurn == mode = "in turn" => LineNotNegative
=============================================================================

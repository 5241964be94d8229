------------------------ MODULE TableSeating_proofs ------------------------
(***************************************************************************)
(* Theorems about TableSeating, for every value of its constants.          *)
(*                                                                         *)
(*   TypeCorrect              every variable keeps its type (TypeOK)       *)
(*   SeatsAreExclusive        SeatExclusive                                *)
(*   CancelledStaysCancelled  CancelledIsFinal                             *)
(*   SeatMapImplemented       every behaviour is one of SeatMap            *)
(*   ...InModes               the same three, in the modes of the instance *)
(*   PeopleAreCounted         PeopleCounted, of requests taken in turn     *)
(*   VisitsAreKept            VisitsInTurn, likewise                       *)
(*   SessionsOutlastVisits    OnlyNotesStrand, likewise                    *)
(*                                                                         *)
(* The three of Spec assume NoStaleSeatWrites: no operation is used that   *)
(* can write back a seat it loaded without a lock.  The order: types       *)
(* (TypeInv adds which rows a waiting request names), then what each group *)
(* of actions may do to an entry (StepEffect), then those three results,   *)
(* which need only that somebody sits down where MaySeat lets him or that  *)
(* nobody does (SeatEffect).  The last ones are about MCSpec, whose mode   *)
(* "in turn" lets one request run at a time.  They rest on TurnInv, which  *)
(* says what stays true of the rows a request has read until it writes     *)
(* (Kept), and on what MapThenSumSet adds up to (Total of Sums).  With it  *)
(* the operations left out above have a SeatEffect in turn (TurnRecedes),  *)
(* so that the three hold in all modes of the instance, with every         *)
(* operation.                                                              *)
(***************************************************************************)
EXTENDS MCTableSeating, Sums

\* A request names the rows its next step reads and writes.
Ready(r) ==
  /\ r.pc \in {"loadEntry", "saveEntry", "writeEntry", "removeEntry", "seatTx",
               "unseatTable"} \/ r.op = "unseatPlayer"
       => r.e \in Entries
  /\ r.pc \in {"seatTx", "unseatTable", "loadTable", "saveTable", "writeTable",
               "insertTable", "removeTable", "insertCall", "manualTx", "settleTx"}
       => r.t \in Tables
  /\ r.pc \in {"recheckPending", "insertEntry"}
       => r.player \in Players
  /\ r.pc = "loadTable" => r.todo # <<>>

GoodRequest == {r \in Request : Ready(r)}

TypeInv == TypeOK /\ req \in [Handlers -> GoodRequest]

LEMMA IdleGood == Idle \in GoodRequest
BY SMT DEF Idle, GoodRequest, Request, Ready, WaitlistEntry, TableRow, BlankEntry,
   BlankTable, PC, EntryStatus, TableStatus, NoRow, Session

LEMMA BecomesGood ==
  ASSUME TypeInv, NEW h \in Handlers, NEW r \in GoodRequest, Becomes(h, r)
  PROVE  req' \in [Handlers -> GoodRequest] /\ req' \in [Handlers -> Request]
BY DEF TypeInv, Becomes, GoodRequest

LEMMA SavedEntryType ==
  ASSUME NEW db \in WaitlistEntry, NEW base \in WaitlistEntry, NEW ent \in WaitlistEntry
  PROVE  SavedEntry(db, base, ent) \in WaitlistEntry
BY SMT DEF SavedEntry, MergedEntry, Changed, WaitlistEntry

LEMMA SavedTableType ==
  ASSUME NEW db \in TableRow, NEW base \in TableRow, NEW ent \in TableRow
  PROVE  SavedTable(db, base, ent) \in TableRow
BY SMT DEF SavedTable, MergedTable, Changed, TableRow

LEMMA TypeInit == Init => TypeInv
<1> SUFFICES ASSUME Init PROVE TypeInv
  OBVIOUS
<1>1. entry \in [Entries -> WaitlistEntry]
  BY DEF Init, BlankEntry, WaitlistEntry, EntryStatus
<1>2. table \in [Tables -> TableRow]
  BY SeatingAssumption, SMT DEF Init, BlankTable, TableRow, TableStatus, NoRow, Session
<1>3. calls \in [Players -> [Tables -> Nat]]
  BY DEF Init
<1>4. req \in [Handlers -> GoodRequest]
  BY IdleGood DEF Init
<1> QED
  BY <1>1, <1>2, <1>3, <1>4 DEF TypeInv, TypeOK, GoodRequest

LEMMA RequestFacts ==
  ASSUME TypeInv, NEW h \in Handlers
  PROVE  req[h] \in Request /\ Ready(req[h])
BY DEF TypeInv, GoodRequest

LEMMA StartType ==
  ASSUME TypeInv, NEW h \in Handlers, NEW r \in GoodRequest, Becomes(h, r),
         UNCHANGED <<entry, table, calls>>
  PROVE  TypeInv'
BY BecomesGood DEF TypeInv, TypeOK

LEMMA RowStepType ==
  ASSUME TypeInv, NEW h \in Handlers, RowStep(h)
  PROVE  TypeInv'
<1> USE RequestFacts
<1>1. CASE SaveEntry(h)
  <2> DEFINE r == [req[h] EXCEPT !.pc = "writeEntry", !.entBase = entry[req[h].e]]
  <2>1. entry[req[h].e] \in WaitlistEntry
    BY <1>1 DEF TypeInv, TypeOK, Ready, SaveEntry, At
  <2>2. r \in GoodRequest
    BY <1>1, <2>1, ZenonT(60) DEF GoodRequest, Request, Ready, PC, SaveEntry, At
  <2> QED
    BY <1>1, <2>2, BecomesGood DEF SaveEntry, TypeInv, TypeOK
<1>2. CASE WriteEntry(h)
  <2>1. entry' \in [Entries -> WaitlistEntry]
    BY <1>2, SavedEntryType DEF WriteEntry, TypeInv, TypeOK, GoodRequest, Request
  <2> QED
    BY <1>2, <2>1, BecomesGood, IdleGood DEF WriteEntry, TypeInv, TypeOK, Done
<1>3. CASE SaveTable(h)
  <2> DEFINE r == [req[h] EXCEPT !.pc = "writeTable", !.tabBase = table[req[h].t]]
  <2>1. table[req[h].t] \in TableRow
    BY <1>3 DEF TypeInv, TypeOK, Ready, SaveTable, At
  <2>2. r \in GoodRequest
    BY <1>3, <2>1, ZenonT(60) DEF GoodRequest, Request, Ready, PC, SaveTable, At
  <2> QED
    BY <1>3, <2>2, BecomesGood DEF SaveTable, TypeInv, TypeOK
<1>4. CASE WriteTable(h)
  <2>1. table' \in [Tables -> TableRow]
    BY <1>4, SavedTableType DEF WriteTable, TypeInv, TypeOK, GoodRequest, Request
  <2>2. [req[h] EXCEPT !.pc = "saveEntry"] \in Request /\ [req[h] EXCEPT !.pc = "loadTable"] \in Request
    BY DEF Request, PC
  <2>3. req[h].op = "unseatPlayer" => [req[h] EXCEPT !.pc = "saveEntry"] \in GoodRequest
    BY <2>2 DEF GoodRequest, Request, Ready
  <2>4. At(h, "writeTable") /\ req[h].todo # <<>> => [req[h] EXCEPT !.pc = "loadTable"] \in GoodRequest
    BY <2>2 DEF GoodRequest, Request, Ready, At
  <2>5. req' \in [Handlers -> GoodRequest]
    BY <1>4, <2>3, <2>4, IdleGood DEF WriteTable, Done, Goto, Becomes, TypeInv
  <2> QED
    BY <1>4, <2>1, <2>5 DEF WriteTable, TypeInv, TypeOK, GoodRequest
<1>5. CASE LoadTable(h)
  <2> DEFINE row == Patched(table[req[h].t], Head(req[h].todo))
             r == [req[h] EXCEPT !.pc = "saveTable", !.todo = Tail(@), !.tab = row]
  <2>1. req[h].t \in Tables /\ table[req[h].t] \in TableRow
    BY <1>5 DEF TypeInv, TypeOK, Ready, LoadTable, At
  <2>2. req[h].todo \in Seq(Patch) /\ req[h].todo # <<>>
    BY <1>5 DEF Ready, LoadTable, At, Request
  <2>3. Head(req[h].todo) \in Patch /\ Tail(req[h].todo) \in Seq(Patch)
    BY <2>2
  <2>4. Exists(req[h].t) => row \in TableRow
    BY <2>1, <2>3 DEF Patched, TableRow, Patch, TableStatus, Session
  <2>5. Exists(req[h].t) => r \in Request
    BY <2>3, <2>4, ZenonT(60) DEF Request, PC
  <2>6. Exists(req[h].t) => r \in GoodRequest
    BY <1>5, <2>1, <2>5 DEF GoodRequest, Request, Ready, LoadTable, At
  <2> QED
    BY <1>5, <2>6, IdleGood, BecomesGood DEF LoadTable, TypeInv, TypeOK, Done
<1>6. CASE Abandon(h)
  BY <1>6, BecomesGood, IdleGood DEF Abandon, TypeInv, TypeOK, Done
<1> QED
  BY <1>1, <1>2, <1>3, <1>4, <1>5, <1>6 DEF RowStep

LEMMA WaitlistStepType ==
  ASSUME TypeInv, NEW h \in Handlers, WaitlistStep(h)
  PROVE  TypeInv'
<1> USE RequestFacts
<1>1. ASSUME NEW p \in Players, CreateWaitlistEntry(h, p) PROVE TypeInv'
  <2> DEFINE r == [Idle EXCEPT !.op = "createWaitlistEntry", !.pc = "insertEntry",
                    !.player = p]
  <2>1. r \in GoodRequest
    BY <1>1, IdleGood, ZenonT(60) DEF CreateWaitlistEntry, Free, GoodRequest, Request, Ready, PC
  <2> QED
    BY <1>1, <2>1, StartType DEF CreateWaitlistEntry
<1>2. ASSUME NEW p \in Players, JoinWaitlist(h, p) PROVE TypeInv'
  <2> DEFINE r == [Idle EXCEPT !.op = "joinWaitlist", !.pc = "recheckPending", !.player = p]
  <2>1. r \in GoodRequest
    BY <1>2, IdleGood, ZenonT(60) DEF JoinWaitlist, Free, GoodRequest, Request, Ready, PC
  <2> QED
    BY <1>2, <2>1, StartType DEF JoinWaitlist
<1>3. CASE RecheckPending(h)
  <2> DEFINE r == [req[h] EXCEPT !.pc = "insertEntry"]
  <2>1. r \in GoodRequest
    BY <1>3 DEF RecheckPending, At, GoodRequest, Request, Ready, PC
  <2> QED
    BY <1>3, <2>1, StartType, IdleGood DEF RecheckPending, Goto, Done, Becomes
<1>4. CASE InsertEntry(h)
  <2>1. req[h].player \in Players
    BY <1>4 DEF InsertEntry, At, Ready
  <2>2. PICK e \in Entries, n \in PartySizes, g \in Games :
          entry' = [entry EXCEPT ![e] =
            [status |-> "PENDING", player |-> req[h].player, party |-> n,
             game |-> g, table |-> NoTable, seat |-> NoSeat]]
    BY <1>4 DEF InsertEntry
  <2>3. entry' \in [Entries -> WaitlistEntry]
    BY <2>1, <2>2 DEF TypeInv, TypeOK, WaitlistEntry, EntryStatus
  <2> QED
    BY <1>4, <2>3, BecomesGood, IdleGood DEF InsertEntry, TypeInv, TypeOK, Done
<1>5. ASSUME NEW e \in Entries, UpdateWaitlistEntry(h, e) PROVE TypeInv'
  <2> DEFINE r == [Idle EXCEPT !.op = "updateWaitlistEntry", !.pc = "loadEntry", !.e = e]
  <2>1. r \in GoodRequest
    BY <1>5, IdleGood, ZenonT(60) DEF UpdateWaitlistEntry, Free, GoodRequest, Request, Ready, PC
  <2> QED
    BY <1>5, <2>1, StartType DEF UpdateWaitlistEntry
<1>6. ASSUME NEW e \in Entries, CancelWaitlistEntry(h, e) PROVE TypeInv'
  <2> DEFINE ent == [entry[e] EXCEPT !.status = "CANCELLED"]
             r == [Idle EXCEPT !.op = "cancelWaitlistEntry", !.pc = "saveEntry", !.e = e, !.ent = ent]
  <2>1. ent \in WaitlistEntry
    BY ZenonT(30) DEF TypeInv, TypeOK, WaitlistEntry, EntryStatus
  <2>2. r \in GoodRequest
    BY <1>6, <2>1, IdleGood, ZenonT(60) DEF CancelWaitlistEntry, Free, GoodRequest, Request, Ready, PC
  <2> QED
    BY <1>6, <2>2, StartType DEF CancelWaitlistEntry
<1>7. ASSUME NEW e \in Entries, DeleteWaitlistEntry(h, e) PROVE TypeInv'
  <2> DEFINE r == [Idle EXCEPT !.op = "deleteWaitlistEntry", !.pc = "removeEntry", !.e = e]
  <2>1. r \in GoodRequest
    BY <1>7, IdleGood, ZenonT(60) DEF DeleteWaitlistEntry, Free, GoodRequest, Request, Ready, PC
  <2> QED
    BY <1>7, <2>1, StartType DEF DeleteWaitlistEntry
<1>8. CASE EditLoadedEntry(h)
  <2>1. req[h].e \in Entries
    BY <1>8 DEF EditLoadedEntry, At, Ready
  <2>2. ASSUME NEW n \in PartySizes
        PROVE  [req[h] EXCEPT !.pc = "saveEntry",
                  !.ent = [entry[req[h].e] EXCEPT !.party = n]] \in GoodRequest
    <3> DEFINE x == entry[req[h].e]
    <3>0. x \in WaitlistEntry
      BY <2>1 DEF TypeInv, TypeOK
    <3> HIDE DEF x
    <3>1. [x EXCEPT !.party = n] \in WaitlistEntry
      BY <3>0, SMT DEF WaitlistEntry
    <3> QED
      BY <1>8, <2>1, <3>1, ZenonT(60) DEF x, EditLoadedEntry, At, GoodRequest, Request, Ready, PC
  <2> QED
    BY <1>8, <2>2, StartType, IdleGood DEF EditLoadedEntry, Done
<1>9. CASE RemoveEntry(h)
  <2>1. entry' \in [Entries -> WaitlistEntry]
    BY <1>9 DEF RemoveEntry, TypeInv, TypeOK, WaitlistEntry, EntryStatus, BlankEntry
  <2> QED
    BY <1>9, <2>1, BecomesGood, IdleGood DEF RemoveEntry, TypeInv, TypeOK, Done
<1> QED
  BY <1>1, <1>2, <1>3, <1>4, <1>5, <1>6, <1>7, <1>8, <1>9 DEF WaitlistStep

LEMMA PartyIsNat ==
  ASSUME NEW x \in WaitlistEntry
  PROVE  x.party \in Nat
<1>1. x.party \in PartySizes \cup {0}
  BY DEF WaitlistEntry
<1>2. \A n \in PartySizes \cup {0} : n \in Nat
  BY SeatingAssumption DEF SeatingAssumption
<1> QED
  BY <1>1, <1>2

LEMMA LessIsNat ==
  ASSUME NEW m \in Nat, NEW n \in Nat
  PROVE  Less(m, n) \in Nat
BY DEF Less

LEMMA FilledType ==
  ASSUME NEW row \in TableRow, NEW n \in Nat
  PROVE  Filled(row, n) \in TableRow
<1>1. row.cur \in Nat /\ row.cur + n \in Nat
  BY DEF TableRow
<1> QED
  BY <1>1 DEF Filled, TableRow, TableStatus

LEMMA SeatStepType ==
  ASSUME TypeInv, NEW h \in Handlers, SeatStep(h)
  PROVE  TypeInv'
<1> USE RequestFacts
<1>1. ASSUME NEW e \in Entries, NEW t \in Tables, AssignSeat(h, e, t) PROVE TypeInv'
  <2> DEFINE r == [Idle EXCEPT !.op = "assignSeat", !.pc = "seatTx", !.e = e, !.t = t]
  <2>1. r \in GoodRequest
    BY <1>1, IdleGood, ZenonT(60) DEF AssignSeat, Free, GoodRequest, Request, Ready, PC
  <2> QED
    BY <1>1, <2>1, StartType DEF AssignSeat
<1>2. CASE SeatTx(h)
  <2>1. req[h].e \in Entries /\ req[h].t \in Tables
    BY <1>2 DEF SeatTx, At, Ready
  <2> DEFINE n == entry[req[h].e].party
  <2>2. PICK s \in Seats \cup {NoSeat} :
          /\ entry' = [entry EXCEPT ![req[h].e] =
               [@ EXCEPT !.status = "SEATED", !.table = req[h].t, !.seat = s]]
          /\ table' = [table EXCEPT ![req[h].t] = Filled(@, n)]
    BY <1>2 DEF SeatTx
  <2>a. entry[req[h].e] \in WaitlistEntry
    BY <2>1 DEF TypeInv, TypeOK
  <2>b. [entry[req[h].e] EXCEPT !.status = "SEATED", !.table = req[h].t, !.seat = s]
          \in WaitlistEntry
    BY <2>1, <2>a DEF WaitlistEntry, EntryStatus
  <2>3. entry' \in [Entries -> WaitlistEntry]
    BY <2>1, <2>2, <2>b DEF TypeInv, TypeOK
  <2>4. n \in Nat
    BY <2>1, PartyIsNat DEF TypeInv, TypeOK
  <2>c. table[req[h].t] \in TableRow
    BY <2>1 DEF TypeInv, TypeOK
  <2>5. Filled(table[req[h].t], n) \in TableRow
    BY <2>4, <2>c, FilledType
  <2>6. table' \in [Tables -> TableRow]
    BY <2>1, <2>2, <2>5 DEF TypeInv, TypeOK
  <2> QED
    BY <1>2, <2>3, <2>6, BecomesGood, IdleGood DEF SeatTx, TypeInv, TypeOK, Done
<1>3. CASE SeatTxRefused(h)
  BY <1>3, StartType, IdleGood DEF SeatTxRefused, Done
<1>4. ASSUME NEW e \in Entries, NEW requeue \in BOOLEAN, UnseatPlayer(h, e, requeue)
      PROVE  TypeInv'
  <2> DEFINE ent == [entry[e] EXCEPT !.table = NoTable,
                       !.status = IF requeue THEN "PENDING" ELSE "CANCELLED"]
             r == [Idle EXCEPT !.op = "unseatPlayer", !.pc = "unseatTable",
                     !.e = e, !.t = entry[e].table, !.ent = ent]
  <2>1. ent \in WaitlistEntry /\ entry[e].table \in Tables
    BY <1>4, ZenonT(60) DEF TypeInv, TypeOK, WaitlistEntry, EntryStatus, UnseatPlayer
  <2>2. "unseatPlayer" \in Ops
    BY <1>4 DEF UnseatPlayer, Free
  <2>3. ASSUME NEW x \in WaitlistEntry, NEW t \in Tables
        PROVE  [Idle EXCEPT !.op = "unseatPlayer", !.pc = "unseatTable",
                  !.e = e, !.t = t, !.ent = x] \in GoodRequest
    BY <2>2, IdleGood, ZenonT(60) DEF GoodRequest, Request, Ready, PC
  <2>4. r \in GoodRequest
    BY <2>1, <2>3
  <2> QED
    BY <1>4, <2>4, StartType DEF UnseatPlayer
<1>5. CASE UnseatTable(h)
  <2> DEFINE row == Vacated(table[req[h].t], req[h].ent.party)
             r == [req[h] EXCEPT !.pc = "saveTable", !.tab = row]
             r2 == [req[h] EXCEPT !.pc = "saveEntry"]
  <2>1. req[h].t \in Tables /\ req[h].e \in Entries /\ req[h].ent \in WaitlistEntry
    BY <1>5 DEF UnseatTable, At, Ready, Request
  <2>2. table[req[h].t] \in TableRow /\ table[req[h].t].cur \in Nat
    BY <2>1 DEF TypeInv, TypeOK, TableRow
  <2>3. Less(table[req[h].t].cur, req[h].ent.party) \in Nat
    BY <2>1, <2>2, PartyIsNat, LessIsNat
  <2>4. row \in TableRow
    BY <2>2, <2>3 DEF Vacated, TableRow, TableStatus
  <2>5. r \in GoodRequest
    BY <2>1, <2>4, <1>5, ZenonT(60) DEF GoodRequest, Request, Ready, PC, UnseatTable, At
  <2>6. r2 \in GoodRequest
    BY <2>1, <1>5 DEF GoodRequest, Request, Ready, PC, UnseatTable, At
  <2> QED
    BY <1>5, <2>5, <2>6, StartType DEF UnseatTable, Goto, Becomes
<1> QED
  BY <1>1, <1>2, <1>3, <1>4, <1>5 DEF SeatStep

LEMMA SessionType ==
  ASSUME TypeInv, NEW h \in Handlers, NEW t \in Tables,
         NEW op, op # "unseatPlayer",
         NEW patches \in Seq(Patch), patches # <<>>, Session_(h, op, t, patches)
  PROVE  TypeInv'
<1> DEFINE r == [Idle EXCEPT !.op = op, !.pc = "loadTable", !.t = t, !.todo = patches]
<1>1. op \in Ops
  BY DEF Session_, Free
<1>2. r \in Request
  BY <1>1, IdleGood DEF GoodRequest, Request, PC
<1>3. Ready(r)
  BY <1>1, <1>2, IdleGood DEF GoodRequest, Request, Ready
<1> QED
  BY <1>2, <1>3, StartType DEF Session_, GoodRequest

LEMMA TableStepType ==
  ASSUME TypeInv, NEW h \in Handlers, TableStep(h)
  PROVE  TypeInv'
<1> USE RequestFacts
<1>1. ASSUME NEW t \in Tables, CreateTable(h, t) PROVE TypeInv'
  <2>1. ASSUME NEW g \in Games, NEW m \in TableSizes, NEW n \in Session
        PROVE  [Idle EXCEPT !.op = "createTable", !.pc = "insertTable", !.t = t,
                  !.tab = [status |-> "AVAILABLE", game |-> g, max |-> m, cur |-> 0,
                           session |-> n]] \in GoodRequest
    <3>1. [status |-> "AVAILABLE", game |-> g, max |-> m, cur |-> 0, session |-> n] \in TableRow
      BY DEF TableRow, TableStatus, Session
    <3> QED
      BY <1>1, <3>1, IdleGood, ZenonT(60) DEF CreateTable, Free, GoodRequest, Request, Ready, PC
  <2> QED
    BY <1>1, <2>1, StartType DEF CreateTable
<1>2. ASSUME NEW t \in Tables, UpdateTable(h, t) PROVE TypeInv'
  <2>1. ASSUME NEW m \in TableSizes \cup {table[t].max}, NEW g \in Games,
               NEW st \in TableStatus, NEW n \in Session
        PROVE  [Idle EXCEPT !.op = "updateTable", !.pc = "saveTable", !.t = t,
                  !.tab = [table[t] EXCEPT !.max = m, !.game = g, !.status = st, !.session = n]]
                  \in GoodRequest
    <3>1. [table[t] EXCEPT !.max = m, !.game = g, !.status = st, !.session = n] \in TableRow
      BY ZenonT(30) DEF TypeInv, TypeOK, TableRow
    <3> QED
      BY <1>2, <3>1, IdleGood, ZenonT(60) DEF UpdateTable, Free, GoodRequest, Request, Ready, PC
  <2> QED
    BY <1>2, <2>1, StartType DEF UpdateTable
<1>3. ASSUME NEW t \in Tables, DeleteTable(h, t) PROVE TypeInv'
  <2> DEFINE r == [Idle EXCEPT !.op = "deleteTable", !.pc = "removeTable", !.t = t]
  <2>1. r \in GoodRequest
    BY <1>3, IdleGood, ZenonT(60) DEF DeleteTable, Free, GoodRequest, Request, Ready, PC
  <2> QED
    BY <1>3, <2>1, StartType DEF DeleteTable
<1>4. ASSUME NEW t \in Tables, PauseSession(h, t) PROVE TypeInv'
  <2>1. <<"AVAILABLE", "paused">> \in Seq(Patch) /\ <<"AVAILABLE">> \in Seq(Patch)
    BY DEF Patch
  <2>2. <<"AVAILABLE", "paused">> # <<>> /\ <<"AVAILABLE">> # <<>>
    OBVIOUS
  <2> QED
    BY <1>4, <2>1, <2>2, SessionType DEF PauseSession
<1>5. ASSUME NEW t \in Tables, ResumeSession(h, t) PROVE TypeInv'
  <2>1. <<"AVAILABLE", "running">> \in Seq(Patch) /\ <<"AVAILABLE", "running">> # <<>>
    BY DEF Patch
  <2> QED
    BY <1>5, <2>1, SessionType DEF ResumeSession
<1>6. ASSUME NEW t \in Tables, EndSession(h, t) PROVE TypeInv'
  <2>1. <<"CLOSED", "noSeats", "ended">> \in Seq(Patch) /\ <<"CLOSED", "noSeats", "ended">> # <<>>
    BY DEF Patch
  <2> QED
    BY <1>6, <2>1, SessionType DEF EndSession
<1>7. ASSUME NEW t \in Tables, UpdateSessionParams(h, t) PROVE TypeInv'
  <2>1. <<"ended">> \in Seq(Patch) /\ <<"ended">> # <<>>
    BY DEF Patch
  <2> QED
    BY <1>7, <2>1, SessionType DEF UpdateSessionParams
<1>8. CASE InsertTable(h)
  <2>1. table' \in [Tables -> TableRow]
    BY <1>8 DEF InsertTable, TypeInv, TypeOK, Request
  <2> QED
    BY <1>8, <2>1, BecomesGood, IdleGood DEF InsertTable, TypeInv, TypeOK, Done
<1>9. CASE RemoveTable(h)
  <2>1. [BlankTable EXCEPT !.status = "DELETED"] \in TableRow
    BY DEF BlankTable, TableRow, NoRow, Session
  <2>2. table' \in [Tables -> TableRow]
    BY <1>9, <2>1 DEF RemoveTable, TypeInv, TypeOK
  <2> QED
    BY <1>9, <2>2, BecomesGood, IdleGood DEF RemoveTable, TypeInv, TypeOK, Done
<1> QED
  BY <1>1, <1>2, <1>3, <1>4, <1>5, <1>6, <1>7, <1>8, <1>9 DEF TableStep
LEMMA CloseEntriesType ==
  ASSUME TypeInv, NEW S, CloseEntries(S)
  PROVE  entry' \in [Entries -> WaitlistEntry]
<1>1. ASSUME NEW e \in Entries PROVE ClosedOut(entry[e]) \in WaitlistEntry
  <2>1. entry[e] \in WaitlistEntry
    BY DEF TypeInv, TypeOK
  <2> QED
    BY <2>1 DEF ClosedOut, WaitlistEntry, EntryStatus
<1> QED
  BY <1>1 DEF CloseEntries, TypeInv, TypeOK

LEMMA FreeOneSeatType ==
  ASSUME TypeInv, NEW t \in Tables, FreeOneSeat(t)
  PROVE  table' \in [Tables -> TableRow]
<1>1. table[t] \in TableRow /\ table[t].cur \in Nat
  BY DEF TypeInv, TypeOK, TableRow
<1>2. Less(table[t].cur, 1) \in Nat
  BY <1>1, LessIsNat
<1>3. [table[t] EXCEPT !.cur = Less(table[t].cur, 1)] \in TableRow
  BY <1>1, <1>2 DEF TableRow
<1> QED
  BY <1>3 DEF FreeOneSeat, TypeInv, TypeOK

LEMMA BuyOutStepType ==
  ASSUME TypeInv, NEW h \in Handlers, BuyOutStep(h)
  PROVE  TypeInv'
<1>1. ASSUME NEW e \in Entries, StartCallTime(h, e) PROVE TypeInv'
  <2>1. "startCallTime" \in Ops
    BY <1>1 DEF StartCallTime, Free
  <2>2. ASSUME NEW p \in Players \cup {NoPlayer}, NEW t \in Tables
        PROVE  [Idle EXCEPT !.op = "startCallTime", !.pc = "insertCall",
                  !.player = p, !.t = t] \in GoodRequest
    <3> DEFINE q == [Idle EXCEPT !.op = "startCallTime", !.pc = "insertCall",
                      !.player = p, !.t = t]
    <3>1. q \in Request
      BY <2>1, IdleGood, ZenonT(60) DEF GoodRequest, Request, PC
    <3>2. q.op = "startCallTime" /\ q.pc = "insertCall" /\ q.t = t
      BY SMT DEF Idle
    <3> HIDE DEF q
    <3>3. Ready(q)
      BY <3>2, SMT DEF Ready
    <3> QED
      BY <3>1, <3>3 DEF GoodRequest, q
  <2>3. entry[e].player \in Players \cup {NoPlayer} /\ entry[e].table \in Tables
    BY <1>1 DEF StartCallTime, TypeInv, TypeOK, WaitlistEntry
  <2> DEFINE r == [Idle EXCEPT !.op = "startCallTime", !.pc = "insertCall",
                    !.player = entry[e].player, !.t = entry[e].table]
  <2>4. r \in GoodRequest
    BY <2>2, <2>3
  <2>5. Becomes(h, r) /\ UNCHANGED <<entry, table, calls>>
    BY <1>1 DEF StartCallTime
  <2> HIDE DEF r
  <2> QED
    BY <2>4, <2>5, StartType
<1>2. CASE InsertCall(h)
  <2> DEFINE p == req[h].player
             t == req[h].t
  <2>0. calls' = [calls EXCEPT ![p] = [calls[p] EXCEPT ![t] = calls[p][t] + 1]]
    BY <1>2 DEF InsertCall
  <2>1. calls' \in [Players -> [Tables -> Nat]]
    <3>1. CASE p \in Players
      <4>1. t \in Tables
        BY <1>2, RequestFacts DEF InsertCall, At, Ready
      <4>2. calls[p] \in [Tables -> Nat] /\ calls[p][t] + 1 \in Nat
        BY <3>1, <4>1 DEF TypeInv, TypeOK
      <4> HIDE DEF p, t
      <4> QED
        BY <2>0, <3>1, <4>2 DEF TypeInv, TypeOK
    <3>2. CASE p \notin Players
      <4> HIDE DEF p, t
      <4> QED
        BY <2>0, <3>2 DEF TypeInv, TypeOK
    <3> QED
      BY <3>1, <3>2
  <2> QED
    BY <1>2, <2>1, BecomesGood, IdleGood DEF InsertCall, TypeInv, TypeOK, Done
<1>3. ASSUME NEW p \in Players, NEW t \in Tables, ManualBuyOut(h, p, t) PROVE TypeInv'
  <2> DEFINE r == [Idle EXCEPT !.op = "manualBuyOut", !.pc = "manualTx",
                    !.player = p, !.t = t]
  <2>1. r \in GoodRequest
    BY <1>3, IdleGood, ZenonT(60) DEF ManualBuyOut, Free, GoodRequest, Request, Ready, PC
  <2> QED
    BY <1>3, <2>1, StartType DEF ManualBuyOut
<1>4. CASE ManualTx(h)
  <2>1. req[h].t \in Tables
    BY <1>4, RequestFacts DEF ManualTx, At, Ready
  <2>2. entry' \in [Entries -> WaitlistEntry] /\ table' \in [Tables -> TableRow]
    BY <1>4, <2>1, CloseEntriesType, FreeOneSeatType DEF ManualTx
  <2> QED
    BY <1>4, <2>2, BecomesGood, IdleGood DEF ManualTx, TypeInv, TypeOK, Done
<1>5. ASSUME NEW t \in Tables, SettleAndEnd(h, t) PROVE TypeInv'
  <2> DEFINE r == [Idle EXCEPT !.op = "settleAndEnd", !.pc = "settleTx", !.t = t]
  <2>1. r \in GoodRequest
    BY <1>5, IdleGood, ZenonT(60) DEF SettleAndEnd, Free, GoodRequest, Request, Ready, PC
  <2> QED
    BY <1>5, <2>1, StartType DEF SettleAndEnd
<1>6. CASE SettleTx(h)
  <2> DEFINE r == [req[h] EXCEPT !.pc = "loadTable", !.todo = <<"CLOSED", "ended">>]
  <2>1. req[h] \in Request /\ req[h].t \in Tables /\ Ready(req[h])
    BY <1>6, RequestFacts DEF SettleTx, At, Ready
  <2>2. <<"CLOSED", "ended">> \in Seq(Patch) /\ <<"CLOSED", "ended">> # <<>>
    BY DEF Patch
  <2>3. r \in GoodRequest
    BY <2>1, <2>2, ZenonT(60) DEF GoodRequest, Request, Ready, PC
  <2>4. [table[req[h].t] EXCEPT !.cur = 0] \in TableRow
    BY <2>1, ZenonT(60) DEF TypeInv, TypeOK, TableRow
  <2>5. table' \in [Tables -> TableRow]
    BY <1>6, <2>1, <2>4 DEF SettleTx, TypeInv, TypeOK
  <2>6. entry' \in [Entries -> WaitlistEntry]
    BY <1>6, CloseEntriesType DEF SettleTx
  <2> QED
    BY <1>6, <2>3, <2>5, <2>6, BecomesGood DEF SettleTx, TypeInv, TypeOK
<1> QED
  BY <1>1, <1>2, <1>3, <1>4, <1>5, <1>6 DEF BuyOutStep

LEMMA RequestTxType ==
  ASSUME TypeInv, NEW p \in Players, NEW t \in Tables,
         ApproveBuyOut(p, t) \/ RejectBuyOut(p, t)
  PROVE  TypeInv'
<1>1. calls[p][t] \in Nat /\ calls[p][t] > 0
  BY DEF TypeInv, TypeOK, ApproveBuyOut, RejectBuyOut
<1>2. calls' \in [Players -> [Tables -> Nat]]
  BY <1>1, SMTT(30) DEF TypeInv, TypeOK, ApproveBuyOut, RejectBuyOut
<1>3. entry' \in [Entries -> WaitlistEntry] /\ table' \in [Tables -> TableRow]
  BY CloseEntriesType, FreeOneSeatType DEF TypeInv, TypeOK, ApproveBuyOut, RejectBuyOut
<1> QED
  BY <1>2, <1>3 DEF TypeInv, TypeOK, ApproveBuyOut, RejectBuyOut

LEMMA TypeStep == TypeInv /\ [Next]_vars => TypeInv'
<1> SUFFICES ASSUME TypeInv, [Next]_vars PROVE TypeInv'
  OBVIOUS
<1>1. CASE Next
  BY <1>1, RowStepType, WaitlistStepType, SeatStepType, TableStepType,
     BuyOutStepType, RequestTxType DEF Next
<1>2. CASE UNCHANGED vars
  BY <1>2 DEF vars, TypeInv, TypeOK
<1> QED
  BY <1>1, <1>2

\* Types: rows, seats, parties and requests hold values of the right kind,
\* whatever the constants (waitlist_entries, tables and the handlers' locals).
THEOREM TypeCorrect == Spec => []TypeOK
<1>1. TypeInv => TypeOK
  BY DEF TypeInv
<1> QED
  BY TypeInit, TypeStep, <1>1, PTL DEF Spec
-----------------------------------------------------------------------------
(* Seats, with requests that overlap.  The two operations whose saves write *)
(* back the table or seat of a row read long ago are left out: with them   *)
(* the property fails (the run seating_stale_edit shows it for the edit).  *)

NoStaleSeatWrites == "updateWaitlistEntry" \notin Ops /\ "unseatPlayer" \notin Ops
NoStaleRequest == \A h \in Handlers : req[h].op \notin {"updateWaitlistEntry", "unseatPlayer"}

LEMMA NoStaleOps ==
  ASSUME NoStaleSeatWrites
  PROVE  (TypeInv => NoStaleRequest) /\ (TypeInv' => NoStaleRequest')
BY DEF NoStaleSeatWrites, NoStaleRequest, TypeInv, TypeOK, Request

\* An entry whose visit is over.
Gone(e) == entry[e].status \in {"CANCELLED", "DELETED"}

\* The only entity a save may still write is a cancelled one ...
Calm(r) ==
  /\ r.pc \notin {"loadEntry", "unseatTable"}
  /\ r.pc \in {"saveEntry", "writeEntry"} => r.ent.status = "CANCELLED"

\* ... and where the save would leave the status alone, because the row was
\* cancelled when save read it, the row is over for good.
StaleSafe ==
  \A h \in Handlers :
    /\ Calm(req[h])
    /\ req[h].pc = "writeEntry" /\ req[h].entBase.status = "CANCELLED" => Gone(req[h].e)

SeatInv == TypeInv /\ StaleSafe /\ SeatExclusive

\* What one step does to the entries.
Untouched(e) == entry'[e] = entry[e]
Over(e) == entry'[e].status \in {"CANCELLED", "DELETED"}
Joined(e) == entry[e].status = "UNUSED" /\ entry'[e].status = "PENDING"
Seated(e, t, s) ==
  /\ MaySeat(e, t, s)
  /\ entry' = [entry EXCEPT ![e] =
                 [@ EXCEPT !.status = "SEATED", !.table = t, !.seat = s]]

EntryEffect ==
  \/ \A e \in Entries : Untouched(e) \/ Over(e) \/ Joined(e)
  \/ \E e \in Entries, t \in Tables, s \in Seats \cup {NoSeat} : Seated(e, t, s)

\* What one step does to the requests.
RequestEffect ==
  \A h \in Handlers :
    \/ req'[h] = req[h]
    \/ /\ Calm(req'[h])
       /\ req'[h].pc = "writeEntry" =>
            /\ req'[h].e \in Entries
            /\ req'[h].entBase = entry'[req'[h].e]

LEMMA SaveEffect ==
  ASSUME TypeInv, StaleSafe, NEW h \in Handlers, WriteEntry(h)
  PROVE  EntryEffect
<1>1. req[h].e \in Entries /\ req[h].ent.status = "CANCELLED"
  BY RequestFacts DEF WriteEntry, At, Ready, StaleSafe, Calm
<1> DEFINE db == entry[req[h].e]
           base == req[h].entBase
           ent == req[h].ent
<1>2. entry' = [entry EXCEPT ![req[h].e] = SavedEntry(db, base, ent)]
  BY DEF WriteEntry
<1>3. base.status = "CANCELLED" => Gone(req[h].e)
  BY DEF WriteEntry, At, StaleSafe
<1>4. SavedEntry(db, base, ent) = db \/ SavedEntry(db, base, ent).status \in {"CANCELLED", "DELETED"}
  BY <1>1, <1>3 DEF SavedEntry, MergedEntry, Changed, Gone
<1>5. \A e \in Entries : Untouched(e) \/ Over(e)
  BY <1>1, <1>2, <1>4 DEF Untouched, Over, TypeInv, TypeOK
<1> QED
  BY <1>5 DEF EntryEffect

LEMMA SameEntries ==
  ASSUME UNCHANGED entry
  PROVE  EntryEffect
BY DEF EntryEffect, Untouched

LEMMA QuietRequest ==
  ASSUME TypeInv, NEW h \in Handlers, NEW r, Becomes(h, r), Calm(r),
         r.pc # "writeEntry"
  PROVE  RequestEffect
BY DEF RequestEffect, Becomes, TypeInv

LEMMA IdleCalm == Calm(Idle) /\ Idle.pc # "writeEntry"
BY DEF Calm, Idle

LEMMA CloseEffect ==
  ASSUME NEW S, CloseEntries(S), TypeInv
  PROVE  EntryEffect
<1>1. ASSUME NEW e \in Entries PROVE Untouched(e) \/ Over(e)
  <2>1. entry[e] \in WaitlistEntry
    BY DEF TypeInv, TypeOK
  <2> QED
    BY <2>1 DEF CloseEntries, Untouched, Over, ClosedOut, WaitlistEntry
<1> QED
  BY <1>1 DEF EntryEffect

LEMMA RowStepEffect ==
  ASSUME TypeInv, StaleSafe, NoStaleRequest, NEW h \in Handlers, RowStep(h)
  PROVE  EntryEffect /\ RequestEffect
<1>0. req[h] \in Request /\ Ready(req[h]) /\ Calm(req[h])
  BY RequestFacts DEF StaleSafe
<1>1. CASE SaveEntry(h)
  <2> DEFINE r == [req[h] EXCEPT !.pc = "writeEntry", !.entBase = entry[req[h].e]]
  <2>1. /\ r.pc = "writeEntry" /\ r.e = req[h].e /\ r.ent = req[h].ent
        /\ r.entBase = entry[req[h].e]
    BY <1>0 DEF Request
  <2>2. req[h].ent.status = "CANCELLED" /\ req[h].e \in Entries
    BY <1>0, <1>1 DEF SaveEntry, At, Calm, Ready
  <2>3. Calm(r)
    BY <2>1, <2>2 DEF Calm
  <2>4. RequestEffect
    BY <1>1, <2>1, <2>2, <2>3 DEF RequestEffect, SaveEntry, Becomes, TypeInv
  <2> QED
    BY <1>1, <2>4, SameEntries DEF SaveEntry
<1>2. CASE WriteEntry(h)
  BY <1>2, SaveEffect, QuietRequest, IdleCalm DEF WriteEntry, Done
<1>3. CASE SaveTable(h)
  <2> DEFINE r == [req[h] EXCEPT !.pc = "writeTable", !.tabBase = table[req[h].t]]
  <2>1. Calm(r) /\ r.pc # "writeEntry"
    BY <1>0 DEF Request, Calm
  <2> QED
    BY <1>3, <2>1, QuietRequest, SameEntries DEF SaveTable
<1>4. CASE WriteTable(h)
  <2>1. req[h].op # "unseatPlayer"
    BY DEF NoStaleRequest
  <2> DEFINE r == [req[h] EXCEPT !.pc = "loadTable"]
  <2>2. Calm(r) /\ r.pc # "writeEntry"
    BY <1>0 DEF Request, Calm
  <2> QED
    BY <1>4, <2>1, <2>2, QuietRequest, IdleCalm, SameEntries DEF WriteTable, Goto, Done, Becomes
<1>5. CASE LoadTable(h)
  <2> DEFINE r == [req[h] EXCEPT !.pc = "saveTable", !.todo = Tail(@),
                     !.tab = Patched(table[req[h].t], Head(req[h].todo))]
  <2>1. Calm(r) /\ r.pc # "writeEntry"
    BY <1>0 DEF Request, Calm
  <2> QED
    BY <1>5, <2>1, QuietRequest, IdleCalm, SameEntries DEF LoadTable, Done
<1>6. CASE Abandon(h)
  BY <1>6, QuietRequest, IdleCalm, SameEntries DEF Abandon, Done
<1> QED
  BY <1>1, <1>2, <1>3, <1>4, <1>5, <1>6 DEF RowStep

LEMMA WaitlistStepEffect ==
  ASSUME TypeInv, StaleSafe, NoStaleRequest', NEW h \in Handlers, WaitlistStep(h)
  PROVE  EntryEffect /\ RequestEffect
<1>0. req[h] \in Request /\ Ready(req[h]) /\ Calm(req[h])
  BY RequestFacts, SMTT(30) DEF StaleSafe
<1>1. ASSUME NEW p \in Players, CreateWaitlistEntry(h, p) \/ JoinWaitlist(h, p)
      PROVE  EntryEffect /\ RequestEffect
  <2>1. ASSUME NEW op, NEW pc \in {"insertEntry", "recheckPending"}
        PROVE  /\ Calm([Idle EXCEPT !.op = op, !.pc = pc, !.player = p])
               /\ [Idle EXCEPT !.op = op, !.pc = pc, !.player = p].pc # "writeEntry"
    BY DEF Idle, Calm
  <2> QED
    BY <1>1, <2>1, QuietRequest, SameEntries DEF CreateWaitlistEntry, JoinWaitlist
<1>2. CASE RecheckPending(h)
  <2> DEFINE r == [req[h] EXCEPT !.pc = "insertEntry"]
  <2>1. Calm(r) /\ r.pc # "writeEntry"
    BY <1>0 DEF Request, Calm
  <2> QED
    BY <1>2, <2>1, QuietRequest, IdleCalm, SameEntries DEF RecheckPending, Goto, Done, Becomes
<1>3. CASE InsertEntry(h)
  <2>1. PICK e \in Entries, n \in PartySizes, g \in Games :
          /\ Has(e, "UNUSED")
          /\ entry' = [entry EXCEPT ![e] =
            [status |-> "PENDING", player |-> req[h].player, party |-> n,
             game |-> g, table |-> NoTable, seat |-> NoSeat]]
    BY <1>3 DEF InsertEntry
  <2>2. \A f \in Entries : Untouched(f) \/ Joined(f)
    BY <2>1 DEF Untouched, Joined, Has, TypeInv, TypeOK
  <2> QED
    BY <1>3, <2>2, QuietRequest, IdleCalm DEF InsertEntry, Done, EntryEffect
<1>4. ASSUME NEW e \in Entries, UpdateWaitlistEntry(h, e) PROVE FALSE
  <2> DEFINE r == [Idle EXCEPT !.op = "updateWaitlistEntry", !.pc = "loadEntry", !.e = e]
  <2>1. Becomes(h, r) /\ r.op = "updateWaitlistEntry"
    BY <1>4 DEF UpdateWaitlistEntry, Idle
  <2> HIDE DEF r
  <2> QED
    BY <2>1 DEF Becomes, NoStaleRequest, TypeInv, TypeOK
<1>5. ASSUME NEW e \in Entries, CancelWaitlistEntry(h, e)
      PROVE  EntryEffect /\ RequestEffect
  <2> DEFINE ent == [entry[e] EXCEPT !.status = "CANCELLED"]
             r == [Idle EXCEPT !.op = "cancelWaitlistEntry", !.pc = "saveEntry",
                     !.e = e, !.ent = ent]
  <2>1. entry[e] \in WaitlistEntry
    BY DEF TypeInv, TypeOK
  <2>2. ent.status = "CANCELLED"
    BY <2>1 DEF WaitlistEntry
  <2> HIDE DEF ent
  <2>3. Calm(r) /\ r.pc # "writeEntry"
    BY <2>2 DEF Idle, Calm
  <2> QED
    BY <1>5, <2>3, QuietRequest, SameEntries DEF CancelWaitlistEntry, ent
<1>6. ASSUME NEW e \in Entries, DeleteWaitlistEntry(h, e)
      PROVE  EntryEffect /\ RequestEffect
  <2> DEFINE r == [Idle EXCEPT !.op = "deleteWaitlistEntry", !.pc = "removeEntry", !.e = e]
  <2>1. Calm(r) /\ r.pc # "writeEntry"
    BY DEF Idle, Calm
  <2> QED
    BY <1>6, <2>1, QuietRequest, SameEntries DEF DeleteWaitlistEntry
<1>7. CASE EditLoadedEntry(h)
  BY <1>0, <1>7 DEF EditLoadedEntry, At, Calm
<1>8. CASE RemoveEntry(h)
  <2>1. \A e \in Entries : Untouched(e) \/ Over(e)
    BY <1>8 DEF RemoveEntry, Untouched, Over, BlankEntry, TypeInv, TypeOK
  <2> QED
    BY <1>8, <2>1, QuietRequest, IdleCalm DEF RemoveEntry, Done, EntryEffect
<1> QED
  BY <1>1, <1>2, <1>3, <1>4, <1>5, <1>6, <1>7, <1>8 DEF WaitlistStep
LEMMA SeatStepEffect ==
  ASSUME TypeInv, StaleSafe, NoStaleRequest', NEW h \in Handlers, SeatStep(h)
  PROVE  EntryEffect /\ RequestEffect
<1>1. ASSUME NEW e \in Entries, NEW t \in Tables, AssignSeat(h, e, t)
      PROVE  EntryEffect /\ RequestEffect
  <2> DEFINE r == [Idle EXCEPT !.op = "assignSeat", !.pc = "seatTx", !.e = e, !.t = t]
  <2>1. Calm(r) /\ r.pc # "writeEntry"
    BY DEF Idle, Calm
  <2> QED
    BY <1>1, <2>1, QuietRequest, SameEntries DEF AssignSeat
<1>2. CASE SeatTx(h)
  <2>1. req[h].e \in Entries /\ req[h].t \in Tables
    BY <1>2, RequestFacts DEF SeatTx, At, Ready
  <2>2. EntryEffect
    BY <1>2, <2>1 DEF SeatTx, EntryEffect, Seated
  <2> QED
    BY <1>2, <2>2, QuietRequest, IdleCalm DEF SeatTx, Done
<1>3. CASE SeatTxRefused(h)
  BY <1>3, QuietRequest, IdleCalm, SameEntries DEF SeatTxRefused, Done
<1>4. ASSUME NEW e \in Entries, NEW requeue \in BOOLEAN, UnseatPlayer(h, e, requeue)
      PROVE  FALSE
  <2> DEFINE r == [Idle EXCEPT !.op = "unseatPlayer", !.pc = "unseatTable",
                     !.e = e, !.t = entry[e].table,
                     !.ent = [entry[e] EXCEPT !.table = NoTable,
                                !.status = IF requeue THEN "PENDING" ELSE "CANCELLED"]]
  <2>1. Becomes(h, r) /\ r.op = "unseatPlayer"
    BY <1>4 DEF UnseatPlayer, Idle
  <2> HIDE DEF r
  <2> QED
    BY <2>1 DEF Becomes, NoStaleRequest, TypeInv, TypeOK
<1>5. CASE UnseatTable(h)
  BY <1>5 DEF UnseatTable, At, StaleSafe, Calm
<1> QED
  BY <1>1, <1>2, <1>3, <1>4, <1>5 DEF SeatStep

LEMMA SessionEffect ==
  ASSUME TypeInv, NEW h \in Handlers, NEW t, NEW op, NEW patches, Session_(h, op, t, patches)
  PROVE  EntryEffect /\ RequestEffect
<1> DEFINE r == [Idle EXCEPT !.op = op, !.pc = "loadTable", !.t = t, !.todo = patches]
<1>1. Calm(r) /\ r.pc # "writeEntry"
  BY DEF Idle, Calm
<1> QED
  BY <1>1, QuietRequest, SameEntries DEF Session_

LEMMA TableStepEffect ==
  ASSUME TypeInv, NEW h \in Handlers, TableStep(h)
  PROVE  EntryEffect /\ RequestEffect
<1>1. ASSUME NEW t \in Tables, NEW op, NEW pc \in {"insertTable", "saveTable"}, NEW tab,
             Becomes(h, [Idle EXCEPT !.op = op, !.pc = pc, !.t = t, !.tab = tab]),
             UNCHANGED entry
      PROVE  EntryEffect /\ RequestEffect
  <2> DEFINE r == [Idle EXCEPT !.op = op, !.pc = pc, !.t = t, !.tab = tab]
  <2>1. Calm(r) /\ r.pc # "writeEntry"
    BY DEF Idle, Calm
  <2> QED
    BY <1>1, <2>1, QuietRequest, SameEntries
<1>2. ASSUME NEW t \in Tables, CreateTable(h, t) \/ UpdateTable(h, t)
      PROVE  EntryEffect /\ RequestEffect
  BY <1>1, <1>2 DEF CreateTable, UpdateTable
<1>3. ASSUME NEW t \in Tables, DeleteTable(h, t)
      PROVE  EntryEffect /\ RequestEffect
  <2> DEFINE r == [Idle EXCEPT !.op = "deleteTable", !.pc = "removeTable", !.t = t]
  <2>1. Calm(r) /\ r.pc # "writeEntry"
    BY DEF Idle, Calm
  <2> QED
    BY <1>3, <2>1, QuietRequest, SameEntries DEF DeleteTable
<1>4. ASSUME NEW t \in Tables,
             \/ PauseSession(h, t) \/ ResumeSession(h, t)
             \/ EndSession(h, t) \/ UpdateSessionParams(h, t)
      PROVE  EntryEffect /\ RequestEffect
  BY <1>4, SessionEffect DEF PauseSession, ResumeSession, EndSession, UpdateSessionParams
<1>5. CASE InsertTable(h) \/ RemoveTable(h)
  BY <1>5, QuietRequest, IdleCalm, SameEntries DEF InsertTable, RemoveTable, Done
<1> QED
  BY <1>2, <1>3, <1>4, <1>5 DEF TableStep

LEMMA BuyOutStepEffect ==
  ASSUME TypeInv, NEW h \in Handlers, BuyOutStep(h)
  PROVE  EntryEffect /\ RequestEffect
<1>1. ASSUME NEW op, NEW pc \in {"insertCall", "manualTx"}, NEW p, NEW t,
             Becomes(h, [Idle EXCEPT !.op = op, !.pc = pc, !.player = p, !.t = t]),
             UNCHANGED entry
      PROVE  EntryEffect /\ RequestEffect
  <2> DEFINE r == [Idle EXCEPT !.op = op, !.pc = pc, !.player = p, !.t = t]
  <2>1. Calm(r) /\ r.pc # "writeEntry"
    BY DEF Idle, Calm
  <2> QED
    BY <1>1, <2>1, QuietRequest, SameEntries
<1>2. ASSUME NEW e \in Entries, StartCallTime(h, e)
      PROVE  EntryEffect /\ RequestEffect
  BY <1>1, <1>2 DEF StartCallTime
<1>3. ASSUME NEW p \in Players, NEW t \in Tables, ManualBuyOut(h, p, t)
      PROVE  EntryEffect /\ RequestEffect
  BY <1>1, <1>3 DEF ManualBuyOut
<1>4. CASE InsertCall(h)
  BY <1>4, QuietRequest, IdleCalm, SameEntries DEF InsertCall, Done
<1>5. CASE ManualTx(h)
  BY <1>5, QuietRequest, IdleCalm, CloseEffect DEF ManualTx, Done
<1>6. ASSUME NEW t \in Tables, SettleAndEnd(h, t)
      PROVE  EntryEffect /\ RequestEffect
  <2> DEFINE r == [Idle EXCEPT !.op = "settleAndEnd", !.pc = "settleTx", !.t = t]
  <2>1. Calm(r) /\ r.pc # "writeEntry"
    BY DEF Idle, Calm
  <2> QED
    BY <1>6, <2>1, QuietRequest, SameEntries DEF SettleAndEnd
<1>7. CASE SettleTx(h)
  <2> DEFINE r == [req[h] EXCEPT !.pc = "loadTable", !.todo = <<"CLOSED", "ended">>]
  <2>1. Calm(r) /\ r.pc # "writeEntry"
    BY RequestFacts DEF Request, Calm
  <2> QED
    BY <1>7, <2>1, QuietRequest, CloseEffect DEF SettleTx
<1> QED
  BY <1>2, <1>3, <1>4, <1>5, <1>6, <1>7 DEF BuyOutStep

LEMMA RequestTxEffect ==
  ASSUME TypeInv, NEW p \in Players, NEW t \in Tables,
         ApproveBuyOut(p, t) \/ RejectBuyOut(p, t)
  PROVE  EntryEffect /\ RequestEffect
BY CloseEffect, SameEntries DEF ApproveBuyOut, RejectBuyOut, RequestEffect

LEMMA StepEffect ==
  ASSUME TypeInv, StaleSafe, NoStaleRequest, NoStaleRequest', [Next]_vars
  PROVE  EntryEffect /\ RequestEffect
<1>1. CASE Next
  BY <1>1, RowStepEffect, WaitlistStepEffect, SeatStepEffect, TableStepEffect,
     BuyOutStepEffect, RequestTxEffect DEF Next
<1>2. CASE UNCHANGED vars
  BY <1>2 DEF vars, EntryEffect, Untouched, RequestEffect
<1> QED
  BY <1>1, <1>2

\* An entry that is over stays over.
LEMMA GoneStays ==
  ASSUME TypeInv, EntryEffect, NEW e \in Entries, Gone(e)
  PROVE  Over(e)
<1>1. ASSUME NEW f \in Entries, NEW t \in Tables, NEW s \in Seats \cup {NoSeat}, Seated(f, t, s)
      PROVE  Over(e)
  BY <1>1 DEF Gone, Over, Seated, MaySeat, TypeInv, TypeOK, NoRow
<1>2. CASE \A f \in Entries : Untouched(f) \/ Over(f) \/ Joined(f)
  BY <1>2 DEF Gone, Over, Untouched, Joined
<1> QED
  BY <1>1, <1>2 DEF EntryEffect

LEMMA StaleSafeStep ==
  ASSUME TypeInv, TypeInv', StaleSafe, EntryEffect, RequestEffect
  PROVE  StaleSafe'
<1> SUFFICES ASSUME NEW h \in Handlers
             PROVE  /\ Calm(req'[h])
                    /\ req'[h].pc = "writeEntry" /\ req'[h].entBase.status = "CANCELLED"
                         => Over(req'[h].e)
  BY DEF StaleSafe, Gone, Over, Calm
<1>1. CASE req'[h] = req[h]
  <2>1. req[h].pc = "writeEntry" => req[h].e \in Entries
    BY RequestFacts DEF Ready
  <2> QED
    BY <1>1, <2>1, GoneStays DEF StaleSafe
<1>2. CASE /\ Calm(req'[h])
           /\ req'[h].pc = "writeEntry" =>
                /\ req'[h].e \in Entries
                /\ req'[h].entBase = entry'[req'[h].e]
  BY <1>2 DEF Over
<1> QED
  BY <1>1, <1>2 DEF RequestEffect

\* Nobody sits down, and a visit that was cancelled stays so.
Recedes(e) ==
  /\ entry'[e].status = "SEATED" =>
       entry[e].status = "SEATED" /\ entry'[e].table = entry[e].table /\ entry'[e].seat = entry[e].seat
  /\ entry[e].status = "CANCELLED" => Over(e)

SeatEffect ==
  \/ \A e \in Entries : Recedes(e)
  \/ \E e \in Entries, t \in Tables, s \in Seats \cup {NoSeat} : Seated(e, t, s)

LEMMA EntriesRecede == EntryEffect => SeatEffect
BY DEF EntryEffect, SeatEffect, Recedes, Untouched, Over, Joined

LEMMA CancelledStays ==
  ASSUME TypeInv, SeatEffect, NEW e \in Entries, Has(e, "CANCELLED")
  PROVE  entry'[e].status \in {"CANCELLED", "DELETED"}
<1>1. ASSUME NEW f \in Entries, NEW t \in Tables, NEW s \in Seats \cup {NoSeat}, Seated(f, t, s)
      PROVE  Over(e)
  BY <1>1 DEF Has, Over, Seated, MaySeat, TypeInv, TypeOK
<1>2. ASSUME Recedes(e) PROVE Over(e)
  BY <1>2 DEF Recedes, Has
<1> QED
  BY <1>1, <1>2 DEF SeatEffect, Over

LEMMA SeatExclusiveStep ==
  ASSUME TypeInv, SeatExclusive, SeatEffect
  PROVE  SeatExclusive'
<1>1. CASE \A e \in Entries : Recedes(e)
  BY <1>1 DEF SeatExclusive, Recedes, Has
<1>2. ASSUME NEW e \in Entries, NEW t \in Tables, NEW s \in Seats \cup {NoSeat}, Seated(e, t, s)
      PROVE  SeatExclusive'
  <2>1. /\ entry'[e] = [entry[e] EXCEPT !.status = "SEATED", !.table = t, !.seat = s]
        /\ \A f \in Entries \ {e} : entry'[f] = entry[f]
        /\ entry[e] \in WaitlistEntry
    BY <1>2 DEF Seated, TypeInv, TypeOK
  <2>2. entry'[e].table = t /\ entry'[e].seat = s
    BY <2>1 DEF WaitlistEntry
  <2>3. \A f \in Entries \ {e} :
          Has(f, "SEATED") /\ entry[f].table = t /\ s # NoSeat => entry[f].seat # s
    BY <1>2 DEF Seated, MaySeat, SeatTaken, SeatedAt
  <2>4. ASSUME NEW f \in Entries \ {e}, entry'[f].status = "SEATED",
               entry'[f].table = entry'[e].table, entry'[e].seat # NoSeat
        PROVE  entry'[f].seat # entry'[e].seat
    BY <2>1, <2>2, <2>3, <2>4 DEF Has
  <2>5. ASSUME NEW f \in Entries \ {e}, NEW g \in Entries \ {e}, f # g,
               entry'[f].status = "SEATED", entry'[g].status = "SEATED",
               entry'[f].table = entry'[g].table, entry'[f].seat # NoSeat
        PROVE  entry'[f].seat # entry'[g].seat
    BY <2>1, <2>5 DEF SeatExclusive, Has
  <2> QED
    BY <2>4, <2>5 DEF SeatExclusive, Has
<1> QED
  BY <1>1, <1>2 DEF SeatEffect

LEMMA SeatInit == Init => SeatInv
BY TypeInit DEF Init, SeatInv, StaleSafe, Calm, Idle, SeatExclusive, Has, BlankEntry

LEMMA SeatStepInv ==
  ASSUME NoStaleSeatWrites
  PROVE  SeatInv /\ [Next]_vars => SeatInv' /\ EntryEffect /\ SeatEffect
BY TypeStep, NoStaleOps, StepEffect, EntriesRecede, StaleSafeStep, SeatExclusiveStep DEF SeatInv

\* Two entries never hold one seat of one table.
THEOREM SeatsAreExclusive ==
  ASSUME NoStaleSeatWrites
  PROVE  Spec => []SeatExclusive
<1>1. SeatInv /\ [Next]_vars => SeatInv'
  BY SeatStepInv
<1>2. SeatInv => SeatExclusive
  BY DEF SeatInv
<1> QED
  BY SeatInit, <1>1, <1>2, PTL DEF Spec

\* A cancelled entry can only be deleted, however late a save writes it.
THEOREM CancelledStaysCancelled ==
  ASSUME NoStaleSeatWrites
  PROVE  Spec => CancelledIsFinal
<1>1. SeatInv /\ [Next]_vars => SeatInv'
  BY SeatStepInv
<1>2. SeatInv /\ [Next]_vars
        => [\A e \in Entries : Has(e, "CANCELLED")
              => entry'[e].status \in {"CANCELLED", "DELETED"}]_vars
  BY SeatStepInv, CancelledStays DEF SeatInv
<1> QED
  BY SeatInit, <1>1, <1>2, PTL DEF Spec, CancelledIsFinal

-----------------------------------------------------------------------------
(* The refinement.                                                         *)

\* An entry sits on a numbered seat.
Sits(e, t, s) == Has(e, "SEATED") /\ entry[e].table = t /\ entry[e].seat = s

\* The holder of a seat is the entry that sits on it, if one does.
HolderFacts ==
  \A t \in Tables, s \in Seats :
    /\ \A e \in Entries : Sits(e, t, s) => HolderOf(t, s) = e
    /\ HolderOf(t, s) # NoEntry
         => HolderOf(t, s) \in Entries /\ Sits(HolderOf(t, s), t, s)

LEMMA HolderSits == SeatExclusive => HolderFacts
<1> SUFFICES ASSUME SeatExclusive, NEW t \in Tables, NEW s \in Seats
             PROVE  /\ \A e \in Entries : Sits(e, t, s) => HolderOf(t, s) = e
                    /\ HolderOf(t, s) # NoEntry
                         => HolderOf(t, s) \in Entries /\ Sits(HolderOf(t, s), t, s)
  BY DEF HolderFacts
<1>1. s # NoSeat
  BY SeatingAssumption DEF SeatingAssumption
<1>2. ASSUME NEW e \in Entries, Sits(e, t, s)
      PROVE  HolderOf(t, s) \in SeatedAt(t) /\ entry[HolderOf(t, s)].seat = s
  BY <1>2 DEF Sits, HolderOf, SeatedAt
<1>3. ASSUME NEW e \in Entries, Sits(e, t, s) PROVE HolderOf(t, s) = e
  <2>1. HolderOf(t, s) \in Entries /\ Sits(HolderOf(t, s), t, s)
    BY <1>2, <1>3 DEF Sits, SeatedAt
  <2> QED
    BY <1>1, <1>3, <2>1 DEF SeatExclusive, Sits
<1>4. ASSUME HolderOf(t, s) # NoEntry
      PROVE  HolderOf(t, s) \in Entries /\ Sits(HolderOf(t, s), t, s)
  <2>1. PICK e \in SeatedAt(t) : entry[e].seat = s
    BY <1>4 DEF HolderOf
  <2>2. e \in Entries /\ Sits(e, t, s)
    BY <2>1 DEF Sits, SeatedAt
  <2> QED
    BY <1>3, <2>2
<1> QED
  BY <1>3, <1>4

Holder == [ts \in Tables \X Seats |-> HolderOf(ts[1], ts[2])]

\* A step after which nobody newly sits only frees seats.
LEMMA LeaveStep ==
  ASSUME HolderFacts, HolderFacts',
         \A e \in Entries : Recedes(e)
  PROVE  Abstract!Next
<1> DEFINE gone == {ts \in Tables \X Seats : HolderOf(ts[1], ts[2])' = NoEntry}
<1>1. ASSUME NEW t \in Tables, NEW s \in Seats, HolderOf(t, s)' # NoEntry
      PROVE  HolderOf(t, s)' = HolderOf(t, s)
  <2>1. PICK e \in Entries : e = HolderOf(t, s)' /\ Sits(e, t, s)'
    BY <1>1 DEF HolderFacts
  <2>2. Sits(e, t, s)
    BY <2>1 DEF Sits, Has, Recedes
  <2> QED
    BY <2>1, <2>2 DEF HolderFacts
<1>2. Holder' = [ts \in Tables \X Seats |-> IF ts \in gone THEN NoEntry ELSE Holder[ts]]
  BY <1>1 DEF Holder
<1>3. Abstract!Leave(gone)
  BY <1>2 DEF Abstract!Leave, Holder
<1> QED
  BY <1>3 DEF Abstract!Next

\* Seating on a numbered seat takes that seat; without a number, no seat.
LEMMA TakeStep ==
  ASSUME TypeInv, HolderFacts, HolderFacts',
         NEW e \in Entries, NEW t \in Tables, NEW s \in Seats \cup {NoSeat}, Seated(e, t, s)
  PROVE  Abstract!Next \/ UNCHANGED Holder
<1>1. /\ entry'[e] = [entry[e] EXCEPT !.status = "SEATED", !.table = t, !.seat = s]
      /\ \A f \in Entries \ {e} : entry'[f] = entry[f]
      /\ entry[e] \in WaitlistEntry
  BY DEF Seated, TypeInv, TypeOK
<1>2. entry'[e].table = t /\ entry'[e].seat = s /\ entry'[e].status = "SEATED"
  BY <1>1 DEF WaitlistEntry
<1>3. entry[e].status # "SEATED"
  BY DEF Seated, MaySeat
<1>4. ASSUME NEW u \in Tables, NEW z \in Seats, u # t \/ z # s
      PROVE  HolderOf(u, z)' = HolderOf(u, z)
  <2>1. \A f \in Entries : Sits(f, u, z)' <=> Sits(f, u, z)
    BY <1>1, <1>2, <1>3, <1>4 DEF Sits, Has
  <2>2. CASE \E f \in Entries : Sits(f, u, z)
    BY <2>1, <2>2 DEF HolderFacts
  <2>3. CASE ~ \E f \in Entries : Sits(f, u, z)
    BY <2>1, <2>3 DEF HolderFacts
  <2> QED
    BY <2>2, <2>3
<1>5. CASE s = NoSeat
  <2>1. \A u \in Tables, z \in Seats : HolderOf(u, z)' = HolderOf(u, z)
    BY <1>4, <1>5, SeatingAssumption DEF SeatingAssumption
  <2> QED
    BY <2>1 DEF Holder
<1>6. CASE s \in Seats
  <2>1. HolderOf(t, s) = NoEntry
    <3>1. \A f \in Entries : ~Sits(f, t, s)
      BY <1>3, <1>6, SeatingAssumption
      DEF Seated, MaySeat, SeatTaken, SeatedAt, Sits, Has, SeatingAssumption
    <3> QED
      BY <1>6, <3>1 DEF HolderFacts
  <2>2. \A u \in Tables, z \in Seats : HolderOf(u, z) # e
    BY <1>3, SeatingAssumption DEF HolderFacts, Sits, Has, SeatingAssumption
  <2>3. HolderOf(t, s)' = e
    BY <1>2, <1>6 DEF HolderFacts, Sits, Has
  <2>4. Holder' = [Holder EXCEPT ![<<t, s>>] = e]
    <3>1. ASSUME NEW ts \in Tables \X Seats
          PROVE  HolderOf(ts[1], ts[2])' = IF ts = <<t, s>> THEN e ELSE Holder[ts]
      <4>1. ts = <<ts[1], ts[2]>> /\ ts[1] \in Tables /\ ts[2] \in Seats
        OBVIOUS
      <4>2. CASE ts = <<t, s>>
        BY <2>3, <4>2
      <4>3. CASE ts # <<t, s>>
        <5>1. ts[1] # t \/ ts[2] # s
          BY <4>1, <4>3
        <5>2. HolderOf(ts[1], ts[2])' = HolderOf(ts[1], ts[2])
          BY <1>4, <4>1, <5>1
        <5> QED
          BY <4>3, <5>2 DEF Holder
      <4> QED
        BY <4>2, <4>3
    <3>2. Holder' = [ts \in Tables \X Seats |-> HolderOf(ts[1], ts[2])']
      BY DEF Holder
    <3>3. Holder = [ts \in Tables \X Seats |-> Holder[ts]]
      BY DEF Holder
    <3> HIDE DEF Holder
    <3> QED
      BY <1>6, <3>1, <3>2, <3>3
  <2>5. Holder[<<t, s>>] = NoEntry /\ \A ts \in Tables \X Seats : Holder[ts] # e
    BY <1>6, <2>1, <2>2 DEF Holder
  <2>6. Abstract!Take(t, s, e)
    BY <2>4, <2>5 DEF Abstract!Take, Holder
  <2> QED
    BY <1>6, <2>6 DEF Abstract!Next
<1> QED
  BY <1>5, <1>6

LEMMA MapInit == Init => Abstract!Init
BY DEF Init, Abstract!Init, HolderOf, SeatedAt, Has, BlankEntry

LEMMA MapStep ==
  ASSUME TypeInv, SeatExclusive, SeatExclusive', SeatEffect
  PROVE  [Abstract!Next]_[ts \in Tables \X Seats |-> HolderOf(ts[1], ts[2])]
<1>1. HolderFacts
  BY HolderSits
<1>2. HolderFacts'
  <2>1. (SeatExclusive => HolderFacts)'
    BY HolderSits, PTL
  <2> QED
    BY <2>1
<1>3. Abstract!Next \/ UNCHANGED Holder
  BY <1>1, <1>2, LeaveStep, TakeStep DEF SeatEffect
<1> QED
  BY <1>3 DEF Holder

\* Seating implements the seat map: a numbered seat passes from one entry to
\* another only by being freed in between, and an entry holds one seat.
THEOREM SeatMapImplemented ==
  ASSUME NoStaleSeatWrites
  PROVE  Spec => ImplementsSeatMap
<1>1. SeatInv /\ [Next]_vars => SeatInv'
  BY SeatStepInv
<1>2. SeatInv /\ SeatInv' /\ [Next]_vars
        => [Abstract!Next]_[ts \in Tables \X Seats |-> HolderOf(ts[1], ts[2])]
  BY SeatStepInv, MapStep DEF SeatInv
<1> QED
  BY SeatInit, MapInit, <1>1, <1>2, PTL DEF Spec, ImplementsSeatMap, Abstract!Spec
-----------------------------------------------------------------------------
(* The people at a table.                                                  *)

PartyOf == [e \in Entries |-> entry[e].party]

\* The people at a table are the sum of their parties.
LEMMA PeopleAdded ==
  ASSUME IsFiniteSet(Entries), \A e \in Entries : entry[e].party \in Int, NEW t
  PROVE  PeopleAt(t) = Total(PartyOf, SeatedAt(t))
<1> DEFINE T == SeatedAt(t)
           Adds(h) == h = [s \in SUBSET T |->
                             IF s = {} THEN 0 ELSE entry[Pick(s)].party + h[s \ {Pick(s)}]]
<1>1. IsFiniteSet(T) /\ \A e \in T : PartyOf[e] = entry[e].party /\ PartyOf[e] \in Int
  BY FS_Subset DEF SeatedAt, PartyOf
<1> HIDE DEF T
<1>2. PICK g : g[T] = Total(PartyOf, T) /\ \A h : AddsUp(h, PartyOf, T) <=> h = g
  BY <1>1, SumSolved
<1>3. \A h : Adds(h) <=> h = g
  <2>1. \A s \in SUBSET T : s # {} => PartyOf[Pick(s)] = entry[Pick(s)].party
    BY <1>1, PickIn
  <2>2. \A h : Adds(h) <=> AddsUp(h, PartyOf, T)
    BY <2>1 DEF AddsUp
  <2> HIDE DEF Adds
  <2> QED
    BY <1>2, <2>2
<1>4. MapThenSumSet(LAMBDA e : entry[e].party, T) = g[T]
  BY <1>3, Zenon DEF MapThenSumSet, MapThenFoldSet, Pick
<1> QED
  BY <1>2, <1>4 DEF PeopleAt, T

-----------------------------------------------------------------------------
(* Requests taken in turn.                                                 *)

Live(e) == entry[e].status \in {"PENDING", "SEATED"}

\* unseatPlayer has saved the table, and not yet the entry.
Leaves(r) == r.op = "unseatPlayer" /\ r.pc \in {"saveEntry", "writeEntry"}
Leaver == {req[h].e : h \in {g \in Handlers : Leaves(req[g])}}
StillAt(t) == SeatedAt(t) \ Leaver

\* Every player waits or sits once, with somebody in his party; who sits, sits
\* at a table; and its counter is the number of people there.
Once ==
  /\ \A e, f \in Entries : Live(e) /\ Live(f) /\ e # f => entry[e].player # entry[f].player
  /\ \A e \in Entries : Live(e) => entry[e].party # 0
Rooms ==
  \A e \in Entries : Has(e, "SEATED") =>
    entry[e].table \in Tables /\ Exists(entry[e].table)
Counted ==
  \A t \in Tables : /\ table[t].cur = Total(PartyOf, StillAt(t))
                    /\ Exists(t) => Total(PartyOf, SeatedAt(t)) <= table[t].max

\* What a request has read is still so when it writes.
EntryPromise(r) ==
  /\ r.pc \in {"recheckPending", "insertEntry"} =>
       \A e \in Entries : Live(e) => entry[e].player # r.player
  /\ r.pc = "loadEntry" => Has(r.e, "PENDING") /\ r.op # "unseatPlayer"
  /\ r.pc = "removeEntry" => ~Has(r.e, "SEATED")
  /\ r.pc = "unseatTable" => r.op = "unseatPlayer"
  /\ r.pc \in {"saveEntry", "writeEntry"} \/ r.op = "unseatPlayer" =>
       /\ r.ent.player = entry[r.e].player /\ r.ent.status \in {"PENDING", "CANCELLED"}
       /\ r.ent.party # 0
       /\ IF r.op = "unseatPlayer"
          THEN Has(r.e, "SEATED") /\ entry[r.e].table = r.t /\ r.ent.party = entry[r.e].party
          ELSE Has(r.e, "PENDING")
  /\ r.pc = "writeEntry" => r.entBase = entry[r.e]

\* What the session endpoints write, but for the one that ends the session.
PatchesOf(op) ==
  IF op = "updateSessionParams" THEN {"ended"} ELSE {"AVAILABLE", "running", "paused"}

TablePromise(r) ==
  /\ r.pc \in {"saveTable", "writeTable"} =>
       /\ Exists(r.t) /\ r.tab.status \in TableStatus
       /\ IF r.op = "unseatPlayer"
          THEN /\ r.tab.cur = table[r.t].cur - r.ent.party /\ r.tab.max = table[r.t].max
               /\ r.tab.session = table[r.t].session
          ELSE /\ r.tab.cur = table[r.t].cur
               /\ \/ r.op \in NotesEditors \/ SeatedAt(r.t) = {}
                  \/ r.tab.session \in {"running", "paused", table[r.t].session}
               /\ r.tab.max = table[r.t].max \/ r.tab.max >= table[r.t].cur
  /\ r.pc = "writeTable" => r.tabBase = table[r.t]
  /\ r.pc = "loadTable" => r.op # "unseatPlayer"
  /\ r.pc = "insertTable" => r.tab.cur = 0
  /\ r.pc = "removeTable" => SeatedAt(r.t) = {}
  /\ IF r.op = "endSession" THEN SeatedAt(r.t) = {}
     ELSE r.todo \in Seq(PatchesOf(r.op))

Kept(r) == EntryPromise(r) /\ TablePromise(r)

TurnInv ==
  /\ \A h \in Handlers : At(h, "idle") => req[h] = Idle
  /\ \A g, h \in Handlers : ~At(g, "idle") /\ ~At(h, "idle") => g = h
  /\ Once /\ Rooms /\ Counted
  /\ \A h \in Handlers : Kept(req[h])

\* The operations of requests taken in turn.
TurnOps == {"joinWaitlist", "updateWaitlistEntry", "cancelWaitlistEntry", "deleteWaitlistEntry",
            "assignSeat", "unseatPlayer", "createTable", "updateTable", "deleteTable",
            "pauseSession", "resumeSession", "endSession", "updateSessionParams", "none"}

\* The only request under way, before and after its step.
Alone(h) ==
  /\ TypeInv /\ TypeInv' /\ TurnInv /\ IsFiniteSet(Entries)
  /\ req'[h].op \in TurnOps
  /\ \A g \in Handlers \ {h} : req[g] = Idle

LEMMA IdleKept == Kept(Idle) /\ Idle.pc = "idle" /\ ~Leaves(Idle)
<1>1. Idle.pc = "idle" /\ Idle.op = "none" /\ Idle.todo = <<>>
  BY DEF Idle
<1>2. <<>> \in Seq(PatchesOf(Idle.op))
  OBVIOUS
<1> QED
  BY <1>1, <1>2 DEF Kept, EntryPromise, TablePromise, Leaves

LEMMA IdleKeptNext == Kept(Idle)'
<1>1. Idle.pc = "idle" /\ Idle.op = "none" /\ Idle.todo = <<>>
  BY DEF Idle
<1>2. <<>> \in Seq(PatchesOf(Idle.op))
  OBVIOUS
<1> QED
  BY <1>1, <1>2 DEF Kept, EntryPromise, TablePromise

LEMMA LeaverIs ==
  ASSUME NEW h \in Handlers, \A g \in Handlers \ {h} : ~Leaves(req[g])
  PROVE  Leaver = IF Leaves(req[h]) THEN {req[h].e} ELSE {}
BY DEF Leaver

LEMMA OthersIdle ==
  ASSUME NEW h \in Handlers, Alone(h), NEW r, Becomes(h, r)
  PROVE  req'[h] = r /\ \A g \in Handlers \ {h} : req'[g] = Idle /\ req[g] = Idle
<1>1. req \in [Handlers -> Request] /\ \A g \in Handlers \ {h} : req[g] = Idle
  BY DEF Alone, TypeInv, TypeOK
<1> QED
  BY <1>1 DEF Becomes

\* What the step of a request alone must show.
LEMMA AloneStep ==
  ASSUME NEW h \in Handlers, Alone(h), NEW r, Becomes(h, r),
         r.pc = "idle" => r = Idle, Once', Rooms', Counted', Kept(r)'
  PROVE  TurnInv'
<1>1. req'[h] = r /\ \A g \in Handlers \ {h} : req'[g] = Idle
  BY OthersIdle
<1>2. ASSUME NEW g \in Handlers
      PROVE  Kept(req[g])'
  <2>1. CASE g = h
    <3>1. req'[g] = r
      BY <1>1, <2>1
    <3> QED
      BY <3>1 DEF Kept, EntryPromise, TablePromise
  <2>2. CASE g # h
    <3>1. req'[g] = Idle
      BY <1>1, <2>2
    <3> QED
      BY <3>1, IdleKeptNext DEF Kept, EntryPromise, TablePromise
  <2> QED
    BY <2>1, <2>2
<1>3. \A g \in Handlers : At(g, "idle")' => req'[g] = Idle
  BY <1>1 DEF At
<1>4. \A f, g \in Handlers : ~At(f, "idle")' /\ ~At(g, "idle")' => f = g
  BY <1>1, IdleKept DEF At
<1> QED
  BY <1>2, <1>3, <1>4 DEF TurnInv

LEMMA LeaverBefore ==
  ASSUME NEW h \in Handlers, Alone(h)
  PROVE  Leaver = IF Leaves(req[h]) THEN {req[h].e} ELSE {}
<1>1. \A g \in Handlers \ {h} : ~Leaves(req[g])
  BY IdleKept DEF Alone
<1> QED
  BY <1>1, LeaverIs

LEMMA LeaverAfter ==
  ASSUME NEW h \in Handlers, Alone(h), NEW r, Becomes(h, r)
  PROVE  Leaver' = IF Leaves(r) THEN {r.e} ELSE {}
<1>1. req'[h] = r /\ \A g \in Handlers \ {h} : req'[g] = Idle
  BY OthersIdle
<1>2. \A g \in Handlers \ {h} : ~Leaves(req'[g])
  BY <1>1, IdleKept
<1> QED
  BY <1>1, <1>2 DEF Leaver

\* A step that reads, or begins.
LEMMA ReadsAlone ==
  ASSUME NEW h \in Handlers, Alone(h), NEW r, Becomes(h, r),
         UNCHANGED <<entry, table, calls>>,
         r.pc = "idle" => r = Idle,
         Leaves(r) <=> Leaves(req[h]), Leaves(r) => r.e = req[h].e, Kept(r)
  PROVE  TurnInv'
<1>1. Leaver' = Leaver
  BY LeaverBefore, LeaverAfter
<1>2. Once' /\ Rooms'
  <2>1. Once /\ Rooms
    BY DEF Alone, TurnInv
  <2> QED
    BY <2>1 DEF Once, Rooms, Live, Has, Exists
<1>3. PartyOf' = PartyOf /\ \A t \in Tables : SeatedAt(t)' = SeatedAt(t) /\ StillAt(t)' = StillAt(t)
  BY <1>1 DEF PartyOf, SeatedAt, StillAt, Has
<1>4. Counted'
  <2>1. Counted
    BY DEF Alone, TurnInv
  <2> QED
    BY <1>3, <2>1 DEF Counted, Exists
<1>5. Kept(r)'
  BY DEF Kept, EntryPromise, TablePromise, Live, Has, Exists, SeatedAt
<1> QED
  BY <1>2, <1>4, <1>5, AloneStep

LEMMA KeptNow ==
  ASSUME NEW h \in Handlers, Alone(h)
  PROVE  /\ Kept(req[h]) /\ req[h] \in Request /\ Ready(req[h])
         /\ Once /\ Rooms /\ Counted
         /\ entry \in [Entries -> WaitlistEntry] /\ table \in [Tables -> TableRow]
         /\ entry' \in [Entries -> WaitlistEntry] /\ table' \in [Tables -> TableRow]
<1>1. TypeInv /\ TypeInv' /\ TurnInv
  BY DEF Alone
<1> QED
  BY <1>1, RequestFacts DEF TurnInv, TypeInv, TypeOK

LEMMA BeginsAlone ==
  ASSUME NEW h \in Handlers, Alone(h), NEW r, Becomes(h, r), UNCHANGED <<entry, table, calls>>,
         At(h, "idle"), r.pc # "idle", ~Leaves(r), Kept(r)
  PROVE  TurnInv'
<1>1. ~Leaves(req[h])
  BY DEF Leaves, At
<1> QED
  BY <1>1, ReadsAlone

LEMMA EmptyTodo == \A op : <<>> \in Seq(PatchesOf(op))
OBVIOUS

LEMMA JoinAlone ==
  ASSUME NEW h \in Handlers, Alone(h), NEW p \in Players, JoinWaitlist(h, p)
  PROVE  TurnInv'
<1> DEFINE r == [Idle EXCEPT !.op = "joinWaitlist", !.pc = "recheckPending", !.player = p]
<1>1. Becomes(h, r) /\ UNCHANGED <<entry, table, calls>> /\ At(h, "idle")
      /\ EntriesOf(p, "PENDING") \cup EntriesOf(p, "SEATED") = {}
  BY DEF JoinWaitlist, Free, At
<1>2. r.op = "joinWaitlist" /\ r.pc = "recheckPending" /\ r.player = p /\ r.todo = <<>>
  BY DEF Idle
<1> HIDE DEF r
<1>3. \A e \in Entries : Live(e) => entry[e].player # p
  BY <1>1 DEF EntriesOf, Has, Live
<1>4. Kept(r)
  BY <1>2, <1>3, EmptyTodo DEF Kept, EntryPromise, TablePromise
<1> QED
  BY <1>1, <1>2, <1>4, BeginsAlone DEF Leaves

LEMMA RecheckAlone ==
  ASSUME NEW h \in Handlers, Alone(h), RecheckPending(h)
  PROVE  TurnInv'
<1> DEFINE r == [req[h] EXCEPT !.pc = "insertEntry"]
<1>1. /\ At(h, "recheckPending") /\ UNCHANGED <<entry, table, calls>>
      /\ Becomes(h, r) \/ Becomes(h, Idle)
  BY DEF RecheckPending, Goto, Done, Becomes
<1>2. r.pc = "insertEntry" /\ r.op = req[h].op /\ r.player = req[h].player /\ r.todo = req[h].todo
      /\ r.t = req[h].t /\ r.e = req[h].e /\ r.ent = req[h].ent
  BY KeptNow DEF Request
<1> HIDE DEF r
<1>3. EntryPromise(r)
  <2>1. EntryPromise(req[h])
    BY KeptNow DEF Kept
  <2> QED
    BY <1>1, <1>2, <2>1 DEF At, EntryPromise
<1>4. TablePromise(r)
  BY <1>2, KeptNow DEF Kept, TablePromise
<1> QED
  BY <1>1, <1>2, <1>3, <1>4, ReadsAlone, IdleKept DEF Leaves, At, Kept

LEMMA UpdateAlone ==
  ASSUME NEW h \in Handlers, Alone(h), NEW e \in Entries, UpdateWaitlistEntry(h, e)
  PROVE  TurnInv'
<1> DEFINE r == [Idle EXCEPT !.op = "updateWaitlistEntry", !.pc = "loadEntry", !.e = e]
<1>1. Becomes(h, r) /\ UNCHANGED <<entry, table, calls>> /\ At(h, "idle") /\ Has(e, "PENDING")
  BY DEF UpdateWaitlistEntry, Free, At
<1>2. r.op = "updateWaitlistEntry" /\ r.pc = "loadEntry" /\ r.e = e /\ r.todo = <<>>
  BY DEF Idle
<1> HIDE DEF r
<1>3. Kept(r)
  BY <1>1, <1>2, EmptyTodo DEF Kept, EntryPromise, TablePromise
<1> QED
  BY <1>1, <1>2, <1>3, BeginsAlone DEF Leaves

LEMMA EditAlone ==
  ASSUME NEW h \in Handlers, Alone(h), EditLoadedEntry(h)
  PROVE  TurnInv'
<1> DEFINE x == entry[req[h].e]
<1>0. At(h, "loadEntry") /\ UNCHANGED <<entry, table, calls>>
  BY Zenon DEF EditLoadedEntry
<1>1. req[h].e \in Entries /\ x \in WaitlistEntry
  BY <1>0, KeptNow DEF At, Ready
<1>2. Has(req[h].e, "PENDING") /\ req[h].op # "unseatPlayer"
  BY <1>0, KeptNow DEF At, Kept, EntryPromise
<1>b. entry[req[h].e].status \notin NoRow
  BY <1>2 DEF Has, NoRow
<1>3. PICK n \in PartySizes :
        Becomes(h, [req[h] EXCEPT !.pc = "saveEntry", !.ent = [x EXCEPT !.party = n]])
  BY <1>b, Zenon DEF EditLoadedEntry
<1> DEFINE ent == [x EXCEPT !.party = n]
           r == [req[h] EXCEPT !.pc = "saveEntry", !.ent = ent]
<1>4. ent.party = n /\ ent.player = x.player /\ ent.status = x.status /\ n # 0
  BY <1>1, SeatingAssumption DEF WaitlistEntry, SeatingAssumption
<1>5. Becomes(h, r)
  BY <1>3, Zenon
<1> HIDE DEF ent
<1>6. r.op = req[h].op /\ r.pc = "saveEntry" /\ r.e = req[h].e /\ r.todo = req[h].todo
      /\ r.ent = ent /\ r.t = req[h].t
  BY KeptNow DEF Request
<1> HIDE DEF r
<1>7. EntryPromise(r)
  BY <1>2, <1>4, <1>6 DEF EntryPromise, Has
<1>8. TablePromise(r)
  BY <1>6, KeptNow DEF Kept, TablePromise
<1> QED
  BY <1>0, <1>2, <1>5, <1>6, <1>7, <1>8, ReadsAlone DEF Leaves, At, Kept

LEMMA CancelAlone ==
  ASSUME NEW h \in Handlers, Alone(h), NEW e \in Entries,
         CancelWaitlistEntry(h, e) \/ DeleteWaitlistEntry(h, e)
  PROVE  TurnInv'
<1>1. CASE CancelWaitlistEntry(h, e)
  <2> DEFINE ent == [entry[e] EXCEPT !.status = "CANCELLED"]
             r == [Idle EXCEPT !.op = "cancelWaitlistEntry", !.pc = "saveEntry",
                     !.e = e, !.ent = ent]
  <2>1. Becomes(h, r) /\ UNCHANGED <<entry, table, calls>> /\ At(h, "idle") /\ Has(e, "PENDING")
    BY <1>1 DEF CancelWaitlistEntry, Free, At
  <2>2. ent.status = "CANCELLED" /\ ent.player = entry[e].player /\ ent.party = entry[e].party
    BY KeptNow DEF WaitlistEntry
  <2>3. ent.party # 0
    BY <2>1, <2>2, KeptNow DEF Once, Live, Has
  <2> HIDE DEF ent
  <2>4. r.op = "cancelWaitlistEntry" /\ r.pc = "saveEntry" /\ r.e = e /\ r.todo = <<>> /\ r.ent = ent
    BY DEF Idle
  <2> HIDE DEF r
  <2>5. Kept(r)
    BY <2>1, <2>2, <2>3, <2>4, EmptyTodo DEF Kept, EntryPromise, TablePromise
  <2> QED
    BY <2>1, <2>4, <2>5, BeginsAlone DEF Leaves
<1>2. CASE DeleteWaitlistEntry(h, e)
  <2> DEFINE r == [Idle EXCEPT !.op = "deleteWaitlistEntry", !.pc = "removeEntry", !.e = e]
  <2>1. Becomes(h, r) /\ UNCHANGED <<entry, table, calls>> /\ At(h, "idle") /\ ~Has(e, "SEATED")
    BY <1>2 DEF DeleteWaitlistEntry, Free, At, Has
  <2>2. r.op = "deleteWaitlistEntry" /\ r.pc = "removeEntry" /\ r.e = e /\ r.todo = <<>>
    BY DEF Idle
  <2> HIDE DEF r
  <2>3. Kept(r)
    BY <2>1, <2>2, EmptyTodo DEF Kept, EntryPromise, TablePromise
  <2> QED
    BY <2>1, <2>2, <2>3, BeginsAlone DEF Leaves
<1> QED
  BY <1>1, <1>2

\* Whoever sits at a table, and is not being unseated, is in its counter.
LEMMA StillCounted ==
  ASSUME NEW h \in Handlers, Alone(h), NEW t \in Tables, NEW e \in StillAt(t)
  PROVE  /\ table[t].cur = entry[e].party + Total(PartyOf, StillAt(t) \ {e})
         /\ Total(PartyOf, StillAt(t) \ {e}) \in Nat
         /\ entry[e].party \in Nat \ {0}
<1>1. IsFiniteSet(Entries) /\ StillAt(t) \in SUBSET Entries
  BY DEF Alone, StillAt, SeatedAt
<1>2. \A f \in Entries : entry[f].party \in Nat
  BY KeptNow, PartyIsNat
<1>3. PartyOf \in [Entries -> Int] /\ \A f \in Entries : PartyOf[f] = entry[f].party /\ PartyOf[f] >= 0
  BY <1>2 DEF PartyOf
<1>4. Total(PartyOf, StillAt(t)) = PartyOf[e] + Total(PartyOf, StillAt(t) \ {e})
  BY <1>1, <1>3, TotalFacts
<1>5. Total(PartyOf, StillAt(t) \ {e}) \in Nat
  BY <1>1, <1>3, TotalNat
<1>6. table[t].cur = Total(PartyOf, StillAt(t))
  BY KeptNow DEF Counted
<1>7. e \in Entries /\ Live(e)
  BY DEF StillAt, SeatedAt, Has, Live
<1> QED
  BY <1>2, <1>3, <1>4, <1>5, <1>6, <1>7, KeptNow DEF Once

LEMMA StillWithin ==
  ASSUME NEW h \in Handlers, Alone(h), NEW t \in Tables, NEW e \in StillAt(t)
  PROVE  table[t].cur >= entry[e].party /\ table[t].cur # 0
<1> DEFINE party == entry[e].party
           rest == Total(PartyOf, StillAt(t) \ {e})
<1>1. table[t].cur = party + rest /\ rest \in Nat /\ party \in Nat \ {0}
  BY StillCounted
<1> HIDE DEF party, rest
<1>2. table[t].cur >= party /\ table[t].cur # 0
  BY <1>1
<1> QED
  BY <1>2 DEF party

LEMMA EmptyTable ==
  ASSUME NEW h \in Handlers, Alone(h), NEW t \in Tables
  PROVE  /\ ~Leaves(req[h]) => StillAt(t) = SeatedAt(t)
         /\ ~Exists(t) => SeatedAt(t) = {}
         /\ SeatedAt(t) = {} => table[t].cur = 0
         /\ ~Leaves(req[h]) /\ table[t].cur = 0 => SeatedAt(t) = {}
<1>1. ~Leaves(req[h]) => StillAt(t) = SeatedAt(t)
  BY LeaverBefore DEF StillAt
<1>2. ~Exists(t) => SeatedAt(t) = {}
  BY KeptNow DEF Rooms, SeatedAt
<1>3. SeatedAt(t) = {} => table[t].cur = 0
  <2>1. ASSUME SeatedAt(t) = {} PROVE table[t].cur = 0
    <3>1. StillAt(t) = {} /\ table[t].cur = Total(PartyOf, StillAt(t))
      BY <2>1, KeptNow DEF Counted, StillAt
    <3>2. IsFiniteSet(Entries) /\ PartyOf \in [Entries -> Int]
      <4>1. \A f \in Entries : entry[f].party \in Nat
        BY KeptNow, PartyIsNat
      <4> QED
        BY <4>1 DEF Alone, PartyOf
    <3> QED
      BY <3>1, <3>2, TotalFacts
  <2> QED
    BY <2>1
<1>4. ASSUME ~Leaves(req[h]), table[t].cur = 0, NEW e \in SeatedAt(t)
      PROVE  FALSE
  <2>1. e \in StillAt(t)
    BY <1>1, <1>4
  <2> QED
    BY <1>4, <2>1, StillWithin
<1> QED
  BY <1>1, <1>2, <1>3, <1>4

LEMMA AssignAlone ==
  ASSUME NEW h \in Handlers, Alone(h), NEW e \in Entries, NEW t \in Tables, AssignSeat(h, e, t)
  PROVE  TurnInv'
<1> DEFINE r == [Idle EXCEPT !.op = "assignSeat", !.pc = "seatTx", !.e = e, !.t = t]
<1>1. Becomes(h, r) /\ UNCHANGED <<entry, table, calls>> /\ At(h, "idle")
  BY DEF AssignSeat, Free, At
<1>2. r.op = "assignSeat" /\ r.pc = "seatTx" /\ r.todo = <<>>
  BY DEF Idle
<1> HIDE DEF r
<1>3. Kept(r)
  BY <1>2, EmptyTodo DEF Kept, EntryPromise, TablePromise
<1> QED
  BY <1>1, <1>2, <1>3, BeginsAlone DEF Leaves

LEMMA RefusedAlone ==
  ASSUME NEW h \in Handlers, Alone(h), SeatTxRefused(h)
  PROVE  TurnInv'
BY IdleKept, ReadsAlone DEF SeatTxRefused, Done, At, Leaves

LEMMA UnseatAlone ==
  ASSUME NEW h \in Handlers, Alone(h), NEW e \in Entries, NEW requeue \in BOOLEAN,
         UnseatPlayer(h, e, requeue)
  PROVE  TurnInv'
<1> DEFINE ent == [entry[e] EXCEPT !.table = NoTable,
                     !.status = IF requeue THEN "PENDING" ELSE "CANCELLED"]
           r == [Idle EXCEPT !.op = "unseatPlayer", !.pc = "unseatTable",
                   !.e = e, !.t = entry[e].table, !.ent = ent]
<1>1. Becomes(h, r) /\ UNCHANGED <<entry, table, calls>> /\ At(h, "idle") /\ Has(e, "SEATED")
  BY DEF UnseatPlayer, Free, At
<1>2. ent.status \in {"PENDING", "CANCELLED"} /\ ent.player = entry[e].player
      /\ ent.party = entry[e].party
  BY KeptNow DEF WaitlistEntry
<1>3. ent.party # 0
  BY <1>1, <1>2, KeptNow DEF Once, Live, Has
<1> HIDE DEF ent
<1>4. r.op = "unseatPlayer" /\ r.pc = "unseatTable" /\ r.e = e /\ r.t = entry[e].table
      /\ r.ent = ent /\ r.todo = <<>>
  BY DEF Idle
<1> HIDE DEF r
<1>5. Kept(r)
  BY <1>1, <1>2, <1>3, <1>4, EmptyTodo DEF Kept, EntryPromise, TablePromise
<1> QED
  BY <1>1, <1>4, <1>5, BeginsAlone DEF Leaves

LEMMA UnseatTableAlone ==
  ASSUME NEW h \in Handlers, Alone(h), UnseatTable(h)
  PROVE  TurnInv'
<1> DEFINE e == req[h].e
           t == req[h].t
           row == Vacated(table[t], req[h].ent.party)
           r == [req[h] EXCEPT !.pc = "saveTable", !.tab = row]
<1>1. At(h, "unseatTable") /\ UNCHANGED <<entry, table, calls>>
  BY Zenon DEF UnseatTable
<1>2. e \in Entries /\ t \in Tables
  BY <1>1, KeptNow DEF At, Ready
<1>3. /\ req[h].op = "unseatPlayer" /\ Has(e, "SEATED") /\ entry[e].table = t
      /\ req[h].ent.party = entry[e].party
  <2>1. EntryPromise(req[h])
    BY KeptNow DEF Kept
  <2> QED
    BY <1>1, <2>1 DEF EntryPromise, At
<1>4. Exists(t)
  BY <1>2, <1>3, KeptNow DEF Rooms
<1>5. Becomes(h, r)
  BY <1>4, Zenon DEF UnseatTable
<1>6. e \in StillAt(t)
  <2>1. ~Leaves(req[h])
    BY <1>1 DEF Leaves, At
  <2> QED
    BY <1>2, <1>3, <2>1, EmptyTable DEF SeatedAt
<1>7. table[t].cur \in Nat /\ entry[e].party \in Nat /\ table[t].cur >= entry[e].party
  <2>1. table[t].cur \in Nat
    BY <1>2, KeptNow DEF TableRow
  <2>2. entry[e].party \in Nat
    BY <1>2, <1>6, StillCounted
  <2>3. table[t].cur >= entry[e].party
    BY <1>2, <1>6, StillWithin
  <2> QED
    BY <2>1, <2>2, <2>3
<1>8. row.cur = table[t].cur - req[h].ent.party /\ row.max = table[t].max
      /\ row.session = table[t].session /\ row.status \in TableStatus
  <2>1. Less(table[t].cur, req[h].ent.party) = table[t].cur - req[h].ent.party
    BY <1>3, <1>7 DEF Less
  <2>2. table[t] \in TableRow
    BY <1>2, KeptNow
  <2> QED
    BY <1>4, <2>1, <2>2 DEF Vacated, TableRow, Exists, TableStatus
<1> HIDE DEF row
<1>9. r.op = req[h].op /\ r.pc = "saveTable" /\ r.e = e /\ r.t = t /\ r.ent = req[h].ent
      /\ r.tab = row /\ r.todo = req[h].todo
  BY KeptNow DEF Request
<1> HIDE DEF r
<1>10. EntryPromise(r)
  <2>1. EntryPromise(req[h])
    BY KeptNow DEF Kept
  <2> QED
    BY <1>3, <1>9, <2>1 DEF EntryPromise
<1>11. TablePromise(r)
  <2>1. req[h].todo \in Seq(PatchesOf(req[h].op))
    BY <1>3, KeptNow DEF Kept, TablePromise
  <2> QED
    BY <1>3, <1>4, <1>8, <1>9, <2>1 DEF TablePromise
<1> QED
  BY <1>1, <1>5, <1>9, <1>10, <1>11, ReadsAlone DEF Leaves, At, Kept

LEMMA SaveEntryAlone ==
  ASSUME NEW h \in Handlers, Alone(h), SaveEntry(h)
  PROVE  TurnInv'
<1> DEFINE r == [req[h] EXCEPT !.pc = "writeEntry", !.entBase = entry[req[h].e]]
<1>1. At(h, "saveEntry") /\ Becomes(h, r) /\ UNCHANGED <<entry, table, calls>>
  BY DEF SaveEntry
<1>2. r.op = req[h].op /\ r.pc = "writeEntry" /\ r.e = req[h].e /\ r.t = req[h].t
      /\ r.ent = req[h].ent /\ r.entBase = entry[req[h].e] /\ r.todo = req[h].todo
  BY KeptNow DEF Request
<1> HIDE DEF r
<1>3. EntryPromise(r)
  <2>1. EntryPromise(req[h])
    BY KeptNow DEF Kept
  <2> QED
    BY <1>1, <1>2, <2>1 DEF EntryPromise, At
<1>4. TablePromise(r)
  BY <1>2, KeptNow DEF Kept, TablePromise
<1> QED
  BY <1>1, <1>2, <1>3, <1>4, ReadsAlone DEF Leaves, At, Kept

LEMMA SaveTableAlone ==
  ASSUME NEW h \in Handlers, Alone(h), SaveTable(h)
  PROVE  TurnInv'
<1> DEFINE r == [req[h] EXCEPT !.pc = "writeTable", !.tabBase = table[req[h].t]]
<1>1. At(h, "saveTable") /\ Becomes(h, r) /\ UNCHANGED <<entry, table, calls>>
  BY DEF SaveTable
<1>2. r.op = req[h].op /\ r.pc = "writeTable" /\ r.e = req[h].e /\ r.t = req[h].t
      /\ r.ent = req[h].ent /\ r.tab = req[h].tab /\ r.tabBase = table[req[h].t]
      /\ r.todo = req[h].todo
  BY KeptNow DEF Request
<1> HIDE DEF r
<1>3. EntryPromise(r)
  <2>1. EntryPromise(req[h])
    BY KeptNow DEF Kept
  <2> QED
    BY <1>1, <1>2, <2>1 DEF EntryPromise, At
<1>4. TablePromise(r)
  <2>1. TablePromise(req[h])
    BY KeptNow DEF Kept
  <2> QED
    BY <1>1, <1>2, <2>1 DEF TablePromise, At
<1> QED
  BY <1>1, <1>2, <1>3, <1>4, ReadsAlone DEF Leaves, At, Kept

LEMMA NextPatch ==
  ASSUME NEW P, NEW todo \in Seq(P), todo # <<>>
  PROVE  Head(todo) \in P /\ Tail(todo) \in Seq(P)
OBVIOUS

LEMMA LoadTableAlone ==
  ASSUME NEW h \in Handlers, Alone(h), LoadTable(h)
  PROVE  TurnInv'
<1> DEFINE t == req[h].t
           p == Head(req[h].todo)
           rest == Tail(req[h].todo)
           row == Patched(table[t], p)
           r == [req[h] EXCEPT !.pc = "saveTable", !.todo = rest, !.tab = row]
<1>1. At(h, "loadTable") /\ UNCHANGED <<entry, table, calls>>
  BY Zenon DEF LoadTable
<1>2. /\ t \in Tables /\ req[h].op # "unseatPlayer"
      /\ req[h].todo \in Seq(Patch) /\ req[h].todo # <<>>
  <2>1. TablePromise(req[h]) /\ Ready(req[h]) /\ req[h].todo \in Seq(Patch)
    BY KeptNow DEF Kept, Request
  <2> QED
    BY <1>1, <2>1 DEF TablePromise, At, Ready
<1>3. CASE ~Exists(t)
  <2>1. Becomes(h, Idle)
    BY <1>3, Zenon DEF LoadTable, Done
  <2> QED
    BY <1>1, <2>1, IdleKept, ReadsAlone DEF At, Leaves
<1>4. CASE Exists(t)
  <2>1. Becomes(h, r)
    BY <1>4, Zenon DEF LoadTable
  <2>2. p \in Patch /\ rest \in Seq(Patch)
    BY <1>2
  <2>3. IF req[h].op = "endSession" THEN SeatedAt(t) = {}
        ELSE p \in PatchesOf(req[h].op) /\ rest \in Seq(PatchesOf(req[h].op))
    <3>1. TablePromise(req[h])
      BY KeptNow DEF Kept
    <3>2. CASE req[h].op = "endSession"
      BY <3>1, <3>2 DEF TablePromise
    <3>3. CASE req[h].op # "endSession"
      <4>1. req[h].todo \in Seq(PatchesOf(req[h].op))
        BY <3>1, <3>3 DEF TablePromise
      <4>2. p \in PatchesOf(req[h].op) /\ rest \in Seq(PatchesOf(req[h].op))
        BY <1>2, <4>1, NextPatch
      <4> QED
        BY <3>3, <4>2
    <3> QED
      BY <3>2, <3>3
  <2>4. /\ row.status \in TableStatus /\ row.max = table[t].max
        /\ p # "noSeats" => row.cur = table[t].cur
        /\ p = "noSeats" => row.cur = 0
        /\ p \in {"AVAILABLE", "CLOSED", "noSeats"} => row.session = table[t].session
        /\ p \notin {"AVAILABLE", "CLOSED", "noSeats"} => row.session = p
    <3>1. table[t] \in TableRow
      BY <1>2, KeptNow
    <3> QED
      BY <1>4, <2>2, <3>1 DEF Patched, TableRow, TableStatus, Exists, Patch
  <2>5. row.cur = table[t].cur
    BY <1>2, <2>3, <2>4, EmptyTable DEF PatchesOf
  <2>6. \/ req[h].op \in NotesEditors \/ SeatedAt(t) = {}
        \/ row.session \in {"running", "paused", table[t].session}
    BY <2>3, <2>4 DEF PatchesOf, NotesEditors
  <2> HIDE DEF row, rest, p
  <2>7. r.op = req[h].op /\ r.pc = "saveTable" /\ r.t = t /\ r.tab = row /\ r.todo = rest
    BY KeptNow DEF Request
  <2> HIDE DEF r
  <2>8. EntryPromise(r)
    BY <1>2, <2>7 DEF EntryPromise
  <2>9. TablePromise(r)
    BY <1>2, <1>4, <2>3, <2>4, <2>5, <2>6, <2>7 DEF TablePromise
  <2> QED
    BY <1>1, <2>1, <2>7, <2>8, <2>9, ReadsAlone DEF Leaves, At, Kept
<1> QED
  BY <1>3, <1>4

\* The requests that manage tables.
LEMMA TableBegins ==
  ASSUME NEW h \in Handlers, Alone(h), NEW t \in Tables,
         CreateTable(h, t) \/ UpdateTable(h, t) \/ DeleteTable(h, t)
  PROVE  TurnInv'
<1>1. CASE CreateTable(h, t)
  <2>1. PICK g \in Games, m \in TableSizes, n \in Session :
          Becomes(h, [Idle EXCEPT !.op = "createTable", !.pc = "insertTable", !.t = t,
            !.tab = [status |-> "AVAILABLE", game |-> g, max |-> m, cur |-> 0, session |-> n]])
    BY <1>1, Zenon DEF CreateTable
  <2> DEFINE tab == [status |-> "AVAILABLE", game |-> g, max |-> m, cur |-> 0, session |-> n]
             r == [Idle EXCEPT !.op = "createTable", !.pc = "insertTable", !.t = t, !.tab = tab]
  <2>2. Becomes(h, r) /\ UNCHANGED <<entry, table, calls>> /\ At(h, "idle")
    BY <1>1, <2>1, Zenon DEF CreateTable, Free, At
  <2>3. tab.cur = 0
    OBVIOUS
  <2> HIDE DEF tab
  <2>4. r.op = "createTable" /\ r.pc = "insertTable" /\ r.tab = tab /\ r.todo = <<>>
    BY DEF Idle
  <2> HIDE DEF r
  <2>5. Kept(r)
    BY <2>3, <2>4, EmptyTodo DEF Kept, EntryPromise, TablePromise
  <2> QED
    BY <2>2, <2>4, <2>5, BeginsAlone DEF Leaves
<1>2. CASE UpdateTable(h, t)
  <2>1. Exists(t) /\ UNCHANGED <<entry, table, calls>> /\ At(h, "idle")
    BY <1>2, Zenon DEF UpdateTable, Free, At
  <2>2. PICK m \in TableSizes \cup {table[t].max}, g \in Games, st \in TableStatus, n \in Session :
          /\ m >= table[t].cur \/ m = table[t].max
          /\ Becomes(h, [Idle EXCEPT !.op = "updateTable", !.pc = "saveTable", !.t = t,
               !.tab = [table[t] EXCEPT !.max = m, !.game = g, !.status = st, !.session = n]])
    BY <1>2, Zenon DEF UpdateTable
  <2> DEFINE tab == [table[t] EXCEPT !.max = m, !.game = g, !.status = st, !.session = n]
             r == [Idle EXCEPT !.op = "updateTable", !.pc = "saveTable", !.t = t, !.tab = tab]
  <2>3. Becomes(h, r)
    BY <2>2, Zenon
  <2>4. tab.status \in TableStatus /\ tab.cur = table[t].cur /\ tab.max = m
    BY <2>2, KeptNow DEF TableRow
  <2> HIDE DEF tab
  <2>6. r.op = "updateTable" /\ r.pc = "saveTable" /\ r.t = t /\ r.tab = tab /\ r.todo = <<>>
    BY DEF Idle
  <2> HIDE DEF r
  <2>7. Kept(r)
    BY <2>1, <2>2, <2>4, <2>6, EmptyTodo DEF Kept, EntryPromise, TablePromise, NotesEditors
  <2> QED
    BY <2>1, <2>3, <2>6, <2>7, BeginsAlone DEF Leaves
<1>3. CASE DeleteTable(h, t)
  <2> DEFINE r == [Idle EXCEPT !.op = "deleteTable", !.pc = "removeTable", !.t = t]
  <2>1. Becomes(h, r) /\ UNCHANGED <<entry, table, calls>> /\ At(h, "idle") /\ table[t].cur = 0
    BY <1>3 DEF DeleteTable, Free, At
  <2>2. r.op = "deleteTable" /\ r.pc = "removeTable" /\ r.t = t /\ r.todo = <<>>
    BY DEF Idle
  <2> HIDE DEF r
  <2>3. SeatedAt(t) = {}
    BY <2>1, EmptyTable DEF At, Leaves
  <2>4. Kept(r)
    BY <2>2, <2>3, EmptyTodo DEF Kept, EntryPromise, TablePromise
  <2> QED
    BY <2>1, <2>2, <2>4, BeginsAlone DEF Leaves
<1> QED
  BY <1>1, <1>2, <1>3

LEMMA SessionAlone ==
  ASSUME NEW h \in Handlers, Alone(h), NEW t \in Tables,
         PauseSession(h, t) \/ ResumeSession(h, t) \/ EndSession(h, t)
           \/ UpdateSessionParams(h, t)
  PROVE  TurnInv'
<1>1. ASSUME NEW op, NEW patches, Session_(h, op, t, patches), op # "unseatPlayer",
             IF op = "endSession" THEN SeatedAt(t) = {}
             ELSE patches \in Seq(PatchesOf(op))
      PROVE  TurnInv'
  <2> DEFINE r == [Idle EXCEPT !.op = op, !.pc = "loadTable", !.t = t, !.todo = patches]
  <2>1. Becomes(h, r) /\ UNCHANGED <<entry, table, calls>> /\ At(h, "idle")
    BY <1>1, Zenon DEF Session_, Free, At
  <2>2. r.op = op /\ r.pc = "loadTable" /\ r.t = t /\ r.todo = patches
    BY DEF Idle
  <2> HIDE DEF r
  <2>3. Kept(r)
    BY <1>1, <2>2 DEF Kept, EntryPromise, TablePromise
  <2> QED
    BY <2>1, <2>2, <2>3, BeginsAlone DEF Leaves
<1>0. PatchesOf("pauseSession") = {"AVAILABLE", "running", "paused"}
      /\ PatchesOf("resumeSession") = {"AVAILABLE", "running", "paused"}
      /\ PatchesOf("updateSessionParams") = {"ended"}
  BY DEF PatchesOf
<1>2. <<"AVAILABLE", "running">> \in Seq({"AVAILABLE", "running", "paused"})
  OBVIOUS
<1>3. (IF table[t].session = "running" THEN <<"AVAILABLE", "paused">> ELSE <<"AVAILABLE">>)
        \in Seq({"AVAILABLE", "running", "paused"})
  <2>1. <<"AVAILABLE", "paused">> \in Seq({"AVAILABLE", "running", "paused"})
    OBVIOUS
  <2>2. <<"AVAILABLE">> \in Seq({"AVAILABLE", "running", "paused"})
    OBVIOUS
  <2> QED
    BY <2>1, <2>2, Zenon
<1>4. CASE PauseSession(h, t)
  <2> DEFINE patches == IF table[t].session = "running" THEN <<"AVAILABLE", "paused">>
                        ELSE <<"AVAILABLE">>
  <2>1. Session_(h, "pauseSession", t, patches)
    BY <1>4, Zenon DEF PauseSession
  <2> HIDE DEF patches
  <2> QED
    BY <1>0, <1>1, <1>3, <2>1 DEF patches
<1>5. CASE ResumeSession(h, t)
  BY <1>0, <1>1, <1>2, <1>5 DEF ResumeSession
<1>6. CASE EndSession(h, t)
  BY <1>1, <1>6 DEF EndSession
<1>7. CASE UpdateSessionParams(h, t)
  <2>1. <<"ended">> \in Seq({"ended"})
    OBVIOUS
  <2> QED
    BY <1>0, <1>1, <1>7, <2>1 DEF UpdateSessionParams
<1> QED
  BY <1>4, <1>5, <1>6, <1>7

LEMMA MaxIsNat ==
  ASSUME NEW x \in TableRow
  PROVE  x.max \in Nat /\ x.cur \in Nat
<1>1. x.max \in TableSizes \cup {0} /\ x.cur \in Nat
  BY DEF TableRow
<1>2. \A n \in TableSizes \cup {0} : n \in Nat
  BY SeatingAssumption DEF SeatingAssumption
<1> QED
  BY <1>1, <1>2

LEMMA Parties ==
  ASSUME NEW h \in Handlers, Alone(h)
  PROVE  /\ IsFiniteSet(Entries)
         /\ PartyOf \in [Entries -> Int] /\ PartyOf' \in [Entries -> Int]
         /\ \A f \in Entries : PartyOf[f] = entry[f].party /\ PartyOf[f] >= 0
         /\ \A f \in Entries : PartyOf'[f] = entry'[f].party /\ PartyOf'[f] >= 0
         /\ \A t : SeatedAt(t) \in SUBSET Entries /\ StillAt(t) \in SUBSET Entries
         /\ \A t : SeatedAt(t)' \in SUBSET Entries /\ StillAt(t)' \in SUBSET Entries
<1>1. \A f \in Entries : entry[f].party \in Nat /\ entry'[f].party \in Nat
  BY KeptNow, PartyIsNat
<1>2. PartyOf \in [Entries -> Int] /\ PartyOf' \in [Entries -> Int]
  BY <1>1 DEF PartyOf
<1>3. \A f \in Entries : /\ PartyOf[f] = entry[f].party /\ PartyOf[f] >= 0
                         /\ PartyOf'[f] = entry'[f].party /\ PartyOf'[f] >= 0
  BY <1>1 DEF PartyOf
<1>4. \A t : SeatedAt(t) \in SUBSET Entries /\ StillAt(t) \in SUBSET Entries
  BY DEF SeatedAt, StillAt
<1>5. \A t : SeatedAt(t)' \in SUBSET Entries /\ StillAt(t)' \in SUBSET Entries
  BY DEF SeatedAt, StillAt
<1> QED
  BY <1>2, <1>3, <1>4, <1>5 DEF Alone

\* An entry that does not sit is written, and does not sit afterwards.
LEMMA QuietEntry ==
  ASSUME NEW h \in Handlers, Alone(h), NEW r, Becomes(h, r), ~Leaves(req[h]), ~Leaves(r),
         NEW e \in Entries, \A f \in Entries \ {e} : entry'[f] = entry[f],
         ~Has(e, "SEATED"), ~Has(e, "SEATED")', table' = table
  PROVE  Rooms' /\ Counted'
<1>1. Leaver = {} /\ Leaver' = {}
  BY LeaverBefore, LeaverAfter
<1>2. \A t : SeatedAt(t)' = SeatedAt(t)
  BY DEF SeatedAt, Has
<1>3. Rooms'
  <2>1. Rooms
    BY KeptNow
  <2> QED
    BY <2>1 DEF Rooms, Has, Exists
<1>4. ASSUME NEW t \in Tables
      PROVE  Total(PartyOf, SeatedAt(t))' = Total(PartyOf, SeatedAt(t))
  <2>1. \A f \in SeatedAt(t) : PartyOf'[f] = PartyOf[f]
    BY Parties DEF SeatedAt
  <2>2. Total(PartyOf', SeatedAt(t)) = Total(PartyOf, SeatedAt(t))
    BY <2>1, Parties, TotalSame
  <2> QED
    BY <1>2, <2>2
<1>5. \A t \in Tables : StillAt(t) = SeatedAt(t) /\ StillAt(t)' = SeatedAt(t)'
  BY <1>1 DEF StillAt
<1>6. Counted'
  <2>1. Counted
    BY KeptNow
  <2> QED
    BY <1>4, <1>5, <2>1 DEF Counted, Exists
<1> QED
  BY <1>3, <1>6

\* A table is written while the entries stay as they are.
LEMMA RowChange ==
  ASSUME NEW h \in Handlers, Alone(h), NEW t \in Tables,
         entry' = entry, \A u \in Tables \ {t} : table'[u] = table[u],
         \A u \in Tables \ {t} : StillAt(u)' = StillAt(u),
         SeatedAt(t) # {} => Exists(t)',
         table'[t].cur = Total(PartyOf, StillAt(t)'),
         Exists(t)' => Total(PartyOf, SeatedAt(t)) <= table'[t].max
  PROVE  Once' /\ Rooms' /\ Counted'
<1>1. PartyOf' = PartyOf /\ \A u : SeatedAt(u)' = SeatedAt(u)
  BY DEF PartyOf, SeatedAt, Has
<1>2. Once /\ Rooms /\ Counted
  BY KeptNow
<1>3. Once'
  BY <1>2 DEF Once, Live
<1>4. Rooms'
  <2>1. \A e \in Entries : Has(e, "SEATED") /\ entry[e].table = t => SeatedAt(t) # {}
    BY DEF SeatedAt
  <2> QED
    BY <1>2, <2>1 DEF Rooms, Has, Exists
<1>5. ASSUME NEW u \in Tables
      PROVE  (/\ table[u].cur = Total(PartyOf, StillAt(u))
              /\ Exists(u) => Total(PartyOf, SeatedAt(u)) <= table[u].max)'
  <2>1. CASE u = t
    BY <1>1, <2>1
  <2>2. CASE u # t
    BY <1>1, <1>2, <2>2 DEF Counted, Exists
  <2> QED
    BY <2>1, <2>2
<1> QED
  BY <1>3, <1>4, <1>5 DEF Counted

LEMMA InsertEntryAlone ==
  ASSUME NEW h \in Handlers, Alone(h), InsertEntry(h)
  PROVE  TurnInv'
<1>1. Becomes(h, Idle) /\ table' = table /\ At(h, "insertEntry")
  BY Zenon DEF InsertEntry, Done
<1>2. PICK e \in Entries, n \in PartySizes, g \in Games :
        /\ Has(e, "UNUSED")
        /\ entry' = [entry EXCEPT ![e] =
             [status |-> "PENDING", player |-> req[h].player, party |-> n,
              game |-> g, table |-> NoTable, seat |-> NoSeat]]
  BY Zenon DEF InsertEntry
<1>3. /\ entry'[e].status = "PENDING" /\ entry'[e].player = req[h].player /\ entry'[e].party = n
      /\ \A f \in Entries \ {e} : entry'[f] = entry[f]
  BY <1>2, KeptNow
<1>4. \A f \in Entries : Live(f) => entry[f].player # req[h].player
  <2>1. EntryPromise(req[h])
    BY KeptNow DEF Kept
  <2> QED
    BY <1>1, <2>1 DEF EntryPromise, At
<1>5. n # 0
  BY SeatingAssumption DEF SeatingAssumption
<1>6. Once'
  <2>1. Once
    BY KeptNow
  <2> QED
    BY <1>3, <1>4, <1>5, <2>1 DEF Once, Live
<1>7. Rooms' /\ Counted'
  BY <1>1, <1>2, <1>3, IdleKept, QuietEntry DEF Has, Leaves, At
<1> QED
  BY <1>1, <1>6, <1>7, IdleKeptNext, AloneStep

LEMMA RemoveEntryAlone ==
  ASSUME NEW h \in Handlers, Alone(h), RemoveEntry(h)
  PROVE  TurnInv'
<1> DEFINE e == req[h].e
<1>1. /\ Becomes(h, Idle) /\ table' = table /\ At(h, "removeEntry")
      /\ entry' = [entry EXCEPT ![e] = [BlankEntry EXCEPT !.status = "DELETED"]]
  BY Zenon DEF RemoveEntry, Done
<1>2. e \in Entries /\ ~Has(e, "SEATED")
  <2>1. EntryPromise(req[h]) /\ Ready(req[h])
    BY KeptNow DEF Kept
  <2> QED
    BY <1>1, <2>1 DEF EntryPromise, Ready, At
<1>3. entry'[e].status = "DELETED" /\ \A f \in Entries \ {e} : entry'[f] = entry[f]
  BY <1>1, <1>2, KeptNow DEF BlankEntry
<1> HIDE DEF e
<1>4. Once'
  <2>1. Once
    BY KeptNow
  <2> QED
    BY <1>3, <2>1 DEF Once, Live
<1>5. Rooms' /\ Counted'
  BY <1>1, <1>2, <1>3, IdleKept, QuietEntry DEF Has, Leaves, At
<1> QED
  BY <1>1, <1>4, <1>5, IdleKeptNext, AloneStep

\* In turn, save writes the row it was given.
LEMMA SavesEntry ==
  ASSUME NEW h \in Handlers, Alone(h), WriteEntry(h)
  PROVE  /\ req[h].e \in Entries /\ Becomes(h, Idle) /\ table' = table
         /\ entry'[req[h].e].status = req[h].ent.status
         /\ entry'[req[h].e].player = entry[req[h].e].player
         /\ entry'[req[h].e].party = req[h].ent.party
         /\ req[h].ent.status \in {"PENDING", "CANCELLED"} /\ req[h].ent.party # 0
         /\ \A f \in Entries \ {req[h].e} : entry'[f] = entry[f]
         /\ IF req[h].op = "unseatPlayer"
            THEN Has(req[h].e, "SEATED")
            ELSE Has(req[h].e, "PENDING")
<1> DEFINE e == req[h].e
           ent == req[h].ent
<1>1. /\ At(h, "writeEntry") /\ Becomes(h, Idle) /\ table' = table
      /\ entry' = [entry EXCEPT ![e] = SavedEntry(@, req[h].entBase, ent)]
  BY Zenon DEF WriteEntry, Done
<1>2. EntryPromise(req[h]) /\ Ready(req[h])
  BY KeptNow DEF Kept
<1>3. /\ e \in Entries /\ req[h].entBase = entry[e] /\ ent.player = entry[e].player
      /\ ent.status \in {"PENDING", "CANCELLED"} /\ ent.party # 0
      /\ IF req[h].op = "unseatPlayer" THEN Has(e, "SEATED") ELSE Has(e, "PENDING")
  BY <1>1, <1>2 DEF EntryPromise, Ready, At
<1>4. entry'[e] = SavedEntry(entry[e], entry[e], ent) /\ \A f \in Entries \ {e} : entry'[f] = entry[f]
  BY <1>1, <1>3, KeptNow
<1>5. entry[e].status \notin NoRow
  BY <1>3 DEF Has, NoRow
<1> HIDE DEF e, ent
<1>6. SavedEntry(entry[e], entry[e], ent) = MergedEntry(entry[e], entry[e], ent)
  BY <1>5 DEF SavedEntry
<1>7. entry'[e].status = ent.status /\ entry'[e].player = ent.player /\ entry'[e].party = ent.party
  BY <1>4, <1>6 DEF MergedEntry, Changed
<1> QED
  BY <1>1, <1>3, <1>4, <1>7 DEF e, ent

LEMMA WriteEntryAlone ==
  ASSUME NEW h \in Handlers, Alone(h), WriteEntry(h)
  PROVE  TurnInv'
<1> DEFINE e == req[h].e
<1>0. At(h, "writeEntry")
  BY Zenon DEF WriteEntry
<1>1. /\ e \in Entries /\ Becomes(h, Idle) /\ table' = table
      /\ entry'[e].status \in {"PENDING", "CANCELLED"} /\ entry'[e].player = entry[e].player
      /\ entry'[e].party # 0 /\ Live(e)
      /\ \A f \in Entries \ {e} : entry'[f] = entry[f]
  BY SavesEntry DEF Live, Has
<1>2. Once'
  <2>1. Once
    BY KeptNow
  <2> HIDE DEF e
  <2> QED
    BY <1>1, <2>1 DEF Once, Live
<1>3. CASE req[h].op # "unseatPlayer"
  <2>1. ~Has(e, "SEATED") /\ ~Leaves(req[h])
    BY <1>3, SavesEntry DEF Has, Leaves
  <2> HIDE DEF e
  <2>2. Rooms' /\ Counted'
    BY <1>1, <2>1, IdleKept, QuietEntry DEF Has
  <2> QED
    BY <1>1, <1>2, <2>2, IdleKeptNext, AloneStep
<1>4. CASE req[h].op = "unseatPlayer"
  <2>1. Leaver = {e} /\ Leaver' = {}
    <3>1. Leaves(req[h]) /\ ~Leaves(Idle)
      BY <1>0, <1>4, IdleKept DEF Leaves, At
    <3> QED
      BY <1>1, <3>1, LeaverBefore, LeaverAfter
  <2> HIDE DEF e
  <2>2. Rooms'
    <3>1. Rooms
      BY KeptNow
    <3> QED
      BY <1>1, <3>1 DEF Rooms, Has, Exists
  <2>3. ASSUME NEW t
        PROVE  SeatedAt(t)' = StillAt(t) /\ StillAt(t)' = StillAt(t)
    BY <1>1, <2>1 DEF StillAt, SeatedAt, Has
  <2>4. ASSUME NEW t \in Tables
        PROVE  Total(PartyOf', StillAt(t)) = Total(PartyOf, StillAt(t))
    <3>1. \A f \in StillAt(t) : PartyOf'[f] = PartyOf[f]
      BY <1>1, <2>1, Parties DEF StillAt, SeatedAt
    <3> QED
      BY <3>1, Parties, TotalSame
  <2>5. ASSUME NEW t \in Tables
        PROVE  Total(PartyOf, StillAt(t)) <= Total(PartyOf, SeatedAt(t))
    <3>1. StillAt(t) = SeatedAt(t) \ {e}
      BY <2>1 DEF StillAt
    <3>2. Total(PartyOf, SeatedAt(t)) \in Int
      BY Parties, TotalFacts
    <3>3. CASE e \in SeatedAt(t)
      <4>1. Total(PartyOf, SeatedAt(t)) = PartyOf[e] + Total(PartyOf, SeatedAt(t) \ {e})
        BY <3>3, Parties, TotalFacts
      <4>2. Total(PartyOf, SeatedAt(t) \ {e}) \in Int
        BY Parties, TotalFacts
      <4>3. PartyOf[e] \in Int /\ PartyOf[e] >= 0
        BY <1>1, Parties
      <4> QED
        BY <3>1, <4>1, <4>2, <4>3
    <3>4. CASE e \notin SeatedAt(t)
      <4>1. StillAt(t) = SeatedAt(t)
        BY <3>1, <3>4
      <4> QED
        BY <3>2, <4>1
    <3> QED
      BY <3>3, <3>4
  <2>6. Counted'
    <3>1. Counted
      BY KeptNow
    <3>2. ASSUME NEW t \in Tables
          PROVE  (/\ table[t].cur = Total(PartyOf, StillAt(t))
                  /\ Exists(t) => Total(PartyOf, SeatedAt(t)) <= table[t].max)'
      <4>1. table[t].cur = Total(PartyOf, StillAt(t))
            /\ (Exists(t) => Total(PartyOf, SeatedAt(t)) <= table[t].max)
        BY <3>1 DEF Counted
      <4>2. Exists(t) => Total(PartyOf, StillAt(t)) <= table[t].max
        <5>1. Total(PartyOf, SeatedAt(t)) \in Int /\ Total(PartyOf, StillAt(t)) \in Int
          BY Parties, TotalFacts
        <5>2. table[t].max \in Int
          BY KeptNow, MaxIsNat
        <5> QED
          BY <2>5, <4>1, <5>1, <5>2
      <4> QED
        BY <1>1, <2>3, <2>4, <4>1, <4>2 DEF Exists
    <3> QED
      BY <3>2 DEF Counted
  <2> QED
    BY <1>1, <1>2, <2>2, <2>6, IdleKeptNext, AloneStep
<1> QED
  BY <1>3, <1>4

LEMMA SavesTable ==
  ASSUME NEW h \in Handlers, Alone(h), WriteTable(h)
  PROVE  /\ req[h].t \in Tables /\ entry' = entry /\ Exists(req[h].t)
         /\ table'[req[h].t].status \in TableStatus
         /\ table'[req[h].t].cur = req[h].tab.cur
         /\ table'[req[h].t].max = req[h].tab.max
         /\ table'[req[h].t].session = req[h].tab.session
         /\ \A u \in Tables \ {req[h].t} : table'[u] = table[u]
<1> DEFINE t == req[h].t
           tab == req[h].tab
<1>1. /\ At(h, "writeTable") /\ entry' = entry
      /\ table' = [table EXCEPT ![t] = SavedTable(@, req[h].tabBase, tab)]
  BY Zenon DEF WriteTable
<1>2. TablePromise(req[h]) /\ Ready(req[h])
  BY KeptNow DEF Kept
<1>3. t \in Tables /\ req[h].tabBase = table[t] /\ tab.status \in TableStatus /\ Exists(t)
  BY <1>1, <1>2 DEF TablePromise, Ready, At
<1>4. table'[t] = SavedTable(table[t], table[t], tab) /\ \A u \in Tables \ {t} : table'[u] = table[u]
  BY <1>1, <1>3, KeptNow
<1>5. table[t].status \notin NoRow
  BY <1>3 DEF Exists, TableStatus, NoRow
<1> HIDE DEF t, tab
<1>6. SavedTable(table[t], table[t], tab) = MergedTable(table[t], table[t], tab)
  BY <1>5 DEF SavedTable
<1>7. table'[t].status = tab.status /\ table'[t].cur = tab.cur /\ table'[t].max = tab.max
      /\ table'[t].session = tab.session
  BY <1>4, <1>6 DEF MergedTable, Changed
<1> QED
  BY <1>1, <1>3, <1>4, <1>7 DEF t, tab

\* A save of a table by any request but an unseating one.
LEMMA PatchTableAlone ==
  ASSUME NEW h \in Handlers, Alone(h), WriteTable(h), req[h].op # "unseatPlayer"
  PROVE  TurnInv'
<1>1. PICK t : t = req[h].t
  OBVIOUS
<1>2. PICK tab : tab = req[h].tab
  OBVIOUS
<1>3. PICK r : r = IF req[h].todo # <<>> THEN [req[h] EXCEPT !.pc = "loadTable"] ELSE Idle
  OBVIOUS
<1>4. Becomes(h, r) /\ At(h, "writeTable")
  <2>1. At(h, "writeTable") /\ (IF req[h].todo # <<>> THEN Goto(h, "loadTable") ELSE Done(h))
    BY Zenon DEF WriteTable
  <2> QED
    BY <1>3, <2>1, Zenon DEF Goto, Done, Becomes
<1>5. TablePromise(req[h])
  BY KeptNow DEF Kept
<1>6. /\ tab.cur = table[t].cur
      /\ tab.max = table[t].max \/ tab.max >= table[t].cur
      /\ req[h].op = "endSession" => SeatedAt(t) = {}
  BY <1>1, <1>2, <1>4, <1>5 DEF TablePromise, At
<1>7. /\ r.pc = "loadTable" \/ r = Idle
      /\ r.pc = "loadTable" => r.op = req[h].op /\ r.t = t /\ r.todo = req[h].todo
  BY <1>1, <1>3, KeptNow, IdleKept DEF Request
<1>8. ~Leaves(req[h]) /\ ~Leaves(r) /\ (r.pc = "idle" => r = Idle)
  BY <1>7, IdleKept DEF Leaves
<1>9. Leaver = {} /\ Leaver' = {}
  BY <1>4, <1>8, LeaverBefore, LeaverAfter
<1>10. /\ t \in Tables /\ entry' = entry /\ Exists(t) /\ table'[t].status \in TableStatus
       /\ table'[t].cur = tab.cur /\ table'[t].max = tab.max /\ table'[t].session = tab.session
       /\ \A u \in Tables \ {t} : table'[u] = table[u]
  BY <1>1, <1>2, SavesTable
<1>11. \A u : SeatedAt(u)' = SeatedAt(u)
  BY <1>10 DEF SeatedAt, Has
<1>12. \A u : StillAt(u) = SeatedAt(u) /\ StillAt(u)' = SeatedAt(u)
  BY <1>9, <1>11 DEF StillAt
<1>13. SeatedAt(t) # {} => Exists(t)'
  BY <1>10 DEF Exists
<1>14. table[t].cur = Total(PartyOf, SeatedAt(t)) /\ Total(PartyOf, SeatedAt(t)) <= table[t].max
  BY <1>10, <1>12, KeptNow DEF Counted
<1>15. Total(PartyOf, SeatedAt(t)) <= table'[t].max
  BY <1>6, <1>10, <1>14
<1>16. Once' /\ Rooms' /\ Counted'
  BY <1>6, <1>10, <1>12, <1>13, <1>14, <1>15, RowChange
<1>17. Kept(r)'
  <2>1. CASE r.pc = "loadTable"
    <3>1. IF r.op = "endSession" THEN SeatedAt(r.t)' = {} ELSE r.todo \in Seq(PatchesOf(r.op))
      BY <1>5, <1>6, <1>7, <1>11, <2>1 DEF TablePromise
    <3>2. EntryPromise(r)'
      BY <1>7, <2>1 DEF EntryPromise
    <3>3. TablePromise(r)'
      BY <1>7, <2>1, <3>1 DEF TablePromise
    <3> QED
      BY <3>2, <3>3 DEF Kept
  <2>2. CASE r = Idle
    BY <2>2, IdleKeptNext
  <2> QED
    BY <1>7, <2>1, <2>2
<1> QED
  BY <1>4, <1>8, <1>16, <1>17, AloneStep

LEMMA AfterTable ==
  ASSUME NEW h, WriteTable(h)
  PROVE  At(h, "writeTable") /\ (req[h].op = "unseatPlayer" => Goto(h, "saveEntry"))
BY Zenon DEF WriteTable

\* unseatPlayer counts its player out before it closes the entry.
LEMMA VacateTableAlone ==
  ASSUME NEW h \in Handlers, Alone(h), WriteTable(h), req[h].op = "unseatPlayer"
  PROVE  TurnInv'
<1>1. PICK t : t = req[h].t
  OBVIOUS
<1>2. PICK e : e = req[h].e
  OBVIOUS
<1>3. PICK r : r = [req[h] EXCEPT !.pc = "saveEntry"]
  OBVIOUS
<1>4. Becomes(h, r) /\ At(h, "writeTable")
  <2>1. At(h, "writeTable") /\ Goto(h, "saveEntry")
    BY AfterTable, Zenon
  <2> QED
    BY <1>3, <2>1, Zenon DEF Goto, Becomes
<1>5. EntryPromise(req[h]) /\ TablePromise(req[h]) /\ Ready(req[h])
  BY KeptNow DEF Kept
<1>6. /\ e \in Entries /\ Has(e, "SEATED") /\ entry[e].table = t
      /\ req[h].ent.party = entry[e].party /\ req[h].ent.player = entry[e].player
      /\ req[h].ent.status \in {"PENDING", "CANCELLED"} /\ req[h].ent.party # 0
  BY <1>1, <1>2, <1>5 DEF EntryPromise, Ready
<1>7. /\ req[h].tab.cur = table[t].cur - entry[e].party /\ req[h].tab.max = table[t].max
      /\ req[h].tab.session = table[t].session
  BY <1>1, <1>4, <1>5, <1>6 DEF TablePromise, At
<1>8. /\ t \in Tables /\ entry' = entry /\ Exists(t) /\ table'[t].status \in TableStatus
      /\ table'[t].cur = table[t].cur - entry[e].party /\ table'[t].max = table[t].max
      /\ table'[t].session = table[t].session
      /\ \A u \in Tables \ {t} : table'[u] = table[u]
  BY <1>1, <1>7, SavesTable
<1>9. r.op = "unseatPlayer" /\ r.pc = "saveEntry" /\ r.e = e /\ r.t = t /\ r.ent = req[h].ent
      /\ r.todo = req[h].todo
  BY <1>1, <1>2, <1>3, KeptNow DEF Request
<1>10. Leaver = {} /\ Leaver' = {e}
  <2>1. ~Leaves(req[h]) /\ Leaves(r)
    BY <1>4, <1>9 DEF Leaves, At
  <2> QED
    BY <1>4, <1>9, <2>1, LeaverBefore, LeaverAfter
<1>11. \A u : SeatedAt(u)' = SeatedAt(u) /\ StillAt(u) = SeatedAt(u) /\ StillAt(u)' = SeatedAt(u) \ {e}
  <2>1. \A u : SeatedAt(u)' = SeatedAt(u)
    BY <1>8 DEF SeatedAt, Has
  <2> QED
    BY <1>10, <2>1 DEF StillAt
<1>12. \A u \in Tables \ {t} : StillAt(u)' = StillAt(u)
  BY <1>6, <1>11 DEF SeatedAt
<1>13. table'[t].cur = Total(PartyOf, StillAt(t)')
  <2>1. e \in StillAt(t)
    BY <1>6, <1>11 DEF SeatedAt
  <2>2. table[t].cur = entry[e].party + Total(PartyOf, StillAt(t) \ {e})
    BY <1>8, <2>1, StillCounted
  <2>3. Total(PartyOf, StillAt(t) \ {e}) \in Nat /\ entry[e].party \in Nat
    BY <1>8, <2>1, StillCounted
  <2>4. StillAt(t)' = StillAt(t) \ {e}
    BY <1>11
  <2> QED
    BY <1>8, <2>2, <2>3, <2>4
<1>14. Total(PartyOf, SeatedAt(t)) <= table'[t].max
  BY <1>8, KeptNow DEF Counted
<1>15. Exists(t)'
  BY <1>8 DEF Exists
<1>16. Once' /\ Rooms' /\ Counted'
  BY <1>8, <1>12, <1>13, <1>14, <1>15, RowChange
<1>17. EntryPromise(r)'
  BY <1>6, <1>8, <1>9 DEF EntryPromise, Has
<1>18. TablePromise(r)'
  BY <1>5, <1>9 DEF TablePromise
<1> QED
  BY <1>4, <1>9, <1>16, <1>17, <1>18, AloneStep DEF Kept

LEMMA SeatTxAlone ==
  ASSUME NEW h \in Handlers, Alone(h), SeatTx(h)
  PROVE  TurnInv'
<1>1. PICK t : t = req[h].t
  OBVIOUS
<1>2. PICK e : e = req[h].e
  OBVIOUS
<1>3. At(h, "seatTx") /\ Becomes(h, Idle)
  BY Zenon DEF SeatTx, Done
<1>4. e \in Entries /\ t \in Tables
  BY <1>1, <1>2, <1>3, KeptNow DEF Ready, At
<1>5. PICK s \in Seats \cup {NoSeat} :
        /\ MaySeat(e, t, s)
        /\ entry' = [entry EXCEPT ![e] = [@ EXCEPT !.status = "SEATED", !.table = t, !.seat = s]]
        /\ table' = [table EXCEPT ![t] = Filled(@, entry[e].party)]
  BY <1>1, <1>2, Zenon DEF SeatTx
<1>6. /\ entry'[e].status = "SEATED" /\ entry'[e].table = t /\ entry'[e].player = entry[e].player
      /\ entry'[e].party = entry[e].party
      /\ \A f \in Entries \ {e} : entry'[f] = entry[f]
  BY <1>4, <1>5, KeptNow DEF WaitlistEntry
<1>7. Has(e, "PENDING")
  <2>1. entry[e].status \in EntryStatus
    BY <1>4, KeptNow DEF WaitlistEntry
  <2> QED
    BY <1>5, <2>1 DEF MaySeat, Has, EntryStatus, NoRow
<1>8. /\ table[t].cur + entry[e].party <= table[t].max /\ HasActiveSession(table[t]) /\ Exists(t)
  BY <1>5 DEF MaySeat, Fits, Open, Exists, TableStatus
<1>9. /\ table'[t].cur = table[t].cur + entry[e].party /\ table'[t].max = table[t].max
      /\ table'[t].session = table[t].session
      /\ table'[t].status \in TableStatus
      /\ \A u \in Tables \ {t} : table'[u] = table[u]
  <2>1. table[t] \in TableRow
    BY <1>4, KeptNow
  <2>2. table'[t] = Filled(table[t], entry[e].party) /\ \A u \in Tables \ {t} : table'[u] = table[u]
    BY <1>4, <1>5, KeptNow
  <2> QED
    BY <2>1, <2>2 DEF Filled, TableRow, TableStatus
<1>10. Leaver = {} /\ Leaver' = {}
  <2>1. ~Leaves(req[h]) /\ ~Leaves(Idle)
    BY <1>3, IdleKept DEF Leaves, At
  <2> QED
    BY <1>3, <2>1, LeaverBefore, LeaverAfter
<1>11. \A u : StillAt(u) = SeatedAt(u) /\ StillAt(u)' = SeatedAt(u)'
  BY <1>10 DEF StillAt
<1>12. SeatedAt(t)' = SeatedAt(t) \cup {e} /\ \A u \in Tables \ {t} : SeatedAt(u)' = SeatedAt(u)
  BY <1>4, <1>6, <1>7 DEF SeatedAt, Has
<1>13. Once'
  <2>1. Once
    BY KeptNow
  <2> QED
    BY <1>6, <1>7, <2>1 DEF Once, Live, Has
<1>14. Rooms'
  <2>1. Rooms
    BY KeptNow
  <2> QED
    BY <1>4, <1>6, <1>9, <2>1 DEF Rooms, Has, Exists
<1>15. \A f \in Entries : PartyOf'[f] = PartyOf[f]
  BY <1>6, Parties
<1>16. ASSUME NEW S \in SUBSET Entries
       PROVE  Total(PartyOf', S) = Total(PartyOf, S)
  BY <1>15, Parties, TotalSame
<1>17. Total(PartyOf', SeatedAt(t)') = entry[e].party + Total(PartyOf, SeatedAt(t))
  <2>1. e \in SeatedAt(t)' /\ SeatedAt(t)' \ {e} = SeatedAt(t)
    BY <1>7, <1>12 DEF SeatedAt, Has
  <2>2. SeatedAt(t)' \in SUBSET Entries
    BY Parties
  <2>3. Total(PartyOf', SeatedAt(t)') = PartyOf'[e] + Total(PartyOf', SeatedAt(t)' \ {e})
    BY <2>1, <2>2, Parties, TotalFacts
  <2>4. Total(PartyOf', SeatedAt(t)) = Total(PartyOf, SeatedAt(t)) /\ PartyOf'[e] = entry[e].party
    BY <1>4, <1>6, <1>16, Parties
  <2> QED
    BY <2>1, <2>3, <2>4
<1>18. table[t].cur = Total(PartyOf, SeatedAt(t))
  BY <1>4, <1>11, KeptNow DEF Counted
<1>19. /\ table'[t].cur = Total(PartyOf', SeatedAt(t)')
       /\ Total(PartyOf', SeatedAt(t)') <= table'[t].max
  <2>1. entry[e].party \in Nat /\ table[t].cur \in Nat
    BY <1>4, KeptNow, PartyIsNat, MaxIsNat
  <2> QED
    BY <1>8, <1>9, <1>17, <1>18, <2>1
<1>20. ASSUME NEW u \in Tables
       PROVE  (/\ table[u].cur = Total(PartyOf, StillAt(u))
               /\ Exists(u) => Total(PartyOf, SeatedAt(u)) <= table[u].max)'
  <2>1. CASE u = t
    BY <1>11, <1>19, <2>1
  <2>2. CASE u # t
    <3>1. Total(PartyOf', SeatedAt(u)) = Total(PartyOf, SeatedAt(u))
      BY <1>16, Parties
    <3>2. table[u].cur = Total(PartyOf, StillAt(u))
          /\ (Exists(u) => Total(PartyOf, SeatedAt(u)) <= table[u].max)
      BY KeptNow DEF Counted
    <3> QED
      BY <1>9, <1>11, <1>12, <2>2, <3>1, <3>2 DEF Exists
  <2> QED
    BY <2>1, <2>2
<1>21. Counted'
  BY <1>20 DEF Counted
<1> QED
  BY <1>3, <1>13, <1>14, <1>21, IdleKeptNext, AloneStep

\* A table is added or removed while nobody sits there.
LEMMA EmptyRowChange ==
  ASSUME NEW h \in Handlers, Alone(h), Becomes(h, Idle), ~Leaves(req[h]), NEW t \in Tables,
         entry' = entry, \A u \in Tables \ {t} : table'[u] = table[u],
         SeatedAt(t) = {}, table'[t].cur = 0
  PROVE  TurnInv'
<1>1. Leaver = {} /\ Leaver' = {}
  BY IdleKept, LeaverBefore, LeaverAfter
<1>2. \A u : SeatedAt(u)' = SeatedAt(u)
  BY DEF SeatedAt, Has
<1>3. \A u : StillAt(u)' = StillAt(u) /\ StillAt(u) = SeatedAt(u)
  BY <1>1, <1>2 DEF StillAt
<1>4. Total(PartyOf, SeatedAt(t)) = 0 /\ StillAt(t)' = {}
  BY <1>3, Parties, TotalFacts
<1>5. table'[t].max \in Nat
  BY KeptNow, MaxIsNat
<1>6. Total(PartyOf, SeatedAt(t)) <= table'[t].max
  BY <1>4, <1>5
<1>7. Once' /\ Rooms' /\ Counted'
  BY <1>3, <1>4, <1>6, RowChange
<1> QED
  BY <1>7, IdleKeptNext, AloneStep

LEMMA InsertTableAlone ==
  ASSUME NEW h \in Handlers, Alone(h), InsertTable(h)
  PROVE  TurnInv'
<1>1. PICK t : t = req[h].t
  OBVIOUS
<1>2. /\ At(h, "insertTable") /\ Becomes(h, Idle) /\ UNCHANGED <<entry, calls>>
      /\ table' = [table EXCEPT ![t] = IF @.status = "UNUSED" THEN req[h].tab ELSE @]
  BY <1>1, Zenon DEF InsertTable, Done
<1>3. t \in Tables /\ req[h].tab.cur = 0
  <2>1. TablePromise(req[h]) /\ Ready(req[h])
    BY KeptNow DEF Kept
  <2> QED
    BY <1>1, <1>2, <2>1 DEF TablePromise, Ready, At
<1>4. ~Leaves(req[h])
  BY <1>2 DEF Leaves, At
<1>5. CASE table[t].status = "UNUSED"
  <2>1. SeatedAt(t) = {}
    BY <1>3, <1>5, EmptyTable DEF Exists, TableStatus
  <2>2. table'[t].cur = 0 /\ \A u \in Tables \ {t} : table'[u] = table[u]
    BY <1>2, <1>3, <1>5, KeptNow
  <2> QED
    BY <1>2, <1>3, <1>4, <2>1, <2>2, EmptyRowChange
<1>6. CASE table[t].status # "UNUSED"
  <2>1. table' = table
    BY <1>2, <1>3, <1>6, KeptNow
  <2>2. ~Leaves(Idle) /\ Kept(Idle)
    BY IdleKept
  <2> QED
    BY <1>2, <1>4, <2>1, <2>2, ReadsAlone
<1> QED
  BY <1>5, <1>6

LEMMA RemoveTableAlone ==
  ASSUME NEW h \in Handlers, Alone(h), RemoveTable(h)
  PROVE  TurnInv'
<1>1. PICK t : t = req[h].t
  OBVIOUS
<1>2. /\ At(h, "removeTable") /\ Becomes(h, Idle) /\ entry' = entry
      /\ table' = [table EXCEPT ![t] = [BlankTable EXCEPT !.status = "DELETED"]]
  BY <1>1, Zenon DEF RemoveTable, Done
<1>3. t \in Tables /\ SeatedAt(t) = {}
  <2>1. TablePromise(req[h]) /\ Ready(req[h])
    BY KeptNow DEF Kept
  <2> QED
    BY <1>1, <1>2, <2>1 DEF TablePromise, Ready, At
<1>4. ~Leaves(req[h])
  BY <1>2 DEF Leaves, At
<1>5. table'[t].cur = 0 /\ \A u \in Tables \ {t} : table'[u] = table[u]
  BY <1>2, <1>3, KeptNow DEF BlankTable
<1> QED
  BY <1>2, <1>3, <1>4, <1>5, EmptyRowChange

InTurn == mode = "in turn"

\* In turn, the requests of one operation each, one of them at a time.
LEMMA TurnOpsOnly ==
  ASSUME InTurn, InMode, NEW h \in Handlers
  PROVE  req[h].op \in TurnOps
<1>1. req[h].op \in OpsOf["in turn"] \cup {"none"}
  BY Zenon DEF InMode, InTurn
<1>2. OpsOf["in turn"] =
        {"joinWaitlist", "updateWaitlistEntry", "cancelWaitlistEntry", "deleteWaitlistEntry",
         "assignSeat", "unseatPlayer", "createTable", "updateTable", "deleteTable",
         "pauseSession", "resumeSession", "endSession", "updateSessionParams"}
  BY Zenon DEF OpsOf
<1>3. \/ req[h].op \in
           {"joinWaitlist", "updateWaitlistEntry", "cancelWaitlistEntry", "deleteWaitlistEntry",
            "assignSeat", "unseatPlayer", "createTable", "updateTable", "deleteTable",
            "pauseSession", "resumeSession", "endSession", "updateSessionParams"}
      \/ req[h].op = "none"
  BY <1>1, <1>2, Zenon
<1> QED
  BY <1>3 DEF TurnOps

ChosenStep(h) ==
  \/ SaveEntry(h) \/ WriteEntry(h) \/ SaveTable(h) \/ WriteTable(h) \/ LoadTable(h)
  \/ WaitlistStep(h) \/ SeatStep(h) \/ TableStep(h)

LEMMA TurnStep ==
  ASSUME InTurn, MCNext
  PROVE  /\ InTurn' /\ InMode'
         /\ \E h \in Handlers : ChosenStep(h) /\ \A g \in Handlers \ {h} : At(g, "idle")
BY Zenon DEF InTurn, MCNext, Turn, ChosenStep

LEMMA TurnOpsNext ==
  ASSUME InTurn', InMode', NEW h \in Handlers
  PROVE  req'[h].op \in TurnOps
<1>1. req'[h].op \in OpsOf["in turn"] \cup {"none"}
  BY Zenon DEF InMode, InTurn
<1>2. OpsOf["in turn"] =
        {"joinWaitlist", "updateWaitlistEntry", "cancelWaitlistEntry", "deleteWaitlistEntry",
         "assignSeat", "unseatPlayer", "createTable", "updateTable", "deleteTable",
         "pauseSession", "resumeSession", "endSession", "updateSessionParams"}
  BY Zenon DEF OpsOf
<1>3. \/ req'[h].op \in
           {"joinWaitlist", "updateWaitlistEntry", "cancelWaitlistEntry", "deleteWaitlistEntry",
            "assignSeat", "unseatPlayer", "createTable", "updateTable", "deleteTable",
            "pauseSession", "resumeSession", "endSession", "updateSessionParams"}
      \/ req'[h].op = "none"
  BY <1>1, <1>2, Zenon
<1> QED
  BY <1>3 DEF TurnOps

\* The steps of TableSeating that an instance takes.
LEMMA ModeNext == MCNext => [Next]_vars
BY Zenon DEF MCNext, Next, RowStep, vars

LEMMA NotForStaff ==
  ASSUME NEW h \in Handlers, Alone(h), NEW r, Becomes(h, r)
  PROVE  r.op \in TurnOps
BY OthersIdle DEF Alone

LEMMA ChosenKeepsTurn ==
  ASSUME NEW h \in Handlers, Alone(h), ChosenStep(h)
  PROVE  TurnInv'
<1>1. CASE SaveEntry(h) \/ WriteEntry(h) \/ SaveTable(h) \/ WriteTable(h) \/ LoadTable(h)
  BY <1>1, SaveEntryAlone, WriteEntryAlone, SaveTableAlone, PatchTableAlone, VacateTableAlone,
     LoadTableAlone
<1>2. CASE WaitlistStep(h)
  <2>1. ASSUME NEW p \in Players, CreateWaitlistEntry(h, p)
        PROVE  FALSE
    <3> DEFINE r == [Idle EXCEPT !.op = "createWaitlistEntry", !.pc = "insertEntry", !.player = p]
    <3>1. Becomes(h, r)
      BY <2>1, Zenon DEF CreateWaitlistEntry
    <3>2. r.op = "createWaitlistEntry"
      BY DEF Idle
    <3> HIDE DEF r
    <3>3. r.op \in TurnOps
      BY <3>1, NotForStaff
    <3> QED
      BY <3>2, <3>3 DEF TurnOps
  <2>2. ASSUME NEW p \in Players, JoinWaitlist(h, p) PROVE TurnInv'
    BY <2>2, JoinAlone
  <2>3. ASSUME NEW e \in Entries, UpdateWaitlistEntry(h, e) PROVE TurnInv'
    BY <2>3, UpdateAlone
  <2>4. ASSUME NEW e \in Entries, CancelWaitlistEntry(h, e) \/ DeleteWaitlistEntry(h, e)
        PROVE  TurnInv'
    BY <2>4, CancelAlone
  <2> QED
    BY <1>2, <2>1, <2>2, <2>3, <2>4, RecheckAlone, InsertEntryAlone, EditAlone, RemoveEntryAlone,
       Zenon DEF WaitlistStep
<1>3. CASE SeatStep(h)
  <2>1. ASSUME NEW e \in Entries, NEW t \in Tables, AssignSeat(h, e, t) PROVE TurnInv'
    BY <2>1, AssignAlone
  <2>2. ASSUME NEW e \in Entries, NEW requeue \in BOOLEAN, UnseatPlayer(h, e, requeue)
        PROVE  TurnInv'
    BY <2>2, UnseatAlone
  <2> QED
    BY <1>3, <2>1, <2>2, SeatTxAlone, RefusedAlone, UnseatTableAlone, Zenon DEF SeatStep
<1>4. CASE TableStep(h)
  <2>1. ASSUME NEW t \in Tables, CreateTable(h, t) \/ UpdateTable(h, t) \/ DeleteTable(h, t)
        PROVE  TurnInv'
    BY <2>1, TableBegins
  <2>2. ASSUME NEW t \in Tables, PauseSession(h, t) \/ ResumeSession(h, t) \/ EndSession(h, t)
                                    \/ UpdateSessionParams(h, t)
        PROVE  TurnInv'
    BY <2>2, SessionAlone
  <2> QED
    BY <1>4, <2>1, <2>2, InsertTableAlone, RemoveTableAlone, Zenon DEF TableStep
<1> QED
  BY <1>1, <1>2, <1>3, <1>4, Zenon DEF ChosenStep

\* What is kept: the types always, TurnInv when requests come in turn.
ModeInv == TypeInv /\ (InTurn => TurnInv)

LEMMA ModeInit ==
  ASSUME IsFiniteSet(Entries), MCInit
  PROVE  ModeInv
<1>1. Init
  BY Zenon DEF MCInit
<1>2. TypeInv
  BY <1>1, TypeInit
<1>3. \A h \in Handlers : req[h] = Idle
  BY <1>1 DEF Init
<1>4. \A e \in Entries : entry[e].status = "UNUSED"
  BY <1>1 DEF Init, BlankEntry
<1>5. \A t \in Tables : table[t].cur = 0 /\ table[t].max \in Nat
  <2>1. \A t \in Tables : table[t].max \in Nat
    BY <1>2, MaxIsNat DEF TypeInv, TypeOK
  <2> QED
    BY <1>1, <2>1 DEF Init, BlankTable
<1>6. \A t \in Tables : SeatedAt(t) = {} /\ StillAt(t) = {}
  BY <1>4 DEF SeatedAt, StillAt, Has
<1>7. Once /\ Rooms
  BY <1>4 DEF Once, Rooms, Live, Has
<1>8. Counted
  <2>1. \A e \in Entries : entry[e].party \in Nat
    BY <1>2, PartyIsNat DEF TypeInv, TypeOK
  <2>2. PartyOf \in [Entries -> Int]
    BY <2>1 DEF PartyOf
  <2>3. Total(PartyOf, {}) = 0
    BY <2>2, TotalFacts
  <2> QED
    BY <1>5, <1>6, <2>3 DEF Counted
<1>9. \A h \in Handlers : Kept(req[h]) /\ At(h, "idle")
  BY <1>3, IdleKept DEF At
<1> QED
  BY <1>2, <1>3, <1>7, <1>8, <1>9 DEF ModeInv, TurnInv

LEMMA TurnAlone ==
  ASSUME IsFiniteSet(Entries), ModeInv, MCNext, InTurn
  PROVE  \E h \in Handlers : Alone(h) /\ ChosenStep(h)
<1>1. TypeInv /\ TurnInv /\ TypeInv'
  BY ModeNext, TypeStep DEF ModeInv
<1>2. InTurn' /\ InMode'
  BY TurnStep
<1>3. PICK h \in Handlers : ChosenStep(h) /\ \A g \in Handlers \ {h} : At(g, "idle")
  BY TurnStep
<1>4. req'[h].op \in TurnOps
  BY <1>2, TurnOpsNext
<1> QED
  BY <1>1, <1>3, <1>4 DEF Alone, TurnInv

LEMMA ModeStep ==
  ASSUME IsFiniteSet(Entries), ModeInv, [MCNext]_<<vars, mode>>
  PROVE  ModeInv'
<1>1. CASE MCNext
  <2>1. TypeInv'
    BY <1>1, ModeNext, TypeStep DEF ModeInv
  <2>2. ASSUME InTurn'
        PROVE  TurnInv'
    <3>1. InTurn
      BY <1>1, <2>2, Zenon DEF MCNext, InTurn
    <3> QED
      BY <1>1, <3>1, TurnAlone, ChosenKeepsTurn
  <2> QED
    BY <2>1, <2>2 DEF ModeInv
<1>2. CASE UNCHANGED <<vars, mode>>
  <2>1. UNCHANGED <<entry, table, calls, req>> /\ (InTurn' <=> InTurn)
    BY <1>2, Zenon DEF vars, InTurn
  <2>2. TypeInv'
    BY <1>2, TypeStep, Zenon DEF ModeInv, vars
  <2>3. TurnInv => TurnInv'
    <3>1. UNCHANGED entry /\ UNCHANGED table /\ UNCHANGED req
      BY <2>1
    <3>2. Once' <=> Once
      BY <3>1 DEF Once, Live
    <3>3. Rooms' <=> Rooms
      BY <3>1 DEF Rooms, Has, Exists
    <3>4. PartyOf' = PartyOf /\ \A t : SeatedAt(t)' = SeatedAt(t) /\ StillAt(t)' = StillAt(t)
      BY <3>1 DEF PartyOf, SeatedAt, StillAt, Leaver, Has
    <3>5. Counted' <=> Counted
      BY <3>1, <3>4 DEF Counted, Exists
    <3>6. ASSUME NEW h \in Handlers, Kept(req[h])
          PROVE  Kept(req[h])'
      <4>1. EntryPromise(req[h])'
        BY <3>1, <3>6 DEF Kept, EntryPromise, Live, Has
      <4>2. TablePromise(req[h])'
        BY <3>1, <3>4, <3>6 DEF Kept, TablePromise, Exists
      <4> QED
        BY <4>1, <4>2 DEF Kept
    <3> QED
      BY <3>1, <3>2, <3>3, <3>5, <3>6 DEF TurnInv, At
  <2> QED
    BY <2>1, <2>2, <2>3, Zenon DEF ModeInv
<1> QED
  BY <1>1, <1>2

\* While no request is under way, nobody is between a table and the queue.
LEMMA NobodyLeaves ==
  ASSUME Quiescent
  PROVE  Leaver = {}
BY DEF Quiescent, Leaver, Leaves, At

LEMMA CountedPeople ==
  ASSUME IsFiniteSet(Entries), TypeInv, TurnInv
  PROVE  NotOverbooked /\ SeatCountExact
<1>1. \A e \in Entries : entry[e].party \in Nat
  BY PartyIsNat DEF TypeInv, TypeOK
<1>2. \A t : PeopleAt(t) = Total(PartyOf, SeatedAt(t))
  BY <1>1, PeopleAdded
<1>3. Counted
  BY DEF TurnInv
<1>4. NotOverbooked
  BY <1>2, <1>3 DEF NotOverbooked, Counted
<1>5. SeatCountExact
  BY <1>2, <1>3, NobodyLeaves DEF SeatCountExact, Counted, StillAt
<1> QED
  BY <1>4, <1>5

LEMMA KeptVisits ==
  ASSUME TurnInv
  PROVE  OneLiveEntry /\ SeatsExist
<1>1. Once /\ Rooms
  BY DEF TurnInv
<1>2. SeatsExist
  BY <1>1 DEF SeatsExist, Rooms
<1>3. ASSUME NEW p \in Players
      PROVE  Cardinality(EntriesOf(p, "PENDING") \cup EntriesOf(p, "SEATED")) <= 1
  <2> DEFINE S == EntriesOf(p, "PENDING") \cup EntriesOf(p, "SEATED")
  <2>1. \A e, f \in S : e = f
    BY <1>1 DEF Once, Live, EntriesOf, Has
  <2> HIDE DEF S
  <2>2. CASE S = {}
    BY <2>2, FS_EmptySet DEF S
  <2>3. CASE S # {}
    <3>1. PICK e : S = {e}
      BY <2>1, <2>3
    <3>2. Cardinality({e}) = 1
      BY FS_Singleton
    <3>3. Cardinality(S) <= 1
      BY <3>1, <3>2
    <3> QED
      BY <3>3, Zenon DEF S
  <2> QED
    BY <2>2, <2>3
<1> QED
  BY <1>2, <1>3 DEF OneLiveEntry

\* Requests taken in turn never put more people at a table than it has chairs,
\* and between two requests its counter is the number of people seated there:
\* whatever party an entry is edited to, whether the seated player goes back to
\* the queue or home, and however the table is resized, patched or deleted.
THEOREM PeopleAreCounted ==
  ASSUME IsFiniteSet(Entries)
  PROVE  MCSpec => []PeopleCounted
<1>1. MCInit => ModeInv
  BY ModeInit
<1>2. ModeInv /\ [MCNext]_<<vars, mode>> => ModeInv'
  BY ModeStep
<1>3. ModeInv => PeopleCounted
  <2>1. ModeInv /\ InTurn => NotOverbooked /\ SeatCountExact
    BY CountedPeople DEF ModeInv
  <2> QED
    BY <2>1, Zenon DEF PeopleCounted, InTurn
<1> QED
  BY <1>1, <1>2, <1>3, PTL DEF MCSpec

\* In turn, a player waits or sits at most once between two requests, and the
\* table at which anybody sits is there, whatever is deleted.
THEOREM VisitsAreKept ==
  ASSUME IsFiniteSet(Entries)
  PROVE  MCSpec => []VisitsInTurn
<1>1. MCInit => ModeInv
  BY ModeInit
<1>2. ModeInv /\ [MCNext]_<<vars, mode>> => ModeInv'
  BY ModeStep
<1>3. ModeInv => VisitsInTurn
  <2>1. ModeInv /\ InTurn => OneLiveEntry /\ SeatsExist
    BY KeptVisits DEF ModeInv
  <2> QED
    BY <2>1, Zenon DEF VisitsInTurn, InTurn
<1> QED
  BY <1>1, <1>2, <1>3, PTL DEF MCSpec

\* What a step of the only request under way does to a table's session.
LEMMA StrandsNobody ==
  ASSUME NEW h \in Handlers, Alone(h), ChosenStep(h), NEW t \in Tables, Stranded(t)'
  PROVE  Stranded(t) \/ (At(h, "writeTable") /\ req[h].op \in NotesEditors)
<1>1. ASSUME table'[t].session = table[t].session, SeatedAt(t)' \subseteq SeatedAt(t)
      PROVE  Stranded(t)
  BY <1>1 DEF Stranded, HasActiveSession
<1>2. ASSUME UNCHANGED table, NEW e \in Entries, ~Has(e, "SEATED")',
             \A f \in Entries \ {e} : entry'[f] = entry[f]
      PROVE  Stranded(t)
  <2>1. SeatedAt(t)' \subseteq SeatedAt(t)
    BY <1>2 DEF SeatedAt, Has
  <2> QED
    BY <1>1, <1>2, <2>1
<1>3. CASE UNCHANGED <<entry, table>>
  <2>1. SeatedAt(t)' \subseteq SeatedAt(t)
    BY <1>3 DEF SeatedAt, Has
  <2> QED
    BY <1>1, <1>3, <2>1
<1>4. CASE WriteEntry(h)
  <2>1. PICK e : e = req[h].e
    OBVIOUS
  <2>2. e \in Entries /\ ~Has(e, "SEATED")' /\ \A f \in Entries \ {e} : entry'[f] = entry[f]
    BY <1>4, <2>1, SavesEntry DEF Has
  <2> QED
    BY <1>2, <1>4, <2>2, SavesEntry
<1>5. CASE InsertEntry(h)
  <2>1. PICK e \in Entries : \E row :
          row.status = "PENDING" /\ entry' = [entry EXCEPT ![e] = row]
    BY <1>5 DEF InsertEntry
  <2>2. ~Has(e, "SEATED")' /\ \A f \in Entries \ {e} : entry'[f] = entry[f]
    BY <2>1, KeptNow DEF Has
  <2> QED
    BY <1>2, <1>5, <2>2 DEF InsertEntry
<1>6. CASE RemoveEntry(h)
  <2>1. PICK e : e = req[h].e
    OBVIOUS
  <2>2. e \in Entries /\ UNCHANGED table
        /\ entry' = [entry EXCEPT ![e] = [BlankEntry EXCEPT !.status = "DELETED"]]
    BY <1>6, <2>1, KeptNow DEF RemoveEntry, At, Ready
  <2>3. ~Has(e, "SEATED")' /\ \A f \in Entries \ {e} : entry'[f] = entry[f]
    BY <2>2, KeptNow DEF Has, BlankEntry
  <2> QED
    BY <1>2, <2>2, <2>3
<1>7. CASE SeatTx(h)
  <2>1. PICK e \in Entries, u \in Tables :
          /\ HasActiveSession(table[u])
          /\ \E s : entry' = [entry EXCEPT ![e] = [@ EXCEPT !.status = "SEATED", !.table = u, !.seat = s]]
          /\ table' = [table EXCEPT ![u] = Filled(@, entry[e].party)]
    <3>1. req[h].e \in Entries /\ req[h].t \in Tables
      BY <1>7, KeptNow DEF SeatTx, At, Ready
    <3> QED
      BY <1>7, <3>1, Zenon DEF SeatTx, MaySeat
  <2>2. table'[t].session = table[t].session
    BY <2>1, KeptNow DEF Filled, TableRow
  <2>3. entry'[e].table = u /\ \A f \in Entries \ {e} : entry'[f] = entry[f]
    BY <2>1, KeptNow DEF WaitlistEntry
  <2>4. t # u
    BY <2>1, <2>2 DEF Stranded, HasActiveSession
  <2>5. SeatedAt(t)' \subseteq SeatedAt(t)
    BY <2>3, <2>4 DEF SeatedAt, Has
  <2> QED
    BY <1>1, <2>2, <2>5
<1>8. CASE InsertTable(h)
  <2>1. PICK u : u = req[h].t
    OBVIOUS
  <2>2. /\ u \in Tables /\ UNCHANGED entry
        /\ table' = [table EXCEPT ![u] = IF @.status = "UNUSED" THEN req[h].tab ELSE @]
    BY <1>8, <2>1, KeptNow DEF InsertTable, At, Ready
  <2>3. SeatedAt(t)' = SeatedAt(t)
    BY <2>2 DEF SeatedAt, Has
  <2>4. table[t].status # "UNUSED"
    BY <2>3, EmptyTable DEF Stranded, Exists, TableStatus
  <2>5. table'[t] = table[t]
    BY <2>2, <2>4, KeptNow
  <2> QED
    BY <1>1, <2>3, <2>5
<1>9. CASE RemoveTable(h)
  <2>1. PICK u : u = req[h].t
    OBVIOUS
  <2>2. /\ u \in Tables /\ UNCHANGED entry
        /\ table' = [table EXCEPT ![u] = [BlankTable EXCEPT !.status = "DELETED"]]
        /\ SeatedAt(u) = {}
    BY <1>9, <2>1, KeptNow DEF RemoveTable, At, Ready, Kept, TablePromise
  <2>3. SeatedAt(t)' = SeatedAt(t)
    BY <2>2 DEF SeatedAt, Has
  <2>4. table'[t] = table[t]
    BY <2>2, <2>3, KeptNow DEF Stranded
  <2> QED
    BY <1>1, <2>3, <2>4
<1>10. CASE WriteTable(h)
  <2>1. PICK u : u = req[h].t
    OBVIOUS
  <2>2. PICK tab : tab = req[h].tab
    OBVIOUS
  <2>3. /\ At(h, "writeTable") /\ u \in Tables /\ entry' = entry
        /\ table'[u].session = tab.session
        /\ \A v \in Tables \ {u} : table'[v] = table[v]
    BY <1>10, <2>1, <2>2, SavesTable, AfterTable
  <2>4. SeatedAt(t)' = SeatedAt(t)
    BY <2>3 DEF SeatedAt, Has
  <2>5. \/ req[h].op \in NotesEditors \/ SeatedAt(u) = {}
        \/ tab.session \in {"running", "paused", table[u].session}
    <3>1. TablePromise(req[h])
      BY KeptNow DEF Kept
    <3> QED
      BY <2>1, <2>2, <2>3, <3>1 DEF TablePromise, At
  <2>6. CASE t = u
    BY <2>3, <2>4, <2>5, <2>6 DEF Stranded, HasActiveSession
  <2>7. CASE t # u
    BY <1>1, <2>3, <2>4, <2>7
  <2> QED
    BY <2>6, <2>7
<1>11. \/ UNCHANGED <<entry, table>>
       \/ WriteEntry(h) \/ InsertEntry(h) \/ RemoveEntry(h) \/ SeatTx(h)
       \/ InsertTable(h) \/ RemoveTable(h) \/ WriteTable(h)
  <2>1. CASE SaveEntry(h) \/ SaveTable(h) \/ LoadTable(h)
    BY <2>1 DEF SaveEntry, SaveTable, LoadTable
  <2>2. CASE WaitlistStep(h)
    BY <2>2, Zenon DEF WaitlistStep, CreateWaitlistEntry, JoinWaitlist, RecheckPending,
       UpdateWaitlistEntry, CancelWaitlistEntry, DeleteWaitlistEntry, EditLoadedEntry
  <2>3. CASE SeatStep(h)
    BY <2>3, Zenon DEF SeatStep, AssignSeat, SeatTxRefused, UnseatPlayer, UnseatTable
  <2>4. CASE TableStep(h)
    BY <2>4, Zenon DEF TableStep, CreateTable, UpdateTable, DeleteTable, PauseSession,
       ResumeSession, EndSession, UpdateSessionParams, Session_
  <2> QED
    BY <2>1, <2>2, <2>3, <2>4, Zenon DEF ChosenStep
<1> QED
  BY <1>3, <1>4, <1>5, <1>6, <1>7, <1>8, <1>9, <1>10, <1>11, Zenon

\* In turn, people lose the session of the table they sit at only by an edit of
\* the table's notes or of the session's parameters: no other handler, seating,
\* unseating, pausing, resuming or ending a session, leaves anybody stranded.
THEOREM SessionsOutlastVisits ==
  ASSUME IsFiniteSet(Entries)
  PROVE  MCSpec => OnlyNotesStrand
<1> DEFINE Step == InTurn =>
              \A t \in Tables : Stranded(t)' =>
                \/ Stranded(t)
                \/ \E h \in Handlers : At(h, "writeTable") /\ req[h].op \in NotesEditors
<1>1. MCInit => ModeInv
  BY ModeInit
<1>2. ModeInv /\ [MCNext]_<<vars, mode>> => ModeInv'
  BY ModeStep
<1>3. ModeInv /\ [MCNext]_<<vars, mode>> => [Step]_<<vars, mode>>
  <2> SUFFICES ASSUME ModeInv, MCNext, InTurn, NEW t \in Tables, Stranded(t)'
               PROVE  \/ Stranded(t)
                      \/ \E h \in Handlers : At(h, "writeTable") /\ req[h].op \in NotesEditors
    BY Zenon
  <2>1. PICK h \in Handlers : Alone(h) /\ ChosenStep(h)
    BY TurnAlone
  <2> QED
    BY <2>1, StrandsNobody
<1> QED
  BY <1>1, <1>2, <1>3, PTL DEF MCSpec, OnlyNotesStrand, InTurn, Step

-----------------------------------------------------------------------------
(* Seats, in the modes of the instance: with every operation.              *)

\* In turn an entity still agrees with its row when it is saved.
LEMMA TurnRecedes ==
  ASSUME NEW h \in Handlers, Alone(h), ChosenStep(h)
  PROVE  SeatEffect
<1>1. CASE UNCHANGED entry
  BY <1>1 DEF SeatEffect, Recedes, Over
<1>2. CASE WriteEntry(h)
  <2>1. PICK e : e = req[h].e
    OBVIOUS
  <2>2. /\ e \in Entries /\ entry'[e].status \in {"PENDING", "CANCELLED"} /\ Live(e)
        /\ \A f \in Entries \ {e} : entry'[f] = entry[f]
    BY <1>2, <2>1, SavesEntry DEF Live, Has
  <2>3. \A f \in Entries : Recedes(f)
    BY <2>2 DEF Recedes, Live, Over
  <2> QED
    BY <2>3 DEF SeatEffect
<1>3. CASE InsertEntry(h)
  <2>1. PICK e \in Entries : Has(e, "UNUSED") /\ \E row :
          row.status = "PENDING" /\ entry' = [entry EXCEPT ![e] = row]
    BY <1>3 DEF InsertEntry
  <2>2. entry'[e].status = "PENDING" /\ \A f \in Entries \ {e} : entry'[f] = entry[f]
    BY <2>1, KeptNow
  <2>3. \A f \in Entries : Recedes(f)
    BY <2>1, <2>2 DEF Recedes, Has, Over
  <2> QED
    BY <2>3 DEF SeatEffect
<1>4. CASE RemoveEntry(h)
  <2>1. PICK e : e = req[h].e
    OBVIOUS
  <2>2. entry' = [entry EXCEPT ![e] = [BlankEntry EXCEPT !.status = "DELETED"]]
    BY <1>4, <2>1, Zenon DEF RemoveEntry
  <2>3. \A f \in Entries : Recedes(f)
    BY <2>2, KeptNow DEF Recedes, Over, BlankEntry
  <2> QED
    BY <2>3 DEF SeatEffect
<1>5. CASE SeatTx(h)
  <2>1. req[h].e \in Entries /\ req[h].t \in Tables
    BY <1>5, KeptNow DEF SeatTx, At, Ready
  <2> QED
    BY <1>5, <2>1 DEF SeatTx, SeatEffect, Seated
<1>6. \/ UNCHANGED entry
      \/ WriteEntry(h) \/ InsertEntry(h) \/ RemoveEntry(h) \/ SeatTx(h)
  <2>1. CASE SaveEntry(h) \/ SaveTable(h) \/ WriteTable(h) \/ LoadTable(h)
    BY <2>1 DEF SaveEntry, SaveTable, WriteTable, LoadTable
  <2>2. CASE WaitlistStep(h)
    BY <2>2, Zenon DEF WaitlistStep, CreateWaitlistEntry, JoinWaitlist, RecheckPending,
       UpdateWaitlistEntry, CancelWaitlistEntry, DeleteWaitlistEntry, EditLoadedEntry
  <2>3. CASE SeatStep(h)
    BY <2>3, Zenon DEF SeatStep, AssignSeat, SeatTxRefused, UnseatPlayer, UnseatTable
  <2>4. CASE TableStep(h)
    BY <2>4, Zenon DEF TableStep, CreateTable, UpdateTable, DeleteTable, PauseSession,
       ResumeSession, EndSession, UpdateSessionParams, Session_, InsertTable, RemoveTable
  <2> QED
    BY <2>1, <2>2, <2>3, <2>4, Zenon DEF ChosenStep
<1> QED
  BY <1>1, <1>2, <1>3, <1>4, <1>5, <1>6

\* Where requests overlap, none of them writes back a seat it has read.
LEMMA ModeOps ==
  ASSUME Modes \subseteq {"locked", "close", "in turn"}, mode \in Modes, ~InTurn
  PROVE  (InMode => NoStaleRequest) /\ (InMode' /\ mode' = mode => NoStaleRequest')
<1>1. mode = "locked" \/ mode = "close"
  BY Zenon DEF InTurn
<1> DEFINE ops == OpsOf[mode] \cup {"none"}
<1>2. "updateWaitlistEntry" \notin ops /\ "unseatPlayer" \notin ops
  BY <1>1 DEF OpsOf
<1> QED
  BY <1>2 DEF InMode, NoStaleRequest

\* What is kept in every mode.
ModeSeatInv ==
  /\ ModeInv /\ SeatExclusive /\ mode \in Modes
  /\ ~InTurn => StaleSafe /\ NoStaleRequest

LEMMA ModeSeatInit ==
  ASSUME IsFiniteSet(Entries), Modes \subseteq {"locked", "close", "in turn"}, MCInit
  PROVE  ModeSeatInv
<1>1. Init /\ mode \in Modes /\ InMode
  BY Zenon DEF MCInit
<1>2. SeatInv
  BY <1>1, SeatInit
<1>3. ~InTurn => NoStaleRequest
  BY <1>1, ModeOps
<1> QED
  BY <1>1, <1>2, <1>3, ModeInit DEF ModeSeatInv, SeatInv

LEMMA ModeSeatStep ==
  ASSUME IsFiniteSet(Entries), Modes \subseteq {"locked", "close", "in turn"},
         ModeSeatInv, [MCNext]_<<vars, mode>>
  PROVE  ModeSeatInv' /\ SeatEffect
<1>1. ModeInv' /\ TypeInv /\ TypeInv'
  BY ModeStep DEF ModeSeatInv, ModeInv
<1>2. [Next]_vars /\ mode' = mode
  BY ModeNext, Zenon DEF MCNext, vars
<1>3. mode' \in Modes /\ (InTurn' <=> InTurn)
  BY <1>2 DEF ModeSeatInv, InTurn
<1>4. ASSUME ~InTurn
      PROVE  SeatEffect /\ StaleSafe' /\ NoStaleRequest'
  <2>1. NoStaleRequest'
    <3>1. CASE MCNext
      <4>1. InMode'
        BY <3>1, Zenon DEF MCNext
      <4> QED
        BY <1>2, <1>4, <4>1, ModeOps DEF ModeSeatInv
    <3>2. CASE UNCHANGED <<vars, mode>>
      <4>1. UNCHANGED req
        BY <3>2, Zenon DEF vars
      <4> QED
        BY <1>4, <4>1 DEF ModeSeatInv, NoStaleRequest
    <3> QED
      BY <3>1, <3>2
  <2>2. EntryEffect /\ RequestEffect
    BY <1>1, <1>2, <1>4, <2>1, StepEffect DEF ModeSeatInv
  <2> QED
    BY <1>1, <1>4, <2>1, <2>2, StaleSafeStep, EntriesRecede DEF ModeSeatInv
<1>5. CASE InTurn
  <2>1. CASE MCNext
    <3>1. PICK h \in Handlers : Alone(h) /\ ChosenStep(h)
      BY <1>5, <2>1, TurnAlone DEF ModeSeatInv
    <3> QED
      BY <1>1, <1>3, <1>5, <3>1, TurnRecedes, SeatExclusiveStep DEF ModeSeatInv
  <2>2. CASE UNCHANGED <<vars, mode>>
    <3>1. UNCHANGED entry
      BY <2>2, Zenon DEF vars
    <3>2. SeatEffect
      BY <3>1 DEF SeatEffect, Recedes, Over
    <3> QED
      BY <1>1, <1>3, <1>5, <3>2, SeatExclusiveStep DEF ModeSeatInv
  <2> QED
    BY <2>1, <2>2
<1> QED
  BY <1>1, <1>3, <1>4, <1>5, SeatExclusiveStep DEF ModeSeatInv

\* In turn with every operation, and at once without the two that save a stale
\* seat, two entries never hold one seat of one table ...
THEOREM SeatsAreExclusiveInModes ==
  ASSUME IsFiniteSet(Entries), Modes \subseteq {"locked", "close", "in turn"}
  PROVE  MCSpec => []SeatExclusive
<1>1. MCInit => ModeSeatInv
  BY ModeSeatInit
<1>2. ModeSeatInv /\ [MCNext]_<<vars, mode>> => ModeSeatInv'
  BY ModeSeatStep
<1>3. ModeSeatInv => SeatExclusive
  BY DEF ModeSeatInv
<1> QED
  BY <1>1, <1>2, <1>3, PTL DEF MCSpec

\* ... a cancelled entry can only be deleted ...
THEOREM CancelledStaysCancelledInModes ==
  ASSUME IsFiniteSet(Entries), Modes \subseteq {"locked", "close", "in turn"}
  PROVE  MCSpec => CancelledIsFinal
<1>1. MCInit => ModeSeatInv
  BY ModeSeatInit
<1>2. ModeSeatInv /\ [MCNext]_<<vars, mode>> => ModeSeatInv'
  BY ModeSeatStep
<1>3. ModeSeatInv /\ [MCNext]_<<vars, mode>>
        => [\A e \in Entries : Has(e, "CANCELLED")
              => entry'[e].status \in {"CANCELLED", "DELETED"}]_vars
  BY ModeSeatStep, CancelledStays DEF ModeSeatInv, ModeInv
<1> QED
  BY <1>1, <1>2, <1>3, PTL DEF MCSpec, CancelledIsFinal

\* ... and the rows implement the seat map, unseating included.
THEOREM SeatMapImplementedInModes ==
  ASSUME IsFiniteSet(Entries), Modes \subseteq {"locked", "close", "in turn"}
  PROVE  MCSpec => ImplementsSeatMap
<1>1. MCInit => ModeSeatInv
  BY ModeSeatInit
<1>2. ModeSeatInv /\ [MCNext]_<<vars, mode>> => ModeSeatInv'
  BY ModeSeatStep
<1>3. MCInit => Abstract!Init
  BY MapInit, Zenon DEF MCInit
<1>4. ModeSeatInv /\ ModeSeatInv' /\ [MCNext]_<<vars, mode>>
        => [Abstract!Next]_[ts \in Tables \X Seats |-> HolderOf(ts[1], ts[2])]
  BY ModeSeatStep, MapStep DEF ModeSeatInv, ModeInv
<1> QED
  BY <1>1, <1>2, <1>3, <1>4, PTL DEF MCSpec, ImplementsSeatMap, Abstract!Spec
=============================================================================

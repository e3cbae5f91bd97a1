-------------------------------- MODULE Sales --------------------------------
(***************************************************************************)
(* The sales ledger (sales.ts) beside the documents of Invoicing: both     *)
(* take units of one piece. Sales made in the store are recorded by a      *)
(* device, which keeps those it cannot send and uploads them later         *)
(* (salesService.ts); someone deletes them; and the piece itself is edited *)
(* by hand (handleArtworksUpdate).                                         *)
(*                                                                         *)
(* A request to the server is a till: it looks for the sale, inserts it    *)
(* with the piece in one batch, and answers. The person, or the upload of  *)
(* what is pending, waits for the answer and may never get it. Every sale  *)
(* is of one unit of the piece.                                            *)
(***************************************************************************)
EXTENDS Invoicing

CONSTANTS
    Sales,
    Tills,      \* requests that may be under way at once
    MaxEdits,   \* bound: times the piece is opened to be edited
    MaxInUse,   \* bound: documents that there are at once
    BesideDocs, \* bound: the documents that there are beside sales and edits, and
    MaxBeside,  \*        how many of these there are then
    SaleGaps    \* known gaps of the code that may happen, see Lose, Discard, StartRemove

ASSUME SalesAssumption ==
    /\ {MaxEdits, MaxInUse, MaxBeside} \subseteq Nat /\ BesideDocs \subseteq Docs
    /\ SaleGaps \subseteq {"resent", "discard", "restock"}

VARIABLES
    sale,      \* the sales table, where nothing is ever removed
    made,      \* sales that someone has filled in; an id is used once
    box,       \* the device's pending sales
    flush,     \* those of the upload under way that are still to go
    till,
    promised,  \* history: sales the person was told are kept on the device
    seen,      \* the piece as it was when it was opened to be edited
    added,     \* history: units put into stock by hand
    edits

saleVars == <<sale, made, box, flush, till, promised, seen, added, edits>>
books    == <<row, last, job, given, short, faults>>
allVars  == <<vars, saleVars>>

Free    == [do |-> "none"]
Results == {"recorded", "inserted", "gone", "refused", "busy"}
Pieces  == [units : Nat, status : {"Available", "Reserved", "Sold"}]
Calls   == [do : {"look", "insert", "remove"} \cup Results, s : Sales, by : {"form", "flush", "nobody"}]

SalesTypeOK ==
    /\ TypeOK
    /\ sale \in [Sales -> {"none", "kept", "deleted"}]
    /\ made \subseteq Sales /\ flush \subseteq Sales /\ promised \subseteq Sales
    /\ box \in [Sales -> {"none", "waiting", "refused"}]
    /\ till \in [Tills -> {Free} \cup Calls]
    /\ seen \in Pieces \cup {None}
    /\ added \in Int /\ edits \in 0..MaxEdits

SalesInit ==
    /\ Init
    /\ sale = [s \in Sales |-> "none"]
    /\ made = {} /\ flush = {} /\ promised = {}
    /\ box = [s \in Sales |-> "none"]
    /\ till = [h \in Tills |-> Free]
    /\ seen = None /\ added = 0 /\ edits = 0

Serves(h, c) == till' = [till EXCEPT ![h] = c]
Closes(h)    == Serves(h, Free)
Waits(who)   == \E h \in Tills : till[h] # Free /\ till[h].by = who
Form         == <<seen, added, edits>>

-----------------------------------------------------------------------------
(* The device.                                                             *)

(* record: the app names the sale itself and posts it, ...                 *)
Record(h, s) ==
    /\ s \notin made /\ made' = made \cup {s}
    /\ till[h] = Free /\ ~Waits("form")
    /\ Serves(h, [do |-> "look", s |-> s, by |-> "form"])
    /\ UNCHANGED <<piece, sale, box, flush, promised, Form>>

Keep(s) ==
    /\ box' = [box EXCEPT ![s] = "waiting"]
    /\ promised' = promised \cup {s}

(* ... or keeps it when there is no answer, if the device has room; if not *)
(* the person is told that it was not saved.                               *)
RecordOffline(s) ==
    /\ s \notin made /\ made' = made \cup {s}
    /\ ~Waits("form")
    /\ Keep(s) \/ UNCHANGED <<box, promised>>
    /\ UNCHANGED <<piece, sale, flush, till, Form>>

(* flushPendingSales walks the list as it was when it started, without     *)
(* those refused. It starts with every load of the ledger.                 *)
StartFlush ==
    /\ flush = {} /\ ~Waits("flush")
    /\ flush' = {s \in Sales : box[s] = "waiting"}
    /\ UNCHANGED <<piece, sale, made, box, till, promised, Form>>

Upload(h, s) ==
    /\ s \in flush /\ ~Waits("flush") /\ till[h] = Free
    /\ Serves(h, [do |-> "look", s |-> s, by |-> "flush"])
    /\ UNCHANGED <<piece, sale, made, box, flush, promised, Form>>

(* It stops at the first sign of being offline, or closed.                 *)
StopFlush ==
    /\ flush # {} /\ ~Waits("flush") /\ flush' = {}
    /\ UNCHANGED <<piece, sale, made, box, till, promised, Form>>

(* What becomes of the pending ones when one is done. Mutant: the list as  *)
(* the upload knows it is written back.                                    *)
WithoutOld(s) == [x \in Sales |-> IF x \in flush \ {s} THEN "waiting" ELSE "none"]
Without(s)    == [box EXCEPT ![s] = "none"]
Refused(s)    == [box EXCEPT ![s] = IF @ = "none" THEN @ ELSE "refused"]

(* A sale just inserted is read back; it may have been deleted already.    *)
Result(h) ==
    IF till[h].do # "inserted" THEN till[h].do
    ELSE IF sale[till[h].s] = "kept" THEN "recorded" ELSE "busy"

Answer(h) ==
    /\ till[h] # Free /\ till[h].do \in Results
    /\ LET s == till[h].s
           result == Result(h) IN
       IF till[h].by = "flush"
       THEN /\ box' = IF result = "busy" THEN box
                      ELSE IF result = "refused" THEN Refused(s) ELSE Without(s)
            /\ flush' = IF result = "busy" THEN {} ELSE flush \ {s}
       ELSE UNCHANGED <<box, flush>>
    /\ Closes(h)
    /\ UNCHANGED <<piece, sale, made, promised, Form>>

(* No answer: it was lost, the worker ended, or the app was closed. With   *)
(* the gap, while the server still works on it.                            *)
Lose(h) ==
    /\ till[h] # Free
    /\ \/ Closes(h)
       \/ /\ "resent" \in SaleGaps /\ till[h].do \in {"look", "insert"}
          /\ Serves(h, [till[h] EXCEPT !.by = "nobody"])
    /\ flush' = IF till[h].by = "flush" THEN {} ELSE flush
    /\ \/ till[h].by = "form" /\ Keep(till[h].s)
       \/ UNCHANGED <<box, promised>>
    /\ UNCHANGED <<piece, sale, made, Form>>

(* discardPending and retryPending. With the gap, one is discarded that    *)
(* the upload under way still has on its list.                             *)
Discard(s) ==
    /\ box[s] # "none" /\ ("discard" \notin SaleGaps => s \notin flush)
    /\ box' = Without(s)
    /\ promised' = promised \ {s}
    /\ UNCHANGED <<piece, sale, made, flush, till, Form>>

Retry(s) ==
    /\ box[s] = "refused"
    /\ box' = [box EXCEPT ![s] = "waiting"]
    /\ UNCHANGED <<piece, sale, made, flush, till, promised, Form>>

-----------------------------------------------------------------------------
(* The server.                                                             *)

(* newSaleId: an upload sent again finds the first. Mutant: nobody looks.  *)
Unknown(s) == "insert"
Found(s) ==
    CASE sale[s] = "none"    -> "insert"
      [] sale[s] = "deleted" -> "gone"
      [] OTHER               -> "recorded"

Look(h) ==
    /\ till[h].do = "look"
    /\ Serves(h, [till[h] EXCEPT !.do = Found(till[h].s)])
    /\ UNCHANGED <<piece, sale, made, box, flush, promised, Form>>

ForSale == piece.status = "Available" /\ piece.units > 0
SoldOne == [units |-> piece.units - 1, status |-> IF piece.units = 1 THEN "Sold" ELSE piece.status]

(* insertSale: the piece and the sale in one batch, which fails as a whole *)
(* if the sale is there already, or the database does not answer.          *)
Insert(h) ==
    /\ till[h].do = "insert"
    /\ LET s == till[h].s
           fits == ForSale /\ sale[s] = "none" IN
       \/ /\ fits
          /\ piece' = SoldOne /\ sale' = [sale EXCEPT ![s] = "kept"]
          /\ Serves(h, [till[h] EXCEPT !.do = "inserted"])
       \/ /\ UNCHANGED <<piece, sale>>
          /\ \E do \in {"busy", "refused"} :
                /\ do = "refused" => ~ForSale
                /\ Serves(h, [till[h] EXCEPT !.do = do])
    /\ UNCHANGED <<made, box, flush, promised, Form>>

(* DELETE reads the sale, then marks it deleted and puts its unit back,    *)
(* whatever happened to it since. With the gap, two requests at once.      *)
StartRemove(h, s) ==
    /\ till[h] = Free /\ sale[s] = "kept"
    /\ "restock" \notin SaleGaps => \A g \in Tills : till[g].do = "remove" => till[g].s # s
    /\ Serves(h, [do |-> "remove", s |-> s, by |-> "nobody"])
    /\ UNCHANGED <<piece, sale, made, box, flush, promised, Form>>

RemoveSale(h) ==
    /\ till[h].do = "remove"
    /\ piece.units < MaxUnits
    /\ sale' = [sale EXCEPT ![till[h].s] = "deleted"]
    /\ piece' = PutBack
    /\ Closes(h)
    /\ UNCHANGED <<made, box, flush, promised, Form>>

-----------------------------------------------------------------------------
(* The piece, edited by hand: what is saved of its status and stock is     *)
(* what was seen when the form was opened, or nothing if a sale or an      *)
(* invoice has changed them since. Mutant: always.                         *)
AnyTime   == TRUE
Untouched == piece = seen

OpenPiece ==
    /\ seen = None /\ edits < MaxEdits
    /\ seen' = piece /\ edits' = edits + 1
    /\ UNCHANGED <<piece, sale, made, box, flush, till, promised, added>>

SavePiece(new) ==
    /\ seen # None /\ seen' = None
    /\ IF Untouched THEN piece' = new /\ added' = added + new.units - seen.units
       ELSE UNCHANGED <<piece, added>>
    /\ UNCHANGED <<sale, made, box, flush, till, promised, edits>>

-----------------------------------------------------------------------------
Device ==
    \/ \E s \in Sales : RecordOffline(s) \/ Discard(s) \/ Retry(s)
    \/ StartFlush \/ StopFlush
    \/ OpenPiece
    \/ /\ seen # None
       /\ \E units \in {seen.units, seen.units + 1}, status \in {"Available", "Reserved", "Sold"} :
             units <= MaxUnits /\ SavePiece([units |-> units, status |-> status])

Till(h) ==
    \/ \E s \in Sales : Record(h, s) \/ Upload(h, s) \/ StartRemove(h, s)
    \/ Answer(h) \/ Lose(h) \/ Look(h) \/ Insert(h) \/ RemoveSale(h)

InUse  == {d \in Docs : Have(d) \/ \E h \in Handlers : job[h] # Idle /\ job[h].d = d}
Beside ==
    LET others == Cardinality(made) + edits IN
    /\ Cardinality(InUse) <= MaxInUse
    /\ InUse # {} /\ others > 0 => InUse \subseteq BesideDocs /\ others <= MaxBeside

SalesNext ==
    /\ \/ Next /\ UNCHANGED saleVars
       \/ (Device \/ \E h \in Tills : Till(h)) /\ UNCHANGED books
    /\ Beside'

SalesSpec == SalesInit /\ [][SalesNext]_allVars

-----------------------------------------------------------------------------
(* Sales and invoices share the piece: whatever is sold, invoiced,         *)
(* cancelled, deleted, sent again and edited by hand meanwhile, the units  *)
(* left are those neither took, as long as no invoice was issued for a     *)
(* piece that was not there (insertSale, remove, handleArtworksUpdate).    *)
UnitsAddUp ==
    ~short => piece.units = Stock + added - Cardinality(Out)
                            - Cardinality({s \in Sales : sale[s] = "kept"})

(* The device is right about its sales, however answers are lost: one the  *)
(* person was told is recorded or kept is on the device or in the ledger   *)
(* (or was deleted there), and one shown as refused is not in the ledger   *)
(* (db.ts:104: "they exist nowhere else"; flushPendingSales).              *)
OutboxIsTrue ==
    /\ \A s \in promised : box[s] # "none" \/ sale[s] # "none"
    /\ \A s \in Sales : box[s] = "refused" => sale[s] # "kept"
=============================================================================

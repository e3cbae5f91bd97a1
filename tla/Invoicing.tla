------------------------------ MODULE Invoicing ------------------------------
(***************************************************************************)
(* The billing documents of one workspace (invoices.ts, with the rules of  *)
(* invoicing.ts): proformas, delivery challans on approval, tax invoices   *)
(* and credit notes; saved, issued with the next number of their series,   *)
(* cancelled and removed; and the inventory piece they move.               *)
(*                                                                         *)
(* A handler reads a document, checks it, may take a number (one batch)    *)
(* and writes it whole with what it changes elsewhere (one batch). The     *)
(* steps are values of "at", so that handlers interleave between them and  *)
(* a worker may die there. Every document has one line, of one unit of     *)
(* the piece. What links collect (syncInvoicePaid) writes documents too.   *)
(*                                                                         *)
(* A number has two forms. The columns of a row keep the number taken: a   *)
(* place in the series of the store and year the document had then. What   *)
(* the document says is made of that place and of the store and year it    *)
(* has when it is issued (docNumberFor), and nobody compares the two.      *)
(***************************************************************************)
EXTENDS Integers, FiniteSets, FiniteSetsExt

CONSTANTS
    Docs,
    Kind,       \* document -> its kind, which a save may not change
    Source,     \* document -> the one it was made from or adjusts, or None
    Worth,      \* document -> what it comes to
    Series,     \* the owners and financial years that have a series of each kind
    MayBeIn,    \* bound: document -> where its store and date may put it
    None,
    Handlers,
    Stock,      \* units of the piece at first
    MaxNumber,  \* bound: kind and series -> numbers given there
    MaxUnits,   \* bound: units of the piece, which overlapping handlers may put back twice
    MaxFaults,  \* bound: workers killed
    DocGaps     \* known gaps of the code that may happen, see Save

Kinds == {"proforma", "challan", "tax", "credit"}

ASSUME InvoicingAssumption ==
    /\ Kind \in [Docs -> Kinds] /\ Source \in [Docs -> Docs \cup {None}]
    /\ Worth \in [Docs -> Nat] /\ None \notin Docs \cup Series
    /\ MayBeIn \in [Docs -> SUBSET Series] /\ DocGaps \subseteq {"redated"}
    /\ Stock \in Nat \ {0} /\ MaxNumber \in [Kinds \X Series -> Nat] /\ {MaxUnits, MaxFaults} \subseteq Nat

VARIABLES
    row,    \* invoices: the document and the columns of its number
    last,   \* invoice_series: kind and series -> the last number given
    piece,  \* the artwork
    job,    \* what each handler is doing
    given,  \* history: every number given, and to which document
    short,  \* history: an invoice was issued for a piece that was not there
    faults

vars == <<row, last, piece, job, given, short, faults>>

Absent == [doc |-> "absent"]
Idle   == [at |-> "idle"]
Still  == [what |-> "none"]     \* nothing happens to the inventory

(* The statuses the rules tell apart: a proforma that was sent, accepted or *)
(* rejected is like its draft, a delivered challan like an issued one.     *)
StatusOf(kind) ==
    CASE kind = "proforma" -> {"Draft", "Converted"}
      [] kind = "challan"  -> {"Draft", "Issued", "Returned", "Invoiced", "Cancelled"}
      [] OTHER             -> {"Draft", "Issued", "Cancelled"}

Statuses == {"Draft", "Converted", "Issued", "Returned", "Invoiced", "Cancelled"}

NoNumber == [series |-> None, seq |-> 0]
Number   == {NoNumber} \cup [series : Series, seq : Nat]

(* series is where its store and date put a document now, number what it   *)
(* says, and taken the columns.                                            *)
Doc   == [status : Statuses, series : Series, number : Number, paid : Nat, back : BOOLEAN]
Row   == [doc : Doc, taken : Number]
Moves == {Still} \cup [what : {"issue", "cancel", "return"}, kind : Kinds]
Jobs  ==
    {Idle}
    \cup [at : {"allocate", "write"}, d : Docs, doc : Doc, taken : Number, move : Moves,
          source : {None} \cup [d : Docs, row : Row]]
    \cup [at : {"remove"}, d : Docs]
    \cup [at : {"recount"}, d : Docs, doc : Doc]

TypeOK ==
    /\ row \in [Docs -> Row \cup {Absent}]
    /\ last \in [Kinds \X Series -> Nat]
    /\ piece \in [units : Nat, status : {"Available", "Reserved", "Sold"}]
    /\ job \in [Handlers -> Jobs]
    /\ given \subseteq (Kinds \X Series) \X Nat \X Docs
    /\ short \in BOOLEAN /\ faults \in Nat

Init ==
    /\ row = [d \in Docs |-> Absent]
    /\ last = [k \in Kinds \X Series |-> 0]
    /\ piece = [units |-> Stock, status |-> "Available"]
    /\ job = [h \in Handlers |-> Idle]
    /\ given = {} /\ short = FALSE /\ faults = 0

Have(d)   == row[d] # Absent
Is(d, s)  == Have(d) /\ row[d].doc.status = s
Goes(h, next) == job' = [job EXCEPT ![h] = next]
Ends(h)       == Goes(h, Idle)

IssuedKinds == {"tax", "challan", "credit"}
Locked(d)   == Kind[d] \in IssuedKinds /\ Have(d) /\ row[d].doc.status # "Draft"

-----------------------------------------------------------------------------
(* Saving.                                                                 *)

Blank    == [status |-> "Draft", number |-> NoNumber, paid |-> 0, back |-> FALSE]
Before(d)  == IF Have(d) THEN row[d].doc ELSE Blank
Columns(d) == IF Have(d) THEN row[d].taken ELSE NoNumber

(* statusChangeProblem. *)
MayBecome(d, status, back) ==
    \/ Have(d) /\ status = Before(d).status
    \/ status = "Draft" /\ (Kind[d] = "proforma" \/ ~Have(d))
    \/ /\ Kind[d] = "challan" /\ Is(d, "Issued")
       /\ status = "Returned" /\ back

(* paymentsProblem. *)
MayBePaid(d, status, paid) ==
    \/ paid = Before(d).paid
    \/ Kind[d] = "tax" /\ status = "Issued" /\ paid <= Worth[d]

(* A draft whose handler died between taking a number and writing it. *)
Unsaid(d) == Have(d) /\ row[d].doc.number = NoNumber /\ row[d].taken # NoNumber

(* PUT: the whole document as someone's device has it, with the number of  *)
(* the stored one; its store and date are locked once it is issued. Pieces *)
(* that come back with it are moved. With the gap, a draft leaves the      *)
(* series in which it has taken a number already.                          *)
Save(h, d, status, paid, back, in) ==
    /\ job[h] = Idle
    /\ MayBecome(d, status, back) /\ MayBePaid(d, status, paid)
    /\ back # Before(d).back => Kind[d] = "challan"
    /\ Locked(d) => in = row[d].doc.series
    /\ Unsaid(d) /\ in # row[d].doc.series => "redated" \in DocGaps
    /\ Goes(h, [at |-> "write", d |-> d, taken |-> Columns(d), source |-> None,
                doc |-> [status |-> status, series |-> in, number |-> Before(d).number,
                         paid |-> paid, back |-> back],
                move |-> IF Have(d) /\ back /\ ~Before(d).back
                         THEN [what |-> "return", kind |-> "challan"] ELSE Still])
    /\ UNCHANGED <<row, last, piece, given, short, faults>>

-----------------------------------------------------------------------------
(* Issuing.                                                                *)

NotesOn(d) == {n \in Docs : Kind[n] = "credit" /\ Source[n] = d /\ Is(n, "Issued")}

(* What documents come to, counted rupee by rupee. *)
Rupees(S) == UNION {{d} \X (1..Worth[d]) : d \in S}
Total(S)  == Cardinality(Rupees(S))

(* creditRoom: what issued credit notes leave of an invoice. Mutant: the   *)
(* whole invoice.                                                          *)
WholeInvoice(note) == Worth[Source[note]]
Room(note) == Worth[Source[note]] - Total(NotesOn(Source[note]) \ {note})

(* noteProblem, for a credit note. *)
NoteStands(d) ==
    Kind[d] = "credit" =>
        /\ Source[d] # None /\ Is(Source[d], "Issued")
        /\ Worth[d] <= Room(d)

(* sourceAfterIssue: the proforma of an invoice is converted and its       *)
(* challan invoiced.                                                       *)
Becomes(s, status) == [row[s] EXCEPT !.doc = [@ EXCEPT !.status = status]]
SourceAfter(d) ==
    LET s == Source[d] IN
    IF Kind[d] # "tax" \/ s = None THEN None
    ELSE IF ~Have(s) THEN None
    ELSE IF Kind[s] = "proforma" /\ row[s].doc.status # "Converted"
    THEN [d |-> s, row |-> Becomes(s, "Converted")]
    ELSE IF Kind[s] = "challan" /\ row[s].doc.status = "Issued"
    THEN [d |-> s, row |-> Becomes(s, "Invoiced")]
    ELSE None

(* POST issue of a draft: checked, and its source read, before a number is *)
(* taken for it.                                                           *)
Issue(h, d) ==
    /\ job[h] = Idle
    /\ Kind[d] \in IssuedKinds /\ Is(d, "Draft") /\ NoteStands(d)
    /\ Goes(h, [at |-> "allocate", d |-> d, taken |-> NoNumber, source |-> SourceAfter(d),
                doc |-> [row[d].doc EXCEPT !.status = "Issued"],
                move |-> IF Kind[d] = "credit" THEN Still
                         ELSE [what |-> "issue", kind |-> Kind[d]]])
    /\ UNCHANGED <<row, last, piece, given, short, faults>>

(* The next number of a series: one more than the last given. Mutant: than *)
(* the highest still on record, as the app itself counts (nextSeq).        *)
AfterHighest(k) ==
    Max({0} \cup {row[d].taken.seq : d \in {e \in Docs : Have(e) /\ <<Kind[e], row[e].taken.series>> = k}}) + 1
NextNumber(k)   == last[k] + 1

(* allocate: the counter and the document change together, and only while  *)
(* the document has no number. Mutant: the counter at every attempt.       *)
CountEachTime(d, in) == NextNumber(<<Kind[d], in>>)
Count(d, in) == IF row[d].taken = NoNumber THEN NextNumber(<<Kind[d], in>>) ELSE last[<<Kind[d], in>>]
Take(d, in)  == IF row[d].taken = NoNumber THEN [series |-> in, seq |-> Count(d, in)] ELSE row[d].taken

GivenTo(d, number) == <<<<Kind[d], number.series>>, number.seq, d>>

(* Then the number is read back, and said with the store and date of the   *)
(* document as the handler has it; one that is gone fails there.           *)
Allocate(h) ==
    /\ job[h].at = "allocate"
    /\ LET d  == job[h].d
           in == job[h].doc.series IN
       IF ~Have(d) THEN Ends(h) /\ UNCHANGED <<row, last, given>>
       ELSE /\ Count(d, in) <= MaxNumber[<<Kind[d], in>>]
            /\ last' = [last EXCEPT ![<<Kind[d], in>>] = Count(d, in)]
            /\ row' = [row EXCEPT ![d] = [@ EXCEPT !.taken = Take(d, in)]]
            /\ given' = given \cup {GivenTo(d, Take(d, in))}
            /\ Goes(h, [job[h] EXCEPT !.at = "write", !.taken = Take(d, in),
                         !.doc = [@ EXCEPT !.number = [series |-> in, seq |-> Take(d, in).seq]]])
    /\ UNCHANGED <<piece, short, faults>>

-----------------------------------------------------------------------------
(* Writing a document, its source and the piece, in one batch.             *)

(* The columns of a number are set by an insert only. *)
Written(d, doc, taken) == [doc |-> doc, taken |-> IF Have(d) THEN row[d].taken ELSE taken]

(* moveStatements, and stockStatements for a tax invoice. Mutant: a piece  *)
(* on approval is not taken out.                                           *)
Taken(from) ==
    IF piece.status \notin from THEN piece
    ELSE [units  |-> IF piece.units > 1 THEN piece.units - 1 ELSE 0,
          status |-> IF piece.units > 1 THEN "Available" ELSE "Sold"]
TakenIfFree == Taken({"Available"})
TakenOut    == Taken({"Available", "Reserved"})
PutBack  == [units  |-> piece.units + 1,
             status |-> IF piece.status = "Sold" THEN "Available" ELSE piece.status]
Moved(from, to) == [piece EXCEPT !.status = IF @ = from THEN to ELSE @]

Effect(move) ==
    IF move.what = "none" THEN piece
    ELSE IF move.kind = "tax"
    THEN IF move.what = "issue" THEN TakenOut ELSE PutBack
    ELSE IF move.what = "issue" THEN Moved("Available", "Reserved")
    ELSE Moved("Reserved", "Available")

IsShort(move) ==
    /\ move.what = "issue" /\ move.kind = "tax"
    /\ \/ piece.status = "Sold"
       \/ piece.units = 0

(* A proforma saved for the first time then takes its number, and is       *)
(* written again with it.                                                  *)
Write(h) ==
    /\ job[h].at = "write"
    /\ LET d == job[h].d
           s == job[h].source IN
       /\ row' = [e \in Docs |->
            IF e = d THEN Written(d, job[h].doc, job[h].taken)
            ELSE IF s # None /\ s.d = e THEN Written(e, s.row.doc, s.row.taken)
            ELSE row[e]]
       /\ piece' = Effect(job[h].move)
       /\ piece'.units <= MaxUnits
       /\ short' = (short \/ IsShort(job[h].move))
       /\ IF Kind[d] = "proforma" /\ job[h].doc.number = NoNumber
          THEN Goes(h, [job[h] EXCEPT !.at = "allocate", !.move = Still])
          ELSE Ends(h)
    /\ UNCHANGED <<last, given, faults>>

-----------------------------------------------------------------------------
(* Cancelling and removing.                                                *)

(* Mutant: the notes on an invoice are not looked at. *)
NotesAllowed(d) == TRUE
NoNotes(d)      == NotesOn(d) = {}

Cancel(h, d) ==
    /\ job[h] = Idle
    /\ Locked(d) /\ row[d].doc.status # "Cancelled"
    /\ row[d].doc.paid = 0
    /\ NoNotes(d)
    /\ Goes(h, [at |-> "write", d |-> d, taken |-> row[d].taken, source |-> None,
                doc |-> [row[d].doc EXCEPT !.status = "Cancelled"],
                move |-> IF Kind[d] = "credit" THEN Still
                         ELSE [what |-> "cancel", kind |-> Kind[d]]])
    /\ UNCHANGED <<row, last, piece, given, short, faults>>

(* Drafts and proformas can be removed. Mutant: and what was cancelled. *)
RemovableIfCancelled(d) == ~Locked(d) \/ Is(d, "Cancelled")
Removable(d)            == ~Locked(d)

Remove(h, d) ==
    /\ job[h] = Idle
    /\ Have(d) /\ Removable(d)
    /\ Goes(h, [at |-> "remove", d |-> d])
    /\ UNCHANGED <<row, last, piece, given, short, faults>>

Delete(h) ==
    /\ job[h].at = "remove"
    /\ row' = [row EXCEPT ![job[h].d] = Absent]
    /\ Ends(h)
    /\ UNCHANGED <<last, piece, given, short, faults>>

(* syncInvoicePaid reads a document and writes it back whole, with what    *)
(* its links collected, if it is still there.                              *)
Recount(h, d) ==
    /\ job[h] = Idle
    /\ Have(d) /\ Kind[d] \in {"proforma", "tax"}
    /\ Goes(h, [at |-> "recount", d |-> d, doc |-> row[d].doc])
    /\ UNCHANGED <<row, last, piece, given, short, faults>>

Recounted(h) ==
    /\ job[h].at = "recount"
    /\ row' = IF Have(job[h].d) THEN [row EXCEPT ![job[h].d] = [@ EXCEPT !.doc = job[h].doc]] ELSE row
    /\ Ends(h)
    /\ UNCHANGED <<last, piece, given, short, faults>>

Die(h) ==
    /\ job[h] # Idle
    /\ faults < MaxFaults /\ faults' = faults + 1
    /\ Ends(h)
    /\ UNCHANGED <<row, last, piece, given, short>>

Next ==
    \E h \in Handlers :
        \/ \E d \in Docs :
             \/ \E status \in StatusOf(Kind[d]), paid \in {0, Worth[d]},
                   back \in BOOLEAN, in \in MayBeIn[d] : Save(h, d, status, paid, back, in)
             \/ Issue(h, d) \/ Cancel(h, d) \/ Remove(h, d) \/ Recount(h, d)
        \/ Allocate(h) \/ Write(h) \/ Delete(h) \/ Recounted(h)
        \/ Die(h)

Spec == Init /\ [][Next]_vars

-----------------------------------------------------------------------------
(* However handlers overlap and wherever workers die, no number is left    *)
(* out of a series: every number up to the last was given (allocate).      *)
NoneLeftOut == \A k \in Kinds \X Series : \A n \in 1..last[k] : \E x \in given : x[1] = k /\ x[2] = n

(* When handlers run one at a time (Handlers has one element):             *)

(* no document says a number that was not given to it, or that was given   *)
(* to another one too, even one removed since, wherever a worker died and  *)
(* whatever store and year a draft had before it took one (issue,          *)
(* allocate); one that leaves its series afterwards is the gap "redated";  *)
OneDocumentPerNumber ==
    \A d \in Docs : Have(d) /\ row[d].doc.number # NoNumber =>
        LET number == GivenTo(d, row[d].doc.number) IN
        /\ number \in given
        /\ \A x \in given : x[1] = number[1] /\ x[2] = number[2] => x[3] = d

(* once a document is issued it stays on record with its number, and never *)
(* becomes a draft again (lockedFieldChanged, remove);                     *)
IssuedStay    == \A d \in Docs : Locked(d) => Locked(d)' /\ row'[d].doc.number = row[d].doc.number
IssuedForever == [][IssuedStay]_vars

(* credit notes never take an invoice below zero (creditRoom), they and    *)
(* payments only stand on an issued invoice (cancel, noteProblem).         *)
CreditWithinInvoice ==
    \A d \in Docs : Kind[d] = "tax" => Total(NotesOn(d)) <= Worth[d]
OnlyOnIssued ==
    \A d \in Docs : Is(d, "Cancelled") => row[d].doc.paid = 0 /\ NotesOn(d) = {}

(* The units that issued invoices took (stockStatements).                  *)
Out == {d \in Docs : Kind[d] = "tax" /\ Is(d, "Issued")}

(* Cancelling an invoice never puts up for sale a unit that another issued *)
(* invoice sold: an older document never undoes a later sale               *)
(* (invoices.ts:122).                                                      *)
NeverUndoesASale == piece.units > 0 => piece.units + Cardinality(Out) <= Stock
=============================================================================

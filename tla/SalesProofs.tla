----------------------------- MODULE SalesProofs -----------------------------
(***************************************************************************)
(* Proofs about Invoicing and about Sales, which adds the sales and tills. *)
(*                                                                         *)
(* Invoicing, for any documents, handlers and bounds, and however handlers *)
(* overlap: types, that no number is given to two documents, and that none *)
(* is left out. And one handler at a time: what it writes is still right   *)
(* (Fresh), and with it what is issued and cancelled, the units of the     *)
(* piece, and what credit notes come to; and a document that says a number *)
(* says the one it was given (Said), which no other says.                  *)
(*                                                                         *)
(* Sales, for any sales and tills too: types, that sales and edits of the  *)
(* piece leave the documents as they were, that the device is right about  *)
(* its sales, and that units add up.                                       *)
(***************************************************************************)
EXTENDS Sales, FiniteSetTheorems, TLAPS

USE InvoicingAssumption

-----------------------------------------------------------------------------
(* Types.                                                                  *)

LEMMA OneJob ==
    ASSUME job \in [Handlers -> Jobs], NEW h \in Handlers, NEW j \in Jobs, Goes(h, j)
    PROVE  /\ job' \in [Handlers -> Jobs]
           /\ job'[h] = j
           /\ \A g \in Handlers : g # h => job'[g] = job[g]
BY DEF Goes

LEMMA OneEnd ==
    ASSUME job \in [Handlers -> Jobs], NEW h \in Handlers, Ends(h)
    PROVE  /\ job' \in [Handlers -> Jobs]
           /\ job'[h] = Idle
           /\ \A g \in Handlers : g # h => job'[g] = job[g]
<1>1. Idle \in Jobs
  BY DEF Jobs
<1>2. QED
  BY <1>1, OneJob DEF Ends

(* The jobs that write a document, and those that recount one.             *)
WriteJobs   == [at : {"allocate", "write"}, d : Docs, doc : Doc, taken : Number, move : Moves,
                source : {None} \cup [d : Docs, row : Row]]
RecountJobs == [at : {"recount"}, d : Docs, doc : Doc]

LEMMA Places ==
    ASSUME NEW j \in Jobs
    PROVE  /\ j.at \in {"allocate", "write"} => j \in WriteJobs
           /\ j.at = "recount" => j \in RecountJobs
           /\ j.at = "remove" => j.d \in Docs
BY DEF Jobs, WriteJobs, RecountJobs, Idle

LEMMA BeforeTyped ==
    ASSUME TypeOK, NEW d \in Docs
    PROVE  /\ Before(d).status \in Statuses /\ Before(d).number \in Number
           /\ Before(d).paid \in Nat /\ Before(d).back \in BOOLEAN
           /\ Columns(d) \in Number
<1>1. CASE Have(d)
  <2>1. row[d] \in Row
    BY <1>1 DEF TypeOK, Have
  <2>2. QED
    BY <1>1, <2>1 DEF Row, Doc, Before, Columns
<1>2. CASE ~Have(d)
  BY <1>2 DEF Before, Columns, Blank, Statuses, Number
<1>3. QED
  BY <1>1, <1>2

LEMMA HaveTyped ==
    ASSUME TypeOK, NEW d \in Docs, Have(d)
    PROVE  row[d] \in Row /\ row[d].doc \in Doc /\ row[d].taken \in Number
BY DEF TypeOK, Have, Row

LEMMA BecomesTyped ==
    ASSUME TypeOK, NEW s \in Docs, Have(s), NEW status \in Statuses
    PROVE  Becomes(s, status) \in Row
BY HaveTyped DEF Becomes, Row, Doc

(* What a handler about to take a number for a document on record takes.   *)
LEMMA TakenTyped ==
    ASSUME TypeOK, NEW j \in WriteJobs, Have(j.d)
    PROVE  LET k     == <<Kind[j.d], j.doc.series>>
               taken == Take(j.d, j.doc.series) IN
           /\ j.doc.series \in Series /\ k \in Kinds \X Series /\ last[k] \in Nat
           /\ Count(j.d, j.doc.series) \in Nat
           /\ taken \in Number /\ taken.seq \in Nat /\ taken.series \in Series
<1> DEFINE d  == j.d
           in == j.doc.series
           k  == <<Kind[d], in>>
<1>1. d \in Docs /\ in \in Series
  BY DEF WriteJobs, Doc
<1>2. k \in Kinds \X Series /\ last[k] \in Nat
  BY <1>1 DEF TypeOK
<1>3. row[d].taken \in Number
  BY <1>1, HaveTyped
<1>4. Count(d, in) \in Nat
  BY <1>2 DEF Count, NextNumber
<1>5. Take(d, in) \in [series : Series, seq : Nat]
  BY <1>1, <1>3, <1>4 DEF Take, Number
<1>6. QED
  BY <1>1, <1>2, <1>4, <1>5 DEF Number

LEMMA SourceTyped ==
    ASSUME TypeOK, NEW d \in Docs
    PROVE  SourceAfter(d) \in {None} \cup [d : Docs, row : Row]
<1>1. CASE SourceAfter(d) = None
  BY <1>1
<1>2. CASE SourceAfter(d) # None
  <2>1. Source[d] \in Docs /\ Have(Source[d])
    BY <1>2 DEF SourceAfter
  <2>2. PICK status \in {"Converted", "Invoiced"} :
            SourceAfter(d) = [d |-> Source[d], row |-> Becomes(Source[d], status)]
    BY <1>2 DEF SourceAfter
  <2>3. Becomes(Source[d], status) \in Row
    BY <2>1, BecomesTyped DEF Statuses
  <2>4. QED
    BY <2>1, <2>2, <2>3
<1>3. QED
  BY <1>1, <1>2

LEMMA Typed == ASSUME TypeOK, Next PROVE TypeOK'
<1> USE DEF TypeOK
<1>1. PICK h \in Handlers :
        \/ \E d \in Docs :
             \/ \E status \in StatusOf(Kind[d]), paid \in {0, Worth[d]},
                   back \in BOOLEAN, in \in MayBeIn[d] : Save(h, d, status, paid, back, in)
             \/ Issue(h, d) \/ Cancel(h, d) \/ Remove(h, d) \/ Recount(h, d)
        \/ Allocate(h) \/ Write(h) \/ Delete(h) \/ Recounted(h)
        \/ Die(h)
  BY DEF Next
<1>2. ASSUME NEW d \in Docs, NEW status \in StatusOf(Kind[d]), NEW paid \in {0, Worth[d]},
             NEW back \in BOOLEAN, NEW in \in MayBeIn[d], Save(h, d, status, paid, back, in)
      PROVE  TypeOK'
  <2>1. [status |-> status, series |-> in, number |-> Before(d).number, paid |-> paid, back |-> back] \in Doc
    BY BeforeTyped DEF Doc, StatusOf, Statuses, Kinds
  <2>2. [what |-> "return", kind |-> "challan"] \in Moves /\ Still \in Moves
    BY DEF Moves, Kinds
  <2>3. \E j \in Jobs : Goes(h, j)
    BY <1>2, <2>1, <2>2, BeforeTyped DEF Save, Jobs
  <2>4. QED
    BY <1>2, <2>3, OneJob DEF Save
<1>3. ASSUME NEW d \in Docs, Issue(h, d) PROVE TypeOK'
  <2>1. [row[d].doc EXCEPT !.status = "Issued"] \in Doc
    BY <1>3, HaveTyped DEF Issue, Is, Doc, Statuses
  <2>2. (IF Kind[d] = "credit" THEN Still ELSE [what |-> "issue", kind |-> Kind[d]]) \in Moves
    BY DEF Moves
  <2>3. NoNumber \in Number
    BY DEF Number
  <2>4. \E j \in Jobs : Goes(h, j)
    BY <1>3, <2>1, <2>2, <2>3, SourceTyped DEF Issue, Jobs
  <2>5. QED
    BY <1>3, <2>4, OneJob DEF Issue
<1>4. ASSUME NEW d \in Docs, Cancel(h, d) PROVE TypeOK'
  <2>1. row[d].taken \in Number /\ [row[d].doc EXCEPT !.status = "Cancelled"] \in Doc
    BY <1>4, HaveTyped DEF Cancel, Locked, Doc, Statuses
  <2>2. (IF Kind[d] = "credit" THEN Still ELSE [what |-> "cancel", kind |-> Kind[d]]) \in Moves
    BY DEF Moves
  <2>3. \E j \in Jobs : Goes(h, j)
    BY <1>4, <2>1, <2>2 DEF Cancel, Jobs
  <2>4. QED
    BY <1>4, <2>3, OneJob DEF Cancel
<1>5. ASSUME NEW d \in Docs, Remove(h, d) \/ Recount(h, d) PROVE TypeOK'
  <2>1. \E j \in Jobs : Goes(h, j)
    BY <1>5, HaveTyped DEF Remove, Recount, Jobs
  <2>2. QED
    BY <1>5, <2>1, OneJob DEF Remove, Recount
<1>6. CASE Allocate(h)
  <2> DEFINE d     == job[h].d
             in    == job[h].doc.series
             k     == <<Kind[d], in>>
             taken == Take(d, in)
             says  == [series |-> in, seq |-> taken.seq]
  <2>1. job[h] \in WriteJobs /\ d \in Docs
    BY <1>6, Places DEF Allocate, WriteJobs
  <2>2. CASE ~Have(d)
    BY <1>6, <2>2, OneEnd DEF Allocate
  <2>3. CASE Have(d)
    <3>1. row[d] \in Row /\ row[d].taken \in Number
      BY <2>1, <2>3, HaveTyped
    <3>2. /\ in \in Series /\ k \in Kinds \X Series /\ last[k] \in Nat
          /\ Count(d, in) \in Nat /\ taken \in Number /\ taken.seq \in Nat /\ taken.series \in Series
      BY <2>1, <2>3, TakenTyped
    <3>3. /\ [row[d] EXCEPT !.taken = taken] \in Row
          /\ [job[h].doc EXCEPT !.number = says] \in Doc
      BY <2>1, <3>1, <3>2 DEF Row, Doc, WriteJobs, Number
    <3>4. [job[h] EXCEPT !.at = "write", !.taken = taken,
                         !.doc = [job[h].doc EXCEPT !.number = says]] \in WriteJobs
      BY <2>1, <3>2, <3>3 DEF WriteJobs
    <3>5. job' \in [Handlers -> Jobs]
      BY <1>6, <2>3, <3>4, OneJob DEF Allocate, Jobs, WriteJobs
    <3>6. last' \in [Kinds \X Series -> Nat] /\ row' \in [Docs -> Row \cup {Absent}]
      BY <1>6, <2>1, <2>3, <3>2, <3>3 DEF Allocate
    <3>7. GivenTo(d, taken) \in (Kinds \X Series) \X Nat \X Docs
      BY <2>1, <3>2 DEF GivenTo
    <3>8. given' \subseteq (Kinds \X Series) \X Nat \X Docs
      BY <1>6, <2>3, <3>7 DEF Allocate
    <3>9. QED
      BY <1>6, <3>5, <3>6, <3>8 DEF Allocate
  <2>4. QED
    BY <2>2, <2>3
<1>7. CASE Write(h)
  <2> DEFINE d == job[h].d
             s == job[h].source
  <2>1. job[h] \in WriteJobs
    BY <1>7, Places DEF Write
  <2>2. /\ d \in Docs /\ job[h].doc \in Doc /\ job[h].taken \in Number /\ job[h].move \in Moves
        /\ s \in {None} \cup [d : Docs, row : Row]
    BY <2>1 DEF WriteJobs
  <2>3. \A e \in Docs, doc \in Doc, n \in Number : Written(e, doc, n) \in Row
    BY HaveTyped DEF Written, Row
  <2>4. row' \in [Docs -> Row \cup {Absent}]
    BY <1>7, <2>2, <2>3 DEF Write, Row
  <2>5. piece' \in [units : Nat, status : {"Available", "Reserved", "Sold"}]
    BY <1>7, <2>2 DEF Write, Effect, TakenOut, Taken, PutBack, Moved
  <2>6. short' \in BOOLEAN
    BY <1>7 DEF Write, IsShort
  <2>7. [job[h] EXCEPT !.at = "allocate", !.move = Still] \in Jobs
    BY <2>1 DEF Jobs, WriteJobs, Moves
  <2>8. job' \in [Handlers -> Jobs]
    BY <1>7, <2>7, OneJob, OneEnd DEF Write
  <2>9. QED
    BY <1>7, <2>4, <2>5, <2>6, <2>8 DEF Write
<1>8. CASE Delete(h)
  BY <1>8, OneEnd DEF Delete
<1>9. CASE Recounted(h)
  <2>1. job[h].d \in Docs /\ job[h].doc \in Doc
    BY <1>9, Places DEF Recounted, RecountJobs
  <2>2. Have(job[h].d) => [row[job[h].d] EXCEPT !.doc = job[h].doc] \in Row
    BY <2>1, HaveTyped DEF Row
  <2>3. row' \in [Docs -> Row \cup {Absent}]
    BY <1>9, <2>1, <2>2 DEF Recounted
  <2>4. QED
    BY <1>9, <2>3, OneEnd DEF Recounted
<1>10. CASE Die(h)
  BY <1>10, OneEnd DEF Die
<1>11. QED
  BY <1>1, <1>2, <1>3, <1>4, <1>5, <1>6, <1>7, <1>8, <1>9, <1>10

LEMMA TypesStart == Init => TypeOK
<1>1. Idle \in Jobs
  BY DEF Jobs
<1>2. Init => job \in [Handlers -> Jobs]
  BY <1>1 DEF Init
<1>3. Init => piece \in [units : Nat, status : {"Available", "Reserved", "Sold"}]
  BY DEF Init
<1>4. Init => row \in [Docs -> Row \cup {Absent}] /\ last \in [Kinds \X Series -> Nat]
  BY DEF Init
<1>5. Init => given \subseteq (Kinds \X Series) \X Nat \X Docs /\ faults \in Nat
  BY DEF Init
<1>6. Init => short \in BOOLEAN
  BY Zenon DEF Init
<1>7. QED
  BY <1>2, <1>3, <1>4, <1>5, <1>6 DEF TypeOK

(* Every variable keeps its type, however handlers overlap.                *)
THEOREM InvoicingTypes == Spec => []TypeOK
<1>1. TypeOK /\ [Next]_vars => TypeOK'
  <2>1. ASSUME TypeOK, UNCHANGED vars PROVE TypeOK'
    BY <2>1 DEF TypeOK, vars
  <2>2. QED
    BY <2>1, Typed
<1>2. QED
  BY <1>1, TypesStart, PTL DEF Spec

-----------------------------------------------------------------------------
(* Numbers.                                                                *)

(* A number is known when it is none yet, or was given to this document.   *)
Known(d, n)    == n = NoNumber \/ GivenTo(d, n) \in given
RowKnown(d, r) == Known(d, r.taken)

(* So is every number that a handler has read from the columns.            *)
JobKnown(j) ==
    j.at \in {"allocate", "write"} =>
        /\ Known(j.d, j.taken)
        /\ j.source # None => RowKnown(j.source.d, j.source.row)

RowsKnown == \A d \in Docs : Have(d) => RowKnown(d, row[d])
JobsKnown == \A h \in Handlers : JobKnown(job[h])
UpToLast  == \A x \in given : x[2] \in 1..last[x[1]]
GivenOnce == \A x, y \in given : x[1] = y[1] /\ x[2] = y[2] => x[3] = y[3]

Numbered == RowsKnown /\ JobsKnown /\ UpToLast /\ GivenOnce /\ NoneLeftOut

(* What was known stays known when more numbers are given.                 *)
LEMMA StillKnown ==
    ASSUME given \subseteq given'
    PROVE  /\ \A d, n : Known(d, n) => Known(d, n)'
           /\ \A j : JobKnown(j) => JobKnown(j)'
BY DEF Known, JobKnown, RowKnown

(* Every step but Allocate gives no number: rows and jobs must stay known. *)
LEMMA NoNumberGiven ==
    ASSUME Numbered, UNCHANGED <<given, last>>, RowsKnown', JobsKnown'
    PROVE  Numbered'
BY DEF Numbered, UpToLast, GivenOnce, NoneLeftOut

LEMMA BeforeKnown ==
    ASSUME TypeOK, Numbered, NEW d \in Docs
    PROVE  Known(d, Columns(d))
BY DEF Numbered, RowsKnown, RowKnown, Known, Columns

LEMMA SourceKnown ==
    ASSUME TypeOK, Numbered, NEW d \in Docs, SourceAfter(d) # None
    PROVE  RowKnown(SourceAfter(d).d, SourceAfter(d).row)
<1>1. Source[d] \in Docs /\ Have(Source[d])
  BY DEF SourceAfter
<1>2. PICK status \in {"Converted", "Invoiced"} :
          SourceAfter(d) = [d |-> Source[d], row |-> Becomes(Source[d], status)]
  BY DEF SourceAfter
<1>3. Becomes(Source[d], status).taken = row[Source[d]].taken
  BY <1>1, HaveTyped DEF Becomes, Row
<1>4. QED
  BY <1>1, <1>2, <1>3 DEF Numbered, RowsKnown, RowKnown

(* A handler that starts holds numbers it has just read.                   *)
LEMMA StartsKnown ==
    ASSUME TypeOK, Numbered, NEW h \in Handlers, NEW d \in Docs,
           \/ \E status \in StatusOf(Kind[d]), paid \in {0, Worth[d]},
                 back \in BOOLEAN, in \in MayBeIn[d] : Save(h, d, status, paid, back, in)
           \/ Issue(h, d) \/ Cancel(h, d) \/ Remove(h, d) \/ Recount(h, d)
    PROVE  Numbered'
<1> USE DEF TypeOK
<1>1. UNCHANGED <<row, given, last>>
  BY DEF Save, Issue, Cancel, Remove, Recount
<1>2. RowsKnown'
  BY <1>1 DEF Numbered, RowsKnown, RowKnown, Known, Have
<1>3. ASSUME NEW j, Goes(h, j), JobKnown(j) PROVE Numbered'
  <2>1. \A g \in Handlers : JobKnown(job'[g])
    BY <1>3 DEF Goes, Numbered, JobsKnown
  <2>2. JobsKnown'
    BY <1>1, <2>1, StillKnown DEF JobsKnown
  <2>3. QED
    BY <1>1, <1>2, <2>2, NoNumberGiven
<1>4. ASSUME NEW status \in StatusOf(Kind[d]), NEW paid \in {0, Worth[d]}, NEW back \in BOOLEAN,
             NEW in \in MayBeIn[d], Save(h, d, status, paid, back, in)
      PROVE  Numbered'
  BY <1>3, <1>4, BeforeKnown DEF Save, JobKnown
<1>5. CASE Issue(h, d)
  <2>1. Known(d, NoNumber)
    BY DEF Known
  <2>2. QED
    BY <1>3, <1>5, <2>1, SourceKnown DEF Issue, JobKnown
<1>6. CASE Cancel(h, d)
  <2>1. Known(d, row[d].taken)
    BY <1>6 DEF Cancel, Locked, Numbered, RowsKnown, RowKnown
  <2>2. QED
    BY <1>3, <1>6, <2>1 DEF Cancel, JobKnown
<1>7. CASE Remove(h, d) \/ Recount(h, d)
  BY <1>3, <1>7 DEF Remove, Recount, JobKnown, Numbered, RowsKnown, RowKnown
<1>8. QED
  BY <1>4, <1>5, <1>6, <1>7

(* The number taken is the document's own, or the first not given yet.     *)
LEMMA AllocateKnown ==
    ASSUME TypeOK, Numbered, NEW h \in Handlers, Allocate(h)
    PROVE  Numbered'
<1> DEFINE d     == job[h].d
           in    == job[h].doc.series
           k     == <<Kind[d], in>>
           taken == Take(d, in)
           x     == GivenTo(d, taken)
<1> USE DEF TypeOK
<1>1. job[h] \in WriteJobs /\ d \in Docs
  BY Places DEF Allocate, WriteJobs
<1>2. CASE ~Have(d)
  <2>1. UNCHANGED <<row, given, last>> /\ Ends(h)
    BY <1>2 DEF Allocate
  <2>2. \A g \in Handlers : JobKnown(job'[g])
    BY <2>1, OneEnd DEF Numbered, JobsKnown, JobKnown, Idle
  <2>3. RowsKnown' /\ JobsKnown'
    BY <2>1, <2>2, StillKnown DEF Numbered, RowsKnown, RowKnown, Known, Have, JobsKnown
  <2>4. QED
    BY <2>1, <2>3, NoNumberGiven
<1>3. CASE Have(d)
  <2>1. /\ row[d] \in Row /\ k \in Kinds \X Series /\ last[k] \in Nat
        /\ taken \in Number /\ taken.seq \in Nat
    BY <1>1, <1>3, HaveTyped, TakenTyped
  <2>2. /\ given' = given \cup {x}
        /\ last' = [last EXCEPT ![k] = Count(d, in)]
        /\ row' = [row EXCEPT ![d] = [row[d] EXCEPT !.taken = taken]]
        /\ Goes(h, [job[h] EXCEPT !.at = "write", !.taken = taken,
                     !.doc = [job[h].doc EXCEPT !.number = [series |-> in, seq |-> taken.seq]]])
    BY <1>3 DEF Allocate
  <2>3. \/ /\ x[1] = k /\ x[2] = last[k] + 1 /\ x[3] = d
           /\ last' = [last EXCEPT ![k] = last[k] + 1]
        \/ x \in given /\ last' = last
    <3>1. CASE row[d].taken = NoNumber
      <4>1. taken = [series |-> in, seq |-> last[k] + 1] /\ Count(d, in) = last[k] + 1
        BY <3>1 DEF Count, Take, NextNumber
      <4>2. QED
        BY <2>2, <4>1 DEF GivenTo
    <3>2. CASE row[d].taken # NoNumber
      <4>1. taken = row[d].taken /\ Count(d, in) = last[k]
        BY <3>2 DEF Take, Count
      <4>2. x \in given
        BY <1>1, <1>3, <3>2, <4>1 DEF Numbered, RowsKnown, RowKnown, Known
      <4>3. QED
        BY <2>1, <2>2, <4>1, <4>2
    <3>3. QED
      BY <3>1, <3>2
  <2>4. RowsKnown'
    <3>1. \A e \in Docs : e # d => row'[e] = row[e]
      BY <2>2
    <3>2. row'[d].taken = taken
      BY <1>1, <2>1, <2>2 DEF Row
    <3>3. x \in given' /\ given \subseteq given'
      BY <2>2
    <3>4. QED
      BY <1>3, <3>1, <3>2, <3>3 DEF Numbered, RowsKnown, RowKnown, Known, Have
  <2>5. JobsKnown'
    <3>1. given \subseteq given' /\ x \in given'
      BY <2>2
    <3>2. /\ job'[h].at = "write" /\ job'[h].d = d /\ job'[h].source = job[h].source
          /\ job'[h].taken = taken
      BY <1>1, <2>2 DEF Goes, WriteJobs
    <3>3. JobKnown(job[h]) /\ job[h].at = "allocate"
      BY DEF Numbered, JobsKnown, Allocate
    <3>4. JobKnown(job[h])'
      BY <3>1, <3>2, <3>3, StillKnown DEF JobKnown, RowKnown, Known
    <3>5. \A g \in Handlers : g # h => JobKnown(job[g])'
      BY <2>2, <3>1, StillKnown DEF Goes, Numbered, JobsKnown
    <3>6. QED
      BY <3>4, <3>5 DEF JobsKnown
  <2> HIDE DEF x, k
  <2>6. UpToLast'
    BY <2>1, <2>2, <2>3 DEF Numbered, UpToLast
  <2>7. GivenOnce'
    BY <2>1, <2>2, <2>3 DEF Numbered, UpToLast, GivenOnce
  <2>8. NoneLeftOut'
    <3>1. ASSUME NEW c \in Kinds \X Series, NEW n \in 1..last'[c]
          PROVE  \E y \in given' : y[1] = c /\ y[2] = n
      <4>1. CASE n \in 1..last[c]
        BY <2>2, <4>1 DEF Numbered, NoneLeftOut
      <4>2. CASE n \notin 1..last[c]
        <5>1. x[1] = k /\ x[2] = last[k] + 1 /\ last' = [last EXCEPT ![k] = last[k] + 1]
          BY <2>3, <3>1, <4>2
        <5>2. c = k
          <6> SUFFICES ASSUME c # k PROVE last'[c] = last[c]
            BY <3>1, <4>2
          <6>1. c \in DOMAIN last
            BY <3>1
          <6>2. QED
            BY <5>1, <6>1
        <5>3. n = last[k] + 1
          <6>1. last'[k] = last[k] + 1
            BY <2>1, <5>1
          <6>2. n \in 1..(last[k] + 1) /\ n \notin 1..last[k]
            BY <3>1, <4>2, <5>2, <6>1
          <6>3. \A a \in Nat : \A i : i \in 1..(a + 1) /\ i \notin 1..a => i = a + 1
            OBVIOUS
          <6>4. QED
            BY <2>1, <6>2, <6>3
        <5>4. x \in given'
          BY <2>2
        <5>5. QED
          BY <5>1, <5>2, <5>3, <5>4
      <4>3. QED
        BY <4>1, <4>2
    <3>2. QED
      BY <3>1 DEF NoneLeftOut
  <2>9. QED
    BY <2>4, <2>5, <2>6, <2>7, <2>8 DEF Numbered
<1>4. QED
  BY <1>2, <1>3

LEMMA WriteKnown ==
    ASSUME TypeOK, Numbered, NEW h \in Handlers, Write(h)
    PROVE  Numbered'
<1> DEFINE d == job[h].d
           s == job[h].source
<1> USE DEF TypeOK
<1>1. job[h] \in WriteJobs
  BY Places DEF Write
<1>2. /\ Known(d, job[h].taken)
      /\ s # None => RowKnown(s.d, s.row)
  BY DEF Numbered, JobsKnown, JobKnown, Write
<1>3. UNCHANGED <<given, last>>
  BY DEF Write
<1>4. ASSUME NEW e \in Docs, Have(e)' PROVE RowKnown(e, row'[e])
  <2>1. CASE e = d
    BY <1>2, <2>1 DEF Write, Written, RowKnown, Numbered, RowsKnown
  <2>2. CASE e # d /\ s # None /\ s.d = e
    BY <1>2, <2>2 DEF Write, Written, RowKnown, Numbered, RowsKnown
  <2>3. CASE e # d /\ ~(s # None /\ s.d = e)
    BY <1>4, <2>3 DEF Write, Have, Numbered, RowsKnown
  <2>4. QED
    BY <2>1, <2>2, <2>3
<1>5. RowsKnown'
  BY <1>3, <1>4 DEF RowsKnown, RowKnown, Known
<1>6. \A g \in Handlers : JobKnown(job'[g])
  <2>1. CASE Ends(h)
    BY <2>1, OneEnd DEF Numbered, JobsKnown, JobKnown, Idle
  <2>2. CASE Goes(h, [job[h] EXCEPT !.at = "allocate", !.move = Still])
    BY <1>1, <1>2, <2>2 DEF Goes, WriteJobs, Numbered, JobsKnown, JobKnown
  <2>3. QED
    BY <2>1, <2>2 DEF Write
<1>7. QED
  BY <1>3, <1>5, <1>6, StillKnown, NoNumberGiven DEF JobsKnown

LEMMA EndsKnown ==
    ASSUME TypeOK, Numbered, NEW h \in Handlers, Delete(h) \/ Recounted(h) \/ Die(h)
    PROVE  Numbered'
<1> USE DEF TypeOK
<1>1. UNCHANGED <<given, last>> /\ Ends(h)
  BY DEF Delete, Recounted, Die
<1>2. JobsKnown'
  BY <1>1, OneEnd, StillKnown DEF Numbered, JobsKnown, JobKnown, Idle
<1>3. ASSUME NEW e \in Docs, Have(e)' PROVE RowKnown(e, row'[e])
  <2>1. CASE row'[e] = row[e]
    BY <1>3, <2>1 DEF Numbered, RowsKnown, Have
  <2>2. CASE row'[e] # row[e]
    <3>1. Recounted(h) /\ e = job[h].d /\ Have(e) /\ row'[e] = [row[e] EXCEPT !.doc = job[h].doc]
      BY <1>3, <2>2 DEF Delete, Recounted, Die, Have
    <3>2. row'[e].taken = row[e].taken
      BY <3>1, HaveTyped DEF Row
    <3>3. QED
      BY <3>1, <3>2 DEF Numbered, RowsKnown, RowKnown
  <2>3. QED
    BY <2>1, <2>2
<1>4. RowsKnown'
  BY <1>1, <1>3 DEF RowsKnown, RowKnown, Known
<1>5. QED
  BY <1>1, <1>2, <1>4, NoNumberGiven

LEMMA NumbersStart == Init => Numbered
BY DEF Init, Numbered, RowsKnown, JobsKnown, JobKnown, UpToLast, GivenOnce, NoneLeftOut, Have, Idle

LEMMA NumbersStay == ASSUME Numbered, UNCHANGED <<row, last, job, given>> PROVE Numbered'
<1>1. RowsKnown' /\ JobsKnown'
  BY StillKnown DEF Numbered, RowsKnown, RowKnown, Known, Have, JobsKnown
<1>2. QED
  BY <1>1, NoNumberGiven

LEMMA NumbersStep == ASSUME TypeOK, Numbered, Next PROVE Numbered'
BY StartsKnown, AllocateKnown, WriteKnown, EndsKnown DEF Next

LEMMA NumbersKept == Spec => []Numbered
<1>1. TypeOK /\ Numbered /\ [Next]_vars => Numbered'
  BY NumbersStep, NumbersStay DEF vars
<1>2. QED
  BY <1>1, NumbersStart, InvoicingTypes, PTL DEF Spec

LEMMA NumberedSays == Numbered => GivenOnce /\ NoneLeftOut
BY DEF Numbered

(* No number of a series is given to two documents, wherever workers die   *)
(* and however handlers overlap (allocate).                                *)
THEOREM NumbersGivenOnce == Spec => []GivenOnce
BY NumberedSays, NumbersKept, PTL

(* NoneLeftOut: the numbers of a series have no gap (allocate).            *)
THEOREM NumbersHaveNoGap == Spec => []NoneLeftOut
BY NumberedSays, NumbersKept, PTL
-----------------------------------------------------------------------------
(* One handler at a time. What a handler has read is then still so when it *)
(* writes: the document, its source and the credit notes on it.            *)
OneAtATime == \A g, h \in Handlers : g = h

(* What may be stored of a document d: a status of its kind, ...           *)
StatusFits(d, doc) == doc.status \in StatusOf(Kind[d])

(* ... for what is issued, the same number and no draft, ...               *)
KeepsIssue(d, doc) == Locked(d) => doc.status # "Draft" /\ doc.number = row[d].doc.number

(* ... cancelled only if nothing stands on it, and issued only on what is  *)
(* not cancelled.                                                          *)
StandsOn(d, doc) ==
    /\ doc.status = "Cancelled" => doc.paid = 0 /\ NotesOn(d) = {}
    /\ Kind[d] = "credit" /\ doc.status = "Issued" /\ Source[d] \in Docs => ~Is(Source[d], "Cancelled")

MayStore(d, doc) == StatusFits(d, doc) /\ KeepsIssue(d, doc) /\ StandsOn(d, doc)

(* A unit is taken when an invoice becomes issued, and put back when one   *)
(* no longer is.                                                           *)
SameIssue(d, doc) == Kind[d] = "tax" => (doc.status = "Issued" <=> Is(d, "Issued"))
MovesUnit(move)   == move.what # "none" /\ move.kind = "tax"
MoveRight(d, doc, move) ==
    IF ~MovesUnit(move) THEN SameIssue(d, doc)
    ELSE /\ Kind[d] = "tax"
         /\ (move.what = "issue") <=> (doc.status = "Issued")
         /\ (move.what = "issue") <=> ~Is(d, "Issued")

SourceRight(d, source) ==
    source # None =>
        /\ Kind[d] = "tax" /\ Kind[source.d] \in {"proforma", "challan"}
        /\ source.row.doc.status \in {"Converted", "Invoiced"}
        /\ StatusFits(source.d, source.row.doc)
        /\ KeepsIssue(source.d, source.row.doc)

JobFresh(j) ==
    /\ j.at \in {"allocate", "write"} =>
         /\ MayStore(j.d, j.doc)
         /\ MoveRight(j.d, j.doc, j.move)
         /\ SourceRight(j.d, j.source)
    /\ j.at = "recount" =>
         /\ Kind[j.d] \in {"proforma", "tax"}
         /\ MayStore(j.d, j.doc) /\ SameIssue(j.d, j.doc)
    /\ j.at \in {"allocate", "remove"} => ~Locked(j.d)

RowsStand == \A d \in Docs : Have(d) => StatusFits(d, row[d].doc) /\ StandsOn(d, row[d].doc)
Fresh     == RowsStand /\ \A h \in Handlers : JobFresh(job[h])

LEMMA RowIsThere == \A r \in Row : r # Absent
<1>1. "taken" # "doc"
  OBVIOUS
<1>2. DOMAIN Absent = {"doc"} /\ \A r \in Row : "taken" \in DOMAIN r
  BY DEF Row, Absent
<1>3. QED
  BY <1>1, <1>2

(* Neither depends on the columns of a number.                          *)
SameRows == \A d \in Docs : (Have(d)' <=> Have(d)) /\ (Have(d) => row'[d].doc = row[d].doc)

LEMMA SameDocs ==
    ASSUME SameRows
    PROVE  /\ \A d \in Docs : \A s : Is(d, s)' <=> Is(d, s)
           /\ \A d \in Docs : Locked(d)' <=> Locked(d)
           /\ \A d : NotesOn(d)' = NotesOn(d)
<1>1. \A d \in Docs : \A s : Is(d, s)' <=> Is(d, s)
  BY DEF SameRows, Is, Have
<1>2. \A d \in Docs : Locked(d)' <=> Locked(d)
  BY DEF SameRows, Locked, Have
<1>3. \A d : NotesOn(d)' = NotesOn(d)
  BY <1>1 DEF NotesOn
<1>4. QED
  BY <1>1, <1>2, <1>3

LEMMA StillRight ==
    ASSUME SameRows, NEW d \in Docs, NEW doc
    PROVE  /\ StandsOn(d, doc) => StandsOn(d, doc)'
           /\ KeepsIssue(d, doc) => KeepsIssue(d, doc)'
           /\ SameIssue(d, doc) => SameIssue(d, doc)'
<1>1. StandsOn(d, doc) => StandsOn(d, doc)'
  BY SameDocs DEF StandsOn
<1>2. KeepsIssue(d, doc) => KeepsIssue(d, doc)'
  BY SameDocs DEF KeepsIssue, Locked, SameRows
<1>3. SameIssue(d, doc) => SameIssue(d, doc)'
  BY SameDocs DEF SameIssue
<1>4. QED
  BY <1>1, <1>2, <1>3

LEMMA JobStillFresh ==
    ASSUME SameRows, NEW j \in Jobs, JobFresh(j)
    PROVE  JobFresh(j)'
<1>1. CASE j.at \in {"allocate", "write"}
  <2>1. j \in WriteJobs
    BY <1>1, Places
  <2>2. /\ j.d \in Docs
        /\ j.source # None => j.source.d \in Docs
        /\ MayStore(j.d, j.doc) /\ MoveRight(j.d, j.doc, j.move) /\ SourceRight(j.d, j.source)
        /\ j.at = "allocate" => ~Locked(j.d)
    BY <1>1, <2>1 DEF WriteJobs, JobFresh
  <2>3. MayStore(j.d, j.doc)'
    BY <2>2, StillRight DEF MayStore, StatusFits
  <2>4. MoveRight(j.d, j.doc, j.move)'
    BY <2>2, StillRight, SameDocs DEF MoveRight, MovesUnit
  <2>5. SourceRight(j.d, j.source)'
    BY <2>2, StillRight DEF SourceRight, StatusFits
  <2>6. QED
    BY <1>1, <2>2, <2>3, <2>4, <2>5, SameDocs DEF JobFresh
<1>2. CASE j.at = "recount"
  <2>1. j.d \in Docs
    BY <1>2, Places DEF RecountJobs
  <2>2. QED
    BY <1>2, <2>1, StillRight DEF JobFresh, MayStore, StatusFits
<1>3. CASE j.at \notin {"allocate", "write", "recount"}
  BY <1>3, Places, SameDocs DEF JobFresh
<1>4. QED
  BY <1>1, <1>2, <1>3

LEMMA RowsStillStand ==
    ASSUME SameRows, RowsStand
    PROVE  RowsStand'
<1> SUFFICES ASSUME NEW d \in Docs, Have(d)' PROVE StatusFits(d, row'[d].doc) /\ StandsOn(d, row[d].doc)'
  BY DEF RowsStand, StatusFits
<1>1. Have(d) /\ row'[d].doc = row[d].doc
  BY DEF SameRows
<1>2. QED
  BY <1>1, SameDocs DEF RowsStand, StandsOn, StatusFits

(* With one handler, a step is fresh when its own job is.                  *)
LEMMA OnlyOne ==
    ASSUME OneAtATime, NEW h \in Handlers, RowsStand', JobFresh(job[h])'
    PROVE  Fresh'
BY DEF OneAtATime, Fresh

LEMMA EndsFresh ==
    ASSUME TypeOK, NEW h \in Handlers, Ends(h)
    PROVE  JobFresh(job[h])'
BY OneEnd DEF TypeOK, JobFresh, Idle

LEMMA GoesFresh ==
    ASSUME OneAtATime, TypeOK, Fresh, NEW h \in Handlers, NEW j \in Jobs, Goes(h, j), SameRows, JobFresh(j)
    PROVE  Fresh'
<1>1. job'[h] = j
  BY OneJob DEF TypeOK
<1>2. JobFresh(j)' /\ RowsStand'
  BY JobStillFresh, RowsStillStand DEF Fresh
<1>3. JobFresh(job[h])'
  BY <1>1, <1>2
<1>4. QED
  BY <1>2, <1>3, OnlyOne

LEMMA SaveFresh ==
    ASSUME OneAtATime, TypeOK, Fresh, NEW h \in Handlers, NEW d \in Docs,
           NEW status \in StatusOf(Kind[d]), NEW paid \in {0, Worth[d]}, NEW back \in BOOLEAN,
           NEW in \in MayBeIn[d], Save(h, d, status, paid, back, in)
    PROVE  Fresh'
<1> DEFINE doc  == [status |-> status, series |-> in, number |-> Before(d).number, paid |-> paid, back |-> back]
           move == IF Have(d) /\ back /\ ~Before(d).back THEN [what |-> "return", kind |-> "challan"] ELSE Still
           j    == [at |-> "write", d |-> d, taken |-> Columns(d), source |-> None, doc |-> doc, move |-> move]
<1>1. MayBecome(d, status, back) /\ MayBePaid(d, status, paid) /\ Goes(h, j) /\ UNCHANGED row
  BY DEF Save
<1>2. doc \in Doc /\ move \in Moves /\ Columns(d) \in Number
  BY BeforeTyped DEF Doc, StatusOf, Statuses, Kinds, Moves
<1>3. j \in Jobs
  BY <1>2 DEF Jobs
<1>4. \/ Have(d) /\ status = row[d].doc.status
      \/ status = "Draft" /\ (Kind[d] = "proforma" \/ ~Have(d))
      \/ status = "Returned" /\ Kind[d] = "challan"
  BY <1>1 DEF MayBecome, Before
<1>5. KeepsIssue(d, doc)
  BY <1>4 DEF KeepsIssue, Locked, Before, IssuedKinds
<1>6. StandsOn(d, doc)
  <2>1. CASE status = "Cancelled"
    <3>1. Is(d, "Cancelled") /\ row[d].doc.paid = 0 /\ NotesOn(d) = {}
      BY <1>4, <2>1 DEF Is, Fresh, RowsStand, StandsOn
    <3>2. QED
      BY <1>1, <2>1, <3>1 DEF MayBePaid, Before, Is, StandsOn
  <2>2. CASE status # "Cancelled"
    BY <1>4, <2>2 DEF StandsOn, Fresh, RowsStand
  <2>3. QED
    BY <2>1, <2>2
<1>7. MoveRight(d, doc, move)
  BY <1>4 DEF MoveRight, MovesUnit, SameIssue, Is, Still
<1>8. JobFresh(j)
  BY <1>5, <1>6, <1>7 DEF JobFresh, MayStore, StatusFits, SourceRight
<1>9. SameRows
  BY <1>1 DEF SameRows, Have
<1>10. QED
  BY <1>1, <1>3, <1>8, <1>9, GoesFresh

LEMMA IssueFresh ==
    ASSUME OneAtATime, TypeOK, Fresh, NEW h \in Handlers, NEW d \in Docs, Issue(h, d)
    PROVE  Fresh'
<1> DEFINE doc  == [row[d].doc EXCEPT !.status = "Issued"]
           move == IF Kind[d] = "credit" THEN Still ELSE [what |-> "issue", kind |-> Kind[d]]
           j    == [at |-> "allocate", d |-> d, taken |-> NoNumber, source |-> SourceAfter(d),
                    doc |-> doc, move |-> move]
<1>1. /\ Kind[d] \in IssuedKinds /\ Have(d) /\ row[d].doc.status = "Draft"
      /\ NoteStands(d) /\ Goes(h, j) /\ UNCHANGED row
  BY DEF Issue, Is
<1>2. row[d].doc \in Doc
  BY <1>1, HaveTyped
<1>3. doc \in Doc /\ doc.status = "Issued" /\ move \in Moves
  BY <1>2 DEF Doc, Statuses, Moves
<1>4. j \in Jobs
  <2>1. NoNumber \in Number
    BY DEF Number
  <2>2. QED
    BY <1>3, <2>1, SourceTyped DEF Jobs
<1>5. ~Locked(d)
  BY <1>1 DEF Locked
<1>6. MayStore(d, doc)
  <2>1. StandsOn(d, doc)
    BY <1>1, <1>3 DEF StandsOn, NoteStands, Is
  <2>2. StatusFits(d, doc)
    BY <1>1, <1>3 DEF StatusFits, StatusOf, IssuedKinds
  <2>3. QED
    BY <1>5, <2>1, <2>2 DEF MayStore, KeepsIssue
<1>7. MoveRight(d, doc, move)
  BY <1>1, <1>3 DEF MoveRight, MovesUnit, SameIssue, Is, Still, IssuedKinds
<1>8. SourceRight(d, SourceAfter(d))
  <2> SUFFICES ASSUME SourceAfter(d) # None PROVE SourceRight(d, SourceAfter(d))
    BY DEF SourceRight
  <2> DEFINE s == Source[d]
  <2>1. /\ Kind[d] = "tax" /\ s \in Docs /\ Have(s)
        /\ \/ Kind[s] = "proforma" /\ SourceAfter(d) = [d |-> s, row |-> Becomes(s, "Converted")]
           \/ Kind[s] = "challan" /\ SourceAfter(d) = [d |-> s, row |-> Becomes(s, "Invoiced")]
    BY DEF SourceAfter
  <2>2. \A status \in Statuses :
          /\ Becomes(s, status).doc.status = status
          /\ Becomes(s, status).doc.number = row[s].doc.number
    BY <2>1, HaveTyped DEF Becomes, Row, Doc
  <2>3. QED
    BY <2>1, <2>2 DEF SourceRight, StatusFits, StatusOf, KeepsIssue, Statuses
<1>9. JobFresh(j)
  BY <1>5, <1>6, <1>7, <1>8 DEF JobFresh
<1>10. SameRows
  BY <1>1 DEF SameRows, Have
<1> HIDE DEF j
<1>11. QED
  BY <1>1, <1>4, <1>9, <1>10, GoesFresh

LEMMA CancelFresh ==
    ASSUME OneAtATime, TypeOK, Fresh, NEW h \in Handlers, NEW d \in Docs, Cancel(h, d)
    PROVE  Fresh'
<1> DEFINE doc  == [row[d].doc EXCEPT !.status = "Cancelled"]
           move == IF Kind[d] = "credit" THEN Still ELSE [what |-> "cancel", kind |-> Kind[d]]
           j    == [at |-> "write", d |-> d, taken |-> row[d].taken, source |-> None,
                    doc |-> doc, move |-> move]
<1>1. /\ Kind[d] \in IssuedKinds /\ Have(d) /\ row[d].doc.status \notin {"Draft", "Cancelled"}
      /\ row[d].doc.paid = 0 /\ NotesOn(d) = {} /\ Goes(h, j) /\ UNCHANGED row
  BY DEF Cancel, Locked, NoNotes
<1>2. row[d].doc \in Doc /\ row[d].taken \in Number
  BY <1>1, HaveTyped
<1>3. /\ doc \in Doc /\ move \in Moves
      /\ doc.status = "Cancelled" /\ doc.paid = 0 /\ doc.number = row[d].doc.number
  BY <1>1, <1>2 DEF Doc, Statuses, Moves
<1>4. j \in Jobs
  BY <1>2, <1>3 DEF Jobs
<1>5. MayStore(d, doc)
  BY <1>1, <1>3 DEF MayStore, StatusFits, StatusOf, IssuedKinds, KeepsIssue, StandsOn
<1>6. Kind[d] = "tax" => row[d].doc.status = "Issued"
  BY <1>1 DEF Fresh, RowsStand, StatusFits, StatusOf
<1>7. MoveRight(d, doc, move)
  BY <1>1, <1>3, <1>6 DEF MoveRight, MovesUnit, SameIssue, Is, Still, IssuedKinds
<1>8. JobFresh(j)
  BY <1>5, <1>7 DEF JobFresh, SourceRight
<1>9. SameRows
  BY <1>1 DEF SameRows, Have
<1> HIDE DEF j
<1>10. QED
  BY <1>1, <1>4, <1>8, <1>9, GoesFresh

LEMMA LooksFresh ==
    ASSUME OneAtATime, TypeOK, Fresh, NEW h \in Handlers, NEW d \in Docs, Remove(h, d) \/ Recount(h, d)
    PROVE  Fresh'
<1>1. SameRows
  BY DEF Remove, Recount, SameRows, Have
<1>2. CASE Remove(h, d)
  <2>1. [at |-> "remove", d |-> d] \in Jobs
    BY DEF Jobs
  <2>2. JobFresh([at |-> "remove", d |-> d])
    BY <1>2 DEF JobFresh, Remove, Removable
  <2>3. QED
    BY <1>1, <1>2, <2>1, <2>2, GoesFresh DEF Remove
<1>3. CASE Recount(h, d)
  <2> DEFINE j == [at |-> "recount", d |-> d, doc |-> row[d].doc]
  <2>1. Goes(h, j) /\ Have(d) /\ Kind[d] \in {"proforma", "tax"} /\ row[d].doc \in Doc
    BY <1>3, HaveTyped DEF Recount
  <2>2. j \in Jobs
    BY <2>1 DEF Jobs
  <2>3. MayStore(d, row[d].doc) /\ SameIssue(d, row[d].doc)
    BY <2>1 DEF Fresh, RowsStand, MayStore, KeepsIssue, Locked, SameIssue, Is
  <2>4. JobFresh(j)
    BY <2>1, <2>3 DEF JobFresh
  <2> HIDE DEF j
  <2>5. QED
    BY <1>1, <2>1, <2>2, <2>4, GoesFresh
<1>4. QED
  BY <1>2, <1>3

LEMMA AllocateFresh ==
    ASSUME OneAtATime, TypeOK, Fresh, NEW h \in Handlers, Allocate(h)
    PROVE  Fresh' /\ SameRows
<1> DEFINE d == job[h].d
           n == Take(d, job[h].doc.series)
           m == [series |-> job[h].doc.series, seq |-> n.seq]
           j == [job[h] EXCEPT !.at = "write", !.taken = n, !.doc = [job[h].doc EXCEPT !.number = m]]
<1>1. job[h] \in WriteJobs /\ d \in Docs
  BY Places DEF TypeOK, Allocate, WriteJobs
<1>2. JobFresh(job[h]) /\ job[h].at = "allocate"
  BY DEF Fresh, Allocate
<1>3. CASE ~Have(d)
  <2>1. UNCHANGED row /\ Ends(h)
    BY <1>3 DEF Allocate
  <2>2. SameRows
    BY <2>1 DEF SameRows, Have
  <2>3. QED
    BY <2>1, <2>2, RowsStillStand, EndsFresh, OnlyOne DEF Fresh
<1>4. CASE Have(d)
  <2>1. row' = [row EXCEPT ![d] = [row[d] EXCEPT !.taken = n]] /\ Goes(h, j)
    BY <1>4 DEF Allocate
  <2>2. row[d] \in Row /\ n \in Number /\ m \in Number
    BY <1>1, <1>4, HaveTyped, TakenTyped DEF Number
  <2>3. SameRows
    <3>1. row'[d] \in Row /\ row'[d].doc = row[d].doc
      BY <1>1, <2>1, <2>2 DEF TypeOK, Row
    <3>2. \A e \in Docs : e # d => row'[e] = row[e]
      BY <2>1 DEF TypeOK
    <3>3. row'[d] # Absent
      BY <3>1, RowIsThere
    <3>4. QED
      BY <1>4, <3>1, <3>2, <3>3 DEF SameRows, Have
  <2>4. job[h].doc \in Doc /\ job[h].doc.status \in Statuses
    BY <1>1 DEF WriteJobs, Doc
  <2>5. [job[h].doc EXCEPT !.number = m] \in Doc
    BY <2>2, <2>4 DEF Doc
  <2>6. /\ j \in WriteJobs /\ j.at = "write" /\ j.d = d /\ j.source = job[h].source
        /\ j.move = job[h].move
        /\ j.doc.status = job[h].doc.status /\ j.doc.paid = job[h].doc.paid
    BY <1>1, <2>2, <2>4, <2>5 DEF WriteJobs, Doc
  <2>7. j \in Jobs
    BY <2>6 DEF WriteJobs, Jobs
  <2> HIDE DEF j
  <2>8. JobFresh(j)
    BY <1>1, <1>2, <2>6 DEF JobFresh, MayStore, StatusFits, KeepsIssue, StandsOn, MoveRight, SameIssue
  <2>9. QED
    BY <2>1, <2>3, <2>7, <2>8, GoesFresh
<1>5. QED
  BY <1>3, <1>4

LEMMA SameRowsStay == ASSUME SameRows PROVE IssuedStay
BY SameDocs DEF IssuedStay, SameRows, Locked

LEMMA WrittenIs ==
    ASSUME NEW d \in Docs, NEW doc, NEW taken
    PROVE  Written(d, doc, taken) # Absent /\ Written(d, doc, taken).doc = doc
<1>1. DOMAIN Written(d, doc, taken) = {"doc", "taken"} /\ DOMAIN Absent = {"doc"}
  BY DEF Written, Absent
<1>2. "taken" # "doc"
  OBVIOUS
<1>3. Written(d, doc, taken) # Absent
  BY <1>1, <1>2
<1>4. QED
  BY <1>3 DEF Written

LEMMA WriteFresh ==
    ASSUME OneAtATime, TypeOK, Fresh, NEW h \in Handlers, Write(h)
    PROVE  Fresh' /\ IssuedStay
<1>1. PICK d \in Docs, doc \in Doc, s \in {None} \cup [d : Docs, row : Row] :
        d = job[h].d /\ doc = job[h].doc /\ s = job[h].source
  BY Places DEF TypeOK, Write, WriteJobs
<1>2. MayStore(d, doc) /\ SourceRight(d, s)
  BY <1>1 DEF Fresh, JobFresh, Write
<1>3. \A e \in Docs :
        row'[e] = IF e = d THEN Written(d, doc, job[h].taken)
                  ELSE IF s # None /\ s.d = e THEN Written(e, s.row.doc, s.row.taken)
                  ELSE row[e]
  BY <1>1 DEF Write
<1>4. Have(d)' /\ row'[d].doc = doc
  BY <1>3, WrittenIs DEF Have
<1>5. ASSUME NEW e \in Docs, e # d, s # None, s.d = e
      PROVE  /\ Have(e)' /\ row'[e].doc = s.row.doc
             /\ Kind[e] \in {"proforma", "challan"} /\ s.row.doc.status \in {"Converted", "Invoiced"}
             /\ StatusFits(e, s.row.doc) /\ KeepsIssue(e, s.row.doc)
  BY <1>2, <1>3, <1>5, WrittenIs DEF Have, SourceRight
<1>6. ASSUME NEW e \in Docs, e # d, ~(s # None /\ s.d = e)
      PROVE  (Have(e)' <=> Have(e)) /\ row'[e] = row[e]
  BY <1>3, <1>6 DEF Have
<1>7. IssuedStay
  BY <1>2, <1>4, <1>5, <1>6 DEF IssuedStay, Locked, MayStore, KeepsIssue
<1>8. ASSUME NEW e \in Docs, Have(e)' PROVE StatusFits(e, row'[e].doc)
  BY <1>2, <1>4, <1>5, <1>6, <1>8 DEF Fresh, RowsStand, MayStore
<1>9. ASSUME NEW e \in Docs, Is(e, "Cancelled")'
      PROVE  row'[e].doc.paid = 0 /\ NotesOn(e)' = {}
  <2>1. e # d => Is(e, "Cancelled") /\ row'[e] = row[e]
    BY <1>5, <1>6, <1>9 DEF Is
  <2>2. row'[e].doc.paid = 0 /\ NotesOn(e) = {}
    BY <1>2, <1>4, <1>9, <2>1 DEF MayStore, StandsOn, Is, Fresh, RowsStand
  <2>3. ASSUME NEW n \in Docs, Kind[n] = "credit", Source[n] = e, Is(n, "Issued")' PROVE FALSE
    <3>1. CASE n = d
      <4>1. doc.status = "Issued"
        BY <1>4, <2>3, <3>1 DEF Is
      <4>2. ~Is(e, "Cancelled")
        BY <1>2, <2>3, <3>1, <4>1 DEF MayStore, StandsOn
      <4>3. e = d
        BY <2>1, <4>2
      <4>4. QED
        BY <1>4, <1>9, <4>1, <4>3 DEF Is
    <3>2. CASE n # d
      <4>1. Is(n, "Issued")
        BY <1>5, <1>6, <2>3, <3>2 DEF Is
      <4>2. QED
        BY <2>2, <2>3, <4>1 DEF NotesOn
    <3>3. QED
      BY <3>1, <3>2
  <2>4. NotesOn(e)' = {}
    BY <2>3 DEF NotesOn
  <2>5. QED
    BY <2>2, <2>4
<1>10. RowsStand'
  <2> SUFFICES ASSUME NEW e \in Docs, Have(e)' PROVE StatusFits(e, row[e].doc)' /\ StandsOn(e, row[e].doc)'
    BY DEF RowsStand
  <2>1. StatusFits(e, row[e].doc)'
    BY <1>8 DEF StatusFits
  <2>2. row'[e].doc.status = "Cancelled" => row'[e].doc.paid = 0 /\ NotesOn(e)' = {}
    BY <1>9 DEF Is
  <2>3. ASSUME Kind[e] = "credit", row'[e].doc.status = "Issued", Source[e] \in Docs
        PROVE  ~Is(Source[e], "Cancelled")'
    BY <1>9, <2>3 DEF NotesOn, Is
  <2>4. QED
    BY <2>1, <2>2, <2>3 DEF StandsOn
<1>11. JobFresh(job[h])'
  <2>1. CASE Ends(h)
    BY <2>1, EndsFresh
  <2>2. CASE Kind[d] = "proforma" /\ Goes(h, [job[h] EXCEPT !.at = "allocate", !.move = Still])
    <3>1. job[h] \in WriteJobs
      BY Places DEF TypeOK, Write
    <3> DEFINE j == [job[h] EXCEPT !.at = "allocate", !.move = Still]
    <3>2. j.at = "allocate" /\ j.d = d /\ j.doc = doc /\ j.source = s /\ j.move = Still
      BY <1>1, <3>1 DEF WriteJobs
    <3>3. job'[h] = j
      BY <2>2 DEF Goes, TypeOK
    <3> HIDE DEF j
    <3>4. s = None
      BY <1>2, <2>2 DEF SourceRight
    <3>5. ~Locked(d)'
      BY <2>2 DEF Locked, IssuedKinds
    <3>6. StandsOn(d, doc)'
      <4>1. doc.status = "Cancelled" => doc.paid = 0 /\ NotesOn(d)' = {}
        BY <1>4, <1>9 DEF Is
      <4>2. QED
        BY <2>2, <4>1 DEF StandsOn
    <3>7. MayStore(d, doc)'
      BY <1>2, <3>5, <3>6 DEF MayStore, StatusFits, KeepsIssue
    <3>8. MoveRight(d, doc, Still)' /\ SourceRight(d, None)'
      BY <2>2 DEF MoveRight, MovesUnit, SameIssue, SourceRight, Still
    <3>9. job[h]'.at = "allocate" /\ job[h]'.d = d /\ job[h]'.doc = doc
          /\ job[h]'.source = None /\ job[h]'.move = Still
      BY <3>2, <3>3, <3>4
    <3>10. QED
      BY <3>5, <3>7, <3>8, <3>9 DEF JobFresh
  <2>3. QED
    BY <1>1, <2>1, <2>2 DEF Write
<1>12. QED
  BY <1>7, <1>10, <1>11, OnlyOne

LEMMA EndingsFresh ==
    ASSUME OneAtATime, TypeOK, Fresh, NEW h \in Handlers, Delete(h) \/ Recounted(h) \/ Die(h)
    PROVE  Fresh' /\ IssuedStay
<1>1. JobFresh(job[h])'
  BY EndsFresh DEF Delete, Recounted, Die
<1>2. CASE Die(h)
  <2>1. SameRows
    BY <1>2 DEF Die, SameRows, Have
  <2>2. QED
    BY <1>1, <2>1, RowsStillStand, OnlyOne, SameRowsStay DEF Fresh
<1>3. CASE Delete(h)
  <2>1. PICK d \in Docs : d = job[h].d /\ row' = [row EXCEPT ![d] = Absent] /\ ~Locked(d)
    BY <1>3, Places DEF Delete, TypeOK, Fresh, JobFresh
  <2>2. ~Have(d)' /\ \A e \in Docs : e # d => (Have(e)' <=> Have(e)) /\ row'[e] = row[e]
    BY <2>1 DEF TypeOK, Have
  <2>3. IssuedStay
    BY <2>1, <2>2 DEF IssuedStay, Locked
  <2>4. \A e \in Docs : \A s : Is(e, s)' => Is(e, s)
    BY <2>2 DEF Is
  <2>5. \A e : NotesOn(e)' \subseteq NotesOn(e)
    BY <2>4 DEF NotesOn
  <2>6. ASSUME NEW e \in Docs, Have(e)' PROVE StatusFits(e, row[e].doc)' /\ StandsOn(e, row[e].doc)'
    <3>1. Have(e) /\ row'[e] = row[e] /\ StatusFits(e, row[e].doc) /\ StandsOn(e, row[e].doc)
      BY <2>2, <2>6 DEF Fresh, RowsStand
    <3>2. QED
      BY <2>4, <2>5, <3>1 DEF StatusFits, StandsOn
  <2>7. RowsStand'
    BY <2>6 DEF RowsStand
  <2>8. QED
    BY <1>1, <2>3, <2>7, OnlyOne
<1>4. CASE Recounted(h)
  <2>1. PICK d \in Docs, doc \in Doc : d = job[h].d /\ doc = job[h].doc
    BY <1>4, Places DEF Recounted, TypeOK, RecountJobs
  <2>2. /\ Kind[d] \in {"proforma", "tax"} /\ MayStore(d, doc)
        /\ row' = IF Have(d) THEN [row EXCEPT ![d] = [row[d] EXCEPT !.doc = doc]] ELSE row
    BY <1>4, <2>1 DEF Recounted, Fresh, JobFresh
  <2>3. CASE ~Have(d)
    <3>1. SameRows
      BY <2>2, <2>3 DEF SameRows, Have
    <3>2. QED
      BY <1>1, <3>1, RowsStillStand, OnlyOne, SameRowsStay DEF Fresh
  <2>4. CASE Have(d)
    <3>1. row'[d] \in Row /\ row'[d].doc = doc
      BY <2>2, <2>4, HaveTyped DEF TypeOK, Row
    <3>2. Have(d)' /\ \A e \in Docs : e # d => (Have(e)' <=> Have(e)) /\ row'[e] = row[e]
      BY <2>2, <2>4, <3>1 DEF TypeOK, Have, Row, Absent
    <3>3. IssuedStay
      BY <2>2, <2>4, <3>1, <3>2 DEF IssuedStay, Locked, MayStore, KeepsIssue
    <3>4. \A e \in Docs : \A s : e # d => (Is(e, s)' <=> Is(e, s))
      BY <3>2 DEF Is
    <3>5. \A e : NotesOn(e)' = NotesOn(e)
      BY <2>2, <3>4 DEF NotesOn
    <3>6. Is(d, "Cancelled")' => doc.status = "Cancelled"
      BY <3>1 DEF Is
    <3>7. ASSUME NEW e \in Docs, Kind[e] = "credit", Source[e] \in Docs, Is(e, "Issued")
          PROVE  ~Is(Source[e], "Cancelled")'
      <4>1. ~Is(Source[e], "Cancelled") /\ e \in NotesOn(Source[e])
        BY <3>7 DEF Fresh, RowsStand, StandsOn, Is, NotesOn
      <4>2. CASE Source[e] # d
        BY <3>4, <3>7, <4>1, <4>2
      <4>3. CASE Source[e] = d
        BY <2>2, <3>6, <4>1, <4>3 DEF MayStore, StandsOn
      <4>4. QED
        BY <4>2, <4>3
    <3>8. ASSUME NEW e \in Docs, Have(e)' PROVE StatusFits(e, row[e].doc)' /\ StandsOn(e, row[e].doc)'
      <4>1. CASE e = d
        BY <2>2, <3>1, <3>5, <4>1 DEF MayStore, StatusFits, StandsOn
      <4>2. CASE e # d
        <5>1. Have(e) /\ row'[e] = row[e] /\ StatusFits(e, row[e].doc) /\ StandsOn(e, row[e].doc)
          BY <3>2, <3>8, <4>2 DEF Fresh, RowsStand
        <5>2. QED
          BY <3>5, <3>7, <5>1 DEF StatusFits, StandsOn, Is
      <4>3. QED
        BY <4>1, <4>2
    <3>9. RowsStand'
      BY <3>8 DEF RowsStand
    <3>10. QED
      BY <1>1, <3>3, <3>9, OnlyOne
  <2>5. QED
    BY <2>3, <2>4
<1>5. QED
  BY <1>2, <1>3, <1>4

LEMMA FreshStart == Init => Fresh
BY DEF Init, Fresh, RowsStand, JobFresh, Have, Idle

LEMMA FreshStays == ASSUME TypeOK, Fresh, UNCHANGED <<row, job>> PROVE Fresh' /\ IssuedStay
<1>1. SameRows
  BY DEF SameRows, Have
<1>2. \A h \in Handlers : JobFresh(job[h])'
  <2> SUFFICES ASSUME NEW h \in Handlers PROVE JobFresh(job[h])'
    OBVIOUS
  <2>1. PICK j \in Jobs : j = job[h]
    BY DEF TypeOK
  <2>2. JobFresh(j)'
    BY <1>1, <2>1, JobStillFresh DEF Fresh
  <2>3. job[h]' = j
    BY <2>1
  <2>4. QED
    BY <2>2, <2>3
<1>3. QED
  BY <1>1, <1>2, RowsStillStand, SameRowsStay DEF Fresh

LEMMA FreshStep ==
    ASSUME OneAtATime, TypeOK, Fresh, Next
    PROVE  Fresh' /\ IssuedStay
<1>1. ASSUME NEW h \in Handlers, NEW d \in Docs,
             \/ \E status \in StatusOf(Kind[d]), paid \in {0, Worth[d]},
                   back \in BOOLEAN, in \in MayBeIn[d] : Save(h, d, status, paid, back, in)
             \/ Issue(h, d) \/ Cancel(h, d) \/ Remove(h, d) \/ Recount(h, d)
      PROVE  Fresh' /\ IssuedStay
  <2>1. SameRows
    BY <1>1 DEF Save, Issue, Cancel, Remove, Recount, SameRows, Have
  <2>2. QED
    BY <1>1, <2>1, SaveFresh, IssueFresh, CancelFresh, LooksFresh, SameRowsStay
<1>2. ASSUME NEW h \in Handlers, Allocate(h) PROVE Fresh' /\ IssuedStay
  BY <1>2, AllocateFresh, SameRowsStay
<1>3. QED
  BY <1>1, <1>2, WriteFresh, EndingsFresh DEF Next

LEMMA FreshSays == Fresh => OnlyOnIssued
BY DEF Fresh, RowsStand, StandsOn, OnlyOnIssued, Is

-----------------------------------------------------------------------------
(* Units, one handler at a time.                                           *)

(* What a step that issues nothing short does to them.                     *)
UnitsFollow ==
    /\ IsFiniteSet(Out')
    /\ short => short'
    /\ ~short' => piece'.units + Cardinality(Out') = piece.units + Cardinality(Out)

LEMMA OutSame ==
    ASSUME IsFiniteSet(Out), UNCHANGED <<piece, short>>,
           \A d \in Docs : Kind[d] = "tax" => (Is(d, "Issued")' <=> Is(d, "Issued"))
    PROVE  UnitsFollow
<1>1. Out' = Out
  BY DEF Out
<1>2. QED
  BY <1>1 DEF UnitsFollow

LEMMA SameRowsUnits ==
    ASSUME IsFiniteSet(Out), UNCHANGED <<piece, short>>, SameRows
    PROVE  UnitsFollow
BY SameDocs, OutSame

LEMMA WriteUnits ==
    ASSUME TypeOK, Fresh, IsFiniteSet(Out), NEW h \in Handlers, Write(h)
    PROVE  UnitsFollow
<1>1. PICK d \in Docs, doc \in Doc, s \in {None} \cup [d : Docs, row : Row], move \in Moves :
        d = job[h].d /\ doc = job[h].doc /\ s = job[h].source /\ move = job[h].move
  BY Places DEF TypeOK, Write, WriteJobs
<1>2. MoveRight(d, doc, move) /\ SourceRight(d, s)
  BY <1>1 DEF Fresh, JobFresh, Write
<1>3. /\ \A e \in Docs :
           row'[e] = IF e = d THEN Written(d, doc, job[h].taken)
                     ELSE IF s # None /\ s.d = e THEN Written(e, s.row.doc, s.row.taken)
                     ELSE row[e]
      /\ piece' = Effect(move) /\ short' = (short \/ IsShort(move))
  BY <1>1 DEF Write
<1>4. Is(d, "Issued")' <=> doc.status = "Issued"
  BY <1>3, WrittenIs DEF Is, Have
<1>5. ASSUME NEW e \in Docs, e # d, Kind[e] = "tax" PROVE Is(e, "Issued")' <=> Is(e, "Issued")
  <2>1. ~(s # None /\ s.d = e)
    BY <1>2, <1>5 DEF SourceRight
  <2>2. row'[e] = row[e]
    BY <1>3, <1>5, <2>1
  <2>3. QED
    BY <2>2 DEF Is, Have
<1>6. piece.units \in Nat /\ piece.status \in {"Available", "Reserved", "Sold"} /\ short \in BOOLEAN
  BY DEF TypeOK
<1>7. short => short'
  BY <1>3
<1>8. Cardinality(Out) \in Nat
  BY FS_CardinalityType
<1>9. CASE ~MovesUnit(move)
  <2>1. Out' = Out
    BY <1>2, <1>4, <1>5, <1>9 DEF Out, MoveRight, SameIssue
  <2>2. piece'.units = piece.units
    BY <1>3, <1>6, <1>9 DEF Effect, MovesUnit, Moved, TypeOK
  <2>3. QED
    BY <1>7, <2>1, <2>2 DEF UnitsFollow
<1>10. CASE MovesUnit(move) /\ move.what = "issue"
  <2>1. d \notin Out /\ Out' = Out \cup {d}
    BY <1>2, <1>4, <1>5, <1>10 DEF Out, MoveRight
  <2>2. IsFiniteSet(Out') /\ Cardinality(Out') = Cardinality(Out) + 1
    BY <2>1, FS_AddElement
  <2>3. ~short' => piece'.units = piece.units - 1
    <3>1. move.what = "issue" /\ move.kind = "tax"
      BY <1>10 DEF MovesUnit
    <3>2. piece' = TakenOut
      BY <1>3, <3>1 DEF Effect
    <3>3. ~short' => piece.status # "Sold" /\ piece.units # 0
      BY <1>3, <3>1 DEF IsShort
    <3>4. piece.status # "Sold" /\ piece.units # 0 => TakenOut.units = piece.units - 1
      BY <1>6 DEF TakenOut, Taken
    <3>5. QED
      BY <3>2, <3>3, <3>4
  <2>4. QED
    BY <1>6, <1>7, <1>8, <2>2, <2>3 DEF UnitsFollow
<1>11. CASE MovesUnit(move) /\ move.what # "issue"
  <2>1. d \in Out /\ Out' = Out \ {d}
    BY <1>2, <1>4, <1>5, <1>11 DEF Out, MoveRight
  <2>2. IsFiniteSet(Out') /\ Cardinality(Out') = Cardinality(Out) - 1
    BY <2>1, FS_RemoveElement
  <2>3. piece'.units = piece.units + 1
    BY <1>3, <1>11 DEF Effect, MovesUnit, PutBack
  <2>4. QED
    BY <1>6, <1>7, <1>8, <2>2, <2>3 DEF UnitsFollow
<1>12. QED
  BY <1>9, <1>10, <1>11

LEMMA UnitsStep ==
    ASSUME OneAtATime, TypeOK, Fresh, IsFiniteSet(Out), Next
    PROVE  UnitsFollow
<1>1. ASSUME NEW h \in Handlers, NEW d \in Docs,
             \/ \E status \in StatusOf(Kind[d]), paid \in {0, Worth[d]},
                   back \in BOOLEAN, in \in MayBeIn[d] : Save(h, d, status, paid, back, in)
             \/ Issue(h, d) \/ Cancel(h, d) \/ Remove(h, d) \/ Recount(h, d)
      PROVE  UnitsFollow
  <2>1. SameRows /\ UNCHANGED <<piece, short>>
    BY <1>1 DEF Save, Issue, Cancel, Remove, Recount, SameRows, Have
  <2>2. QED
    BY <2>1, SameRowsUnits
<1>2. ASSUME NEW h \in Handlers, Allocate(h) PROVE UnitsFollow
  <2>1. SameRows /\ UNCHANGED <<piece, short>>
    BY <1>2, AllocateFresh DEF Allocate
  <2>2. QED
    BY <2>1, SameRowsUnits
<1>3. ASSUME NEW h \in Handlers, Delete(h) PROVE UnitsFollow
  <2>1. PICK d \in Docs : row' = [row EXCEPT ![d] = Absent] /\ ~Locked(d)
    BY <1>3, Places DEF Delete, TypeOK, Fresh, JobFresh
  <2>2. ASSUME NEW e \in Docs, Kind[e] = "tax" PROVE Is(e, "Issued")' <=> Is(e, "Issued")
    <3>1. CASE e = d
      <4>1. ~Have(e)'
        BY <2>1, <3>1 DEF TypeOK, Have
      <4>2. QED
        BY <2>1, <2>2, <3>1, <4>1 DEF Is, Locked, IssuedKinds
    <3>2. CASE e # d
      BY <2>1, <3>2 DEF TypeOK, Is, Have
    <3>3. QED
      BY <3>1, <3>2
  <2>3. QED
    BY <1>3, <2>2, OutSame DEF Delete
<1>4. ASSUME NEW h \in Handlers, Recounted(h) PROVE UnitsFollow
  <2>0. PICK d \in Docs, doc \in Doc : d = job[h].d /\ doc = job[h].doc
    BY <1>4, Places DEF Recounted, TypeOK, RecountJobs
  <2>1. /\ SameIssue(d, doc)
        /\ row' = IF Have(d) THEN [row EXCEPT ![d] = [row[d] EXCEPT !.doc = doc]] ELSE row
    BY <1>4, <2>0 DEF Recounted, Fresh, JobFresh
  <2>2. ASSUME NEW e \in Docs, Kind[e] = "tax" PROVE Is(e, "Issued")' <=> Is(e, "Issued")
    <3>1. CASE Have(d) /\ e = d
      <4>1. row'[d] \in Row /\ row'[d].doc = doc
        BY <2>1, <3>1, HaveTyped DEF TypeOK, Row
      <4>2. QED
        BY <2>1, <2>2, <3>1, <4>1 DEF SameIssue, Is, Have, Row, Absent
    <3>2. CASE ~(Have(d) /\ e = d)
      BY <2>1, <3>2 DEF TypeOK, Is, Have
    <3>3. QED
      BY <3>1, <3>2
  <2>3. QED
    BY <1>4, <2>2, OutSame DEF Recounted
<1>5. ASSUME NEW h \in Handlers, Die(h) PROVE UnitsFollow
  <2>1. SameRows /\ UNCHANGED <<piece, short>>
    BY <1>5 DEF Die, SameRows, Have
  <2>2. QED
    BY <2>1, SameRowsUnits
<1>6. QED
  BY <1>1, <1>2, <1>3, <1>4, <1>5, WriteUnits DEF Next

-----------------------------------------------------------------------------
(* Credit notes, one handler at a time.                                    *)

(* A document more, or one less, is its own rupees more or less.           *)
LEMMA RupeesOfOne ==
    ASSUME NEW n \in Docs
    PROVE  IsFiniteSet({n} \X (1..Worth[n])) /\ Cardinality({n} \X (1..Worth[n])) = Worth[n]
<1> DEFINE T == 1..Worth[n]
<1>1. Worth[n] \in Nat
  OBVIOUS
<1>2. IsFiniteSet(T) /\ Cardinality(T) = Worth[n]
  BY <1>1, FS_Interval
<1>3. IsFiniteSet({n}) /\ Cardinality({n}) = 1
  BY FS_Singleton
<1> HIDE DEF T
<1>4. IsFiniteSet({n} \X T) /\ Cardinality({n} \X T) = Cardinality({n}) * Cardinality(T)
  BY <1>2, <1>3, FS_Product
<1>5. IsFiniteSet({n} \X T) /\ Cardinality({n} \X T) = Worth[n]
  BY <1>1, <1>2, <1>3, <1>4
<1>6. QED
  BY <1>5 DEF T

LEMMA TotalWith ==
    ASSUME NEW S \in SUBSET Docs, NEW n \in Docs \ S, IsFiniteSet(Rupees(S))
    PROVE  IsFiniteSet(Rupees(S \cup {n})) /\ Total(S \cup {n}) = Total(S) + Worth[n]
<1> DEFINE R == {n} \X (1..Worth[n])
<1>1. Rupees(S \cup {n}) = Rupees(S) \cup R
  BY DEF Rupees
<1>2. Rupees(S) \cap R = {}
  BY DEF Rupees
<1>3. IsFiniteSet(R) /\ Cardinality(R) = Worth[n]
  BY RupeesOfOne
<1> HIDE DEF R
<1>4. Cardinality(Rupees(S) \cap R) = 0
  BY <1>2, FS_EmptySet
<1>5. /\ IsFiniteSet(Rupees(S) \cup R)
      /\ Cardinality(Rupees(S) \cup R) =
            Cardinality(Rupees(S)) + Cardinality(R) - Cardinality(Rupees(S) \cap R)
  BY <1>3, FS_Union
<1>6. Cardinality(Rupees(S)) \in Nat /\ Worth[n] \in Nat
  BY FS_CardinalityType
<1>7. Cardinality(Rupees(S) \cup R) = Cardinality(Rupees(S)) + Worth[n]
  BY <1>3, <1>4, <1>5, <1>6
<1>8. QED
  BY <1>1, <1>5, <1>7 DEF Total

LEMMA TotalWithin ==
    ASSUME NEW S \in SUBSET Docs, NEW T \in SUBSET S, IsFiniteSet(Rupees(S))
    PROVE  IsFiniteSet(Rupees(T)) /\ Total(T) <= Total(S) /\ Total(T) \in Nat /\ Total(S) \in Nat
<1>1. Rupees(T) \in SUBSET Rupees(S)
  BY DEF Rupees
<1>2. QED
  BY <1>1, FS_Subset, FS_CardinalityType DEF Total

(* The notes on a document, and those about to be issued, fit on it.       *)
NotesFit(d) == IsFiniteSet(Rupees(NotesOn(d))) /\ Total(NotesOn(d)) <= Worth[d]
NoteFits(d, doc) ==
    Kind[d] = "credit" /\ doc.status = "Issued" /\ Source[d] \in Docs =>
        Total(NotesOn(Source[d]) \ {d}) + Worth[d] <= Worth[Source[d]]
JobFits(j) == j.at \in {"allocate", "write"} => NoteFits(j.d, j.doc)

Covered ==
    /\ \A d \in Docs : NotesFit(d)
    /\ \A h \in Handlers : JobFits(job[h])

LEMMA NotesInDocs == \A d \in Docs : NotesOn(d) \in SUBSET Docs
BY DEF NotesOn

LEMMA NotesSame ==
    ASSUME Covered, NEW d \in Docs, NotesOn(d)' = NotesOn(d)
    PROVE  NotesFit(d)'
BY DEF Covered, NotesFit, Total, Rupees

(* An issued note is one of those that fit already.                        *)
LEMMA IssuedFits ==
    ASSUME Covered, NEW d \in Docs, Is(d, "Issued"), NEW doc
    PROVE  NoteFits(d, doc)
<1> SUFFICES ASSUME Kind[d] = "credit", Source[d] \in Docs
             PROVE  Total(NotesOn(Source[d]) \ {d}) + Worth[d] <= Worth[Source[d]]
  BY DEF NoteFits
<1> DEFINE S == NotesOn(Source[d])
<1>1. d \in S /\ S \in SUBSET Docs
  BY DEF NotesOn
<1>2. IsFiniteSet(Rupees(S)) /\ Total(S) <= Worth[Source[d]]
  BY DEF Covered, NotesFit
<1> HIDE DEF S
<1>3. IsFiniteSet(Rupees(S \ {d}))
  BY <1>1, <1>2, TotalWithin
<1>4. (S \ {d}) \cup {d} = S
  BY <1>1
<1>5. Total(S) = Total(S \ {d}) + Worth[d]
  BY <1>1, <1>3, <1>4, TotalWith
<1>6. QED
  BY <1>2, <1>5 DEF S

LEMMA EndsCovered ==
    ASSUME OneAtATime, TypeOK, NEW h \in Handlers, Ends(h), \A d \in Docs : NotesFit(d)'
    PROVE  Covered'
<1>1. JobFits(job[h])'
  BY OneEnd DEF TypeOK, JobFits, Idle
<1>2. QED
  BY <1>1 DEF Covered, OneAtATime

LEMMA GoesCovered ==
    ASSUME OneAtATime, TypeOK, Covered, NEW h \in Handlers, NEW j \in Jobs, Goes(h, j),
           SameRows, JobFits(j)
    PROVE  Covered'
<1>1. job'[h] = j
  BY OneJob DEF TypeOK
<1>2. \A d \in Docs : NotesFit(d)'
  BY SameDocs, NotesSame
<1>3. JobFits(j)'
  BY SameDocs DEF JobFits, NoteFits
<1>4. JobFits(job[h])'
  BY <1>1, <1>3 DEF JobFits, NoteFits
<1>5. QED
  BY <1>2, <1>4 DEF Covered, OneAtATime

LEMMA StartsCovered ==
    ASSUME OneAtATime, TypeOK, Covered, NEW h \in Handlers, NEW d \in Docs,
           \/ \E status \in StatusOf(Kind[d]), paid \in {0, Worth[d]},
                 back \in BOOLEAN, in \in MayBeIn[d] : Save(h, d, status, paid, back, in)
           \/ Issue(h, d) \/ Cancel(h, d) \/ Remove(h, d) \/ Recount(h, d),
           TypeOK'
    PROVE  Covered'
<1>1. SameRows
  BY DEF Save, Issue, Cancel, Remove, Recount, SameRows, Have
<1>2. ASSUME NEW j, Goes(h, j), JobFits(j) PROVE Covered'
  <2>1. job'[h] = j /\ j \in Jobs
    BY <1>2 DEF Goes, TypeOK
  <2>2. QED
    BY <1>1, <1>2, <2>1, GoesCovered
<1>3. ASSUME NEW status \in StatusOf(Kind[d]), NEW paid \in {0, Worth[d]}, NEW back \in BOOLEAN,
             NEW in \in MayBeIn[d], Save(h, d, status, paid, back, in)
      PROVE  Covered'
  <2> DEFINE doc == [status |-> status, series |-> in, number |-> Before(d).number, paid |-> paid, back |-> back]
  <2>1. status = "Issued" => Is(d, "Issued")
    BY <1>3 DEF Save, MayBecome, Before, Is
  <2>2. NoteFits(d, doc)
    <3>1. CASE status = "Issued"
      BY <2>1, <3>1, IssuedFits
    <3>2. CASE status # "Issued"
      BY <3>2 DEF NoteFits
    <3>3. QED
      BY <3>1, <3>2
  <2>3. QED
    BY <1>2, <1>3, <2>2 DEF Save, JobFits
<1>4. CASE Issue(h, d)
  <2>1. NoteFits(d, [row[d].doc EXCEPT !.status = "Issued"])
    <3> SUFFICES ASSUME Kind[d] = "credit", Source[d] \in Docs
                 PROVE  Total(NotesOn(Source[d]) \ {d}) + Worth[d] <= Worth[Source[d]]
      BY DEF NoteFits
    <3>1. Worth[d] <= Worth[Source[d]] - Total(NotesOn(Source[d]) \ {d})
      BY <1>4 DEF Issue, NoteStands, Room
    <3>2. Total(NotesOn(Source[d]) \ {d}) \in Nat
      BY TotalWithin, NotesInDocs DEF Covered, NotesFit
    <3>3. QED
      BY <3>1, <3>2
  <2>2. QED
    BY <1>2, <1>4, <2>1 DEF Issue, JobFits
<1>5. CASE Cancel(h, d)
  <2>1. [row[d].doc EXCEPT !.status = "Cancelled"].status = "Cancelled"
    BY <1>5, HaveTyped DEF Cancel, Locked, Doc
  <2>2. QED
    BY <1>2, <1>5, <2>1 DEF Cancel, JobFits, NoteFits
<1>6. CASE Remove(h, d) \/ Recount(h, d)
  BY <1>2, <1>6 DEF Remove, Recount, JobFits
<1>7. QED
  BY <1>3, <1>4, <1>5, <1>6

LEMMA AllocateCovered ==
    ASSUME OneAtATime, TypeOK, Fresh, Covered, NEW h \in Handlers, Allocate(h)
    PROVE  Covered'
<1> DEFINE d == job[h].d
           n == Take(d, job[h].doc.series)
           m == [series |-> job[h].doc.series, seq |-> n.seq]
           j == [job[h] EXCEPT !.at = "write", !.taken = n, !.doc = [job[h].doc EXCEPT !.number = m]]
<1>1. job[h] \in WriteJobs /\ job[h].at = "allocate" /\ SameRows
  BY Places, AllocateFresh DEF TypeOK, Allocate
<1>2. CASE Ends(h)
  BY <1>1, <1>2, SameDocs, NotesSame, EndsCovered
<1>3. CASE ~Ends(h)
  <2>1. Goes(h, j) /\ Have(d)
    BY <1>3 DEF Allocate
  <2>2. n \in Number /\ m \in Number
    BY <1>1, <2>1, TakenTyped DEF Number
  <2>3. j \in WriteJobs /\ j.d = d /\ j.doc.status = job[h].doc.status
    BY <1>1, <2>2 DEF WriteJobs, Doc
  <2>4. j \in Jobs
    BY <2>3 DEF Jobs, WriteJobs
  <2> HIDE DEF j
  <2>5. JobFits(j)
    BY <1>1, <2>3 DEF Covered, JobFits, NoteFits
  <2>6. QED
    BY <1>1, <2>1, <2>4, <2>5, GoesCovered
<1>4. QED
  BY <1>2, <1>3

LEMMA WriteCovered ==
    ASSUME OneAtATime, TypeOK, Fresh, Covered, NEW h \in Handlers, Write(h)
    PROVE  Covered'
<1>1. PICK d \in Docs, doc \in Doc, s \in {None} \cup [d : Docs, row : Row] :
        d = job[h].d /\ doc = job[h].doc /\ s = job[h].source
  BY Places DEF TypeOK, Write, WriteJobs
<1>2. SourceRight(d, s) /\ NoteFits(d, doc)
  BY <1>1 DEF Fresh, JobFresh, Covered, JobFits, Write
<1>3. \A e \in Docs :
        row'[e] = IF e = d THEN Written(d, doc, job[h].taken)
                  ELSE IF s # None /\ s.d = e THEN Written(e, s.row.doc, s.row.taken)
                  ELSE row[e]
  BY <1>1 DEF Write
<1>4. Is(d, "Issued")' <=> doc.status = "Issued"
  BY <1>3, WrittenIs DEF Is, Have
<1>5. ASSUME NEW e \in Docs, e # d, Kind[e] = "credit" PROVE Is(e, "Issued")' <=> Is(e, "Issued")
  <2>1. row'[e] = row[e]
    BY <1>2, <1>3, <1>5 DEF SourceRight
  <2>2. QED
    BY <2>1 DEF Is, Have
<1>6. ASSUME NEW e \in Docs PROVE NotesFit(e)'
  <2> DEFINE S == NotesOn(e)
  <2>0. S \in SUBSET Docs /\ IsFiniteSet(Rupees(S)) /\ Total(S) <= Worth[e]
    BY NotesInDocs DEF Covered, NotesFit
  <2>1. CASE Kind[d] = "credit" /\ Source[d] = e /\ doc.status = "Issued"
    <3>1. NotesOn(e)' = (S \ {d}) \cup {d}
      BY <1>4, <1>5, <2>1 DEF NotesOn
    <3> HIDE DEF S
    <3>2. IsFiniteSet(Rupees(S \ {d}))
      BY <2>0, TotalWithin
    <3>3. /\ IsFiniteSet(Rupees((S \ {d}) \cup {d}))
          /\ Total((S \ {d}) \cup {d}) = Total(S \ {d}) + Worth[d]
      BY <2>0, <3>2, TotalWith
    <3>4. Total(S \ {d}) + Worth[d] <= Worth[e]
      BY <1>2, <2>1 DEF NoteFits, S
    <3>5. QED
      BY <3>1, <3>3, <3>4 DEF NotesFit, Total, Rupees
  <2>2. CASE ~(Kind[d] = "credit" /\ Source[d] = e /\ doc.status = "Issued")
    <3>1. NotesOn(e)' \in SUBSET S
      BY <1>4, <1>5, <2>2 DEF NotesOn
    <3>2. IsFiniteSet(Rupees(NotesOn(e)')) /\ Total(NotesOn(e)') <= Total(S)
          /\ Total(NotesOn(e)') \in Nat /\ Total(S) \in Nat
      BY <2>0, <3>1, TotalWithin
    <3>3. Total(NotesOn(e)') <= Worth[e]
      BY <2>0, <3>2, Worth[e] \in Nat
    <3>4. QED
      BY <3>2, <3>3 DEF NotesFit, Total, Rupees
  <2>3. QED
    BY <2>1, <2>2
<1>7. CASE Ends(h)
  BY <1>6, <1>7, EndsCovered
<1>8. CASE ~Ends(h)
  <2>1. Kind[d] = "proforma" /\ Goes(h, [job[h] EXCEPT !.at = "allocate", !.move = Still])
    BY <1>1, <1>8 DEF Write
  <2>2. job[h] \in WriteJobs
    BY Places DEF TypeOK, Write
  <2>3. job'[h].d = d
    BY <1>1, <2>1, <2>2 DEF Goes, TypeOK, WriteJobs
  <2>4. JobFits(job[h])'
    BY <2>1, <2>3 DEF JobFits, NoteFits
  <2>5. QED
    BY <1>6, <2>4 DEF Covered, OneAtATime
<1>9. QED
  BY <1>7, <1>8

LEMMA EndingsCovered ==
    ASSUME OneAtATime, TypeOK, Fresh, Covered, NEW h \in Handlers, Delete(h) \/ Recounted(h) \/ Die(h)
    PROVE  Covered'
<1>1. ASSUME NEW e \in Docs, Kind[e] = "credit" PROVE Is(e, "Issued")' <=> Is(e, "Issued")
  <2>1. CASE Die(h)
    BY <2>1 DEF Die, Is, Have
  <2>2. CASE Delete(h)
    <3>1. PICK d \in Docs : row' = [row EXCEPT ![d] = Absent] /\ ~Locked(d)
      BY <2>2, Places DEF Delete, TypeOK, Fresh, JobFresh
    <3>2. CASE e = d
      <4>1. ~Have(e)'
        BY <3>1, <3>2 DEF TypeOK, Have
      <4>2. QED
        BY <1>1, <3>1, <3>2, <4>1 DEF Is, Locked, IssuedKinds
    <3>3. CASE e # d
      BY <3>1, <3>3 DEF TypeOK, Is, Have
    <3>4. QED
      BY <3>2, <3>3
  <2>3. CASE Recounted(h)
    <3>1. PICK d \in Docs : d = job[h].d /\ Kind[d] \in {"proforma", "tax"}
      BY <2>3, Places DEF Recounted, TypeOK, RecountJobs, Fresh, JobFresh
    <3>2. row'[e] = row[e]
      BY <1>1, <2>3, <3>1 DEF Recounted, TypeOK
    <3>3. QED
      BY <3>2 DEF Is, Have
  <2>4. QED
    BY <2>1, <2>2, <2>3
<1>2. \A d \in Docs : NotesFit(d)'
  <2> SUFFICES ASSUME NEW d \in Docs PROVE NotesFit(d)'
    OBVIOUS
  <2>1. NotesOn(d)' = NotesOn(d)
    BY <1>1 DEF NotesOn
  <2>2. QED
    BY <2>1, NotesSame
<1>3. QED
  BY <1>2, EndsCovered DEF Delete, Recounted, Die

LEMMA CoveredStart == Init => Covered
<1> SUFFICES ASSUME Init PROVE Covered
  OBVIOUS
<1>1. \A d \in Docs : NotesOn(d) = {}
  BY DEF Init, NotesOn, Is, Have
<1>2. Rupees({}) = {}
  BY DEF Rupees
<1>3. IsFiniteSet(Rupees({})) /\ Total({}) = 0 /\ \A d \in Docs : Worth[d] \in Nat
  BY <1>2, FS_EmptySet DEF Total
<1>4. ASSUME NEW d \in Docs PROVE NotesFit(d)
  <2>1. NotesOn(d) = {} /\ Worth[d] \in Nat
    BY <1>1, <1>3
  <2>2. 0 <= Worth[d]
    BY <2>1
  <2>3. QED
    BY <1>3, <2>1, <2>2 DEF NotesFit
<1>5. QED
  BY <1>4 DEF Init, Covered, JobFits, Idle

LEMMA CoveredStays == ASSUME Covered, UNCHANGED <<row, job>> PROVE Covered'
<1>1. \A d : NotesOn(d)' = NotesOn(d)
  BY DEF NotesOn, Is, Have
<1>2. QED
  BY <1>1, NotesSame DEF Covered, JobFits, NoteFits

LEMMA CoveredStep == ASSUME OneAtATime, TypeOK, Fresh, Covered, Next PROVE Covered'
BY Typed, StartsCovered, AllocateCovered, WriteCovered, EndingsCovered DEF Next

LEMMA CoveredSays == Covered => CreditWithinInvoice
BY DEF Covered, NotesFit, CreditWithinInvoice

-----------------------------------------------------------------------------
(* Sales: the tills.                                                       *)

USE SalesAssumption

Dos == {"look", "insert", "remove"} \cup Results

LEMMA OneTill ==
    ASSUME till \in [Tills -> {Free} \cup Calls], NEW h \in Tills,
           NEW c \in {Free} \cup Calls, Serves(h, c)
    PROVE  /\ till' \in [Tills -> {Free} \cup Calls]
           /\ till'[h] = c
           /\ \A g \in Tills : g # h => till'[g] = till[g]
BY DEF Serves

LEMMA OneClosed ==
    ASSUME till \in [Tills -> {Free} \cup Calls], NEW h \in Tills, Closes(h)
    PROVE  /\ till' \in [Tills -> {Free} \cup Calls]
           /\ till'[h] = Free
           /\ \A g \in Tills : g # h => till'[g] = till[g]
BY OneTill DEF Closes

LEMMA Busy ==
    ASSUME till \in [Tills -> {Free} \cup Calls], NEW h \in Tills, till[h] # Free
    PROVE  till[h] \in Calls /\ till[h].s \in Sales
BY DEF Calls

LEMMA NextDo ==
    ASSUME NEW c \in Calls, NEW do \in Dos
    PROVE  /\ [c EXCEPT !.do = do] \in Calls
           /\ [c EXCEPT !.do = do].do = do
           /\ [c EXCEPT !.do = do].s = c.s
           /\ [c EXCEPT !.do = do].by = c.by
           /\ [c EXCEPT !.do = do] # Free
BY DEF Calls, Dos, Free, Results

-----------------------------------------------------------------------------
(* Types.                                                                  *)

SaleTypes ==
    /\ piece \in Pieces
    /\ sale \in [Sales -> {"none", "kept", "deleted"}]
    /\ made \subseteq Sales /\ flush \subseteq Sales /\ promised \subseteq Sales
    /\ box \in [Sales -> {"none", "waiting", "refused"}]
    /\ till \in [Tills -> {Free} \cup Calls]
    /\ seen \in Pieces \cup {None}
    /\ added \in Int /\ edits \in 0..MaxEdits

LEMMA FoundIsDo == ASSUME NEW s \in Sales PROVE Found(s) \in Dos
BY DEF Found, Dos, Results

LEMMA DeviceTyped ==
    ASSUME SaleTypes, Device
    PROVE  SaleTypes'
<1> USE DEF SaleTypes, Form
<1>1. CASE StartFlush \/ StopFlush
  BY <1>1 DEF StartFlush, StopFlush
<1>2. CASE OpenPiece
  BY <1>2 DEF OpenPiece
<1>3. ASSUME NEW s \in Sales, RecordOffline(s) \/ Discard(s) \/ Retry(s)
      PROVE  SaleTypes'
  BY <1>3 DEF RecordOffline, Keep, Discard, Without, Retry
<1>4. ASSUME seen # None, NEW units \in {seen.units, seen.units + 1},
             NEW status \in {"Available", "Reserved", "Sold"},
             SavePiece([units |-> units, status |-> status])
      PROVE  SaleTypes'
  <2>1. seen \in Pieces /\ units \in Nat
    BY <1>4 DEF Pieces
  <2>2. seen.units \in Nat /\ [units |-> units, status |-> status] \in Pieces
    BY <2>1 DEF Pieces
  <2>3. QED
    BY <1>4, <2>2 DEF SavePiece
<1>5. QED
  BY <1>1, <1>2, <1>3, <1>4 DEF Device

LEMMA TillTyped ==
    ASSUME SaleTypes, NEW h \in Tills, Till(h)
    PROVE  SaleTypes'
<1> USE DEF SaleTypes, Form
<1>1. ASSUME NEW s \in Sales, Record(h, s) \/ Upload(h, s) \/ StartRemove(h, s)
      PROVE  SaleTypes'
  <2>1. PICK c \in Calls : Serves(h, c)
    <3>1. \A do \in Dos, by \in {"form", "flush", "nobody"} : [do |-> do, s |-> s, by |-> by] \in Calls
      BY DEF Calls, Dos
    <3>2. QED
      BY <1>1, <3>1 DEF Record, Upload, StartRemove, Dos
  <2>2. QED
    BY <1>1, <2>1, OneTill DEF Record, Upload, StartRemove
<1>2. ASSUME till[h] # Free PROVE till[h] \in Calls /\ till[h].s \in Sales
  BY <1>2, Busy
<1>3. CASE Answer(h)
  <2>1. till' \in [Tills -> {Free} \cup Calls]
    BY <1>3, OneClosed DEF Answer
  <2>2. box' \in [Sales -> {"none", "waiting", "refused"}] /\ flush' \subseteq Sales
    BY <1>2, <1>3 DEF Answer, Without, Refused
  <2>3. QED
    BY <1>3, <2>1, <2>2 DEF Answer
<1>4. CASE Lose(h)
  <2>1. till' \in [Tills -> {Free} \cup Calls]
    <3>1. [till[h] EXCEPT !.by = "nobody"] \in Calls
      BY <1>2, <1>4 DEF Lose, Calls
    <3>2. QED
      BY <1>4, <3>1, OneClosed, OneTill DEF Lose
  <2>2. QED
    BY <1>2, <1>4, <2>1 DEF Lose, Keep
<1>5. CASE Look(h)
  <2>1. till[h] \in Calls /\ Found(till[h].s) \in Dos
    BY <1>2, <1>5, FoundIsDo DEF Look, Free
  <2>2. [till[h] EXCEPT !.do = Found(till[h].s)] \in Calls
    BY <2>1, NextDo
  <2>3. QED
    BY <1>5, <2>2, OneTill DEF Look
<1>6. CASE Insert(h)
  <2>1. till[h] \in Calls /\ till[h].s \in Sales
    BY <1>2, <1>6 DEF Insert, Free
  <2>2. \A do \in Dos : [till[h] EXCEPT !.do = do] \in Calls
    BY <2>1, NextDo
  <2>3. PICK do \in Dos : Serves(h, [till[h] EXCEPT !.do = do])
    BY <1>6 DEF Insert, Dos, Results
  <2>4. till' \in [Tills -> {Free} \cup Calls]
    BY <2>2, <2>3, OneTill
  <2>5. ForSale => SoldOne \in Pieces
    BY DEF ForSale, SoldOne, Pieces
  <2>6. QED
    BY <1>6, <2>1, <2>4, <2>5 DEF Insert
<1>7. CASE RemoveSale(h)
  <2>1. till[h].s \in Sales
    BY <1>2, <1>7 DEF RemoveSale, Free
  <2>2. PutBack \in Pieces
    BY DEF PutBack, Pieces
  <2>3. QED
    BY <1>7, <2>1, <2>2, OneClosed DEF RemoveSale
<1>8. QED
  BY <1>1, <1>3, <1>4, <1>5, <1>6, <1>7 DEF Till

(* Every variable keeps its type, with every gap open.                     *)
THEOREM SalesTypes == SalesSpec => []SalesTypeOK
<1>1. SalesTypeOK <=> TypeOK /\ SaleTypes
  BY DEF SalesTypeOK, SaleTypes, TypeOK, Pieces
<1>2. SalesInit => TypeOK /\ SaleTypes
  <2>1. SalesInit => piece \in Pieces
    BY DEF SalesInit, Init, Pieces
  <2>2. QED
    BY <2>1, TypesStart DEF SalesInit, SaleTypes
<1>3. TypeOK /\ SaleTypes /\ [SalesNext]_allVars => TypeOK' /\ SaleTypes'
  <2>1. ASSUME TypeOK, SaleTypes, UNCHANGED allVars PROVE TypeOK' /\ SaleTypes'
    BY <2>1 DEF TypeOK, SaleTypes, allVars, vars, saleVars
  <2>2. ASSUME TypeOK, SaleTypes, Next, UNCHANGED saleVars PROVE TypeOK' /\ SaleTypes'
    <3>1. TypeOK'
      BY <2>2, Typed
    <3>2. QED
      BY <2>2, <3>1 DEF TypeOK, SaleTypes, saleVars, Pieces
  <2>3. ASSUME TypeOK, SaleTypes, Device \/ \E h \in Tills : Till(h), UNCHANGED books
        PROVE  TypeOK' /\ SaleTypes'
    <3>1. SaleTypes'
      BY <2>3, DeviceTyped, TillTyped
    <3>2. QED
      BY <2>3, <3>1 DEF TypeOK, SaleTypes, books, Pieces
  <2>4. QED
    BY <2>1, <2>2, <2>3 DEF SalesNext
<1>4. QED
  BY <1>1, <1>2, <1>3, PTL DEF SalesSpec

-----------------------------------------------------------------------------
(* The documents' numbers. Sales and edits touch neither documents nor     *)
(* series.                                                                 *)

LEMMA NumberedBesideSales == SalesSpec => []Numbered
<1>1. SalesInit => Numbered
  BY NumbersStart DEF SalesInit
<1>2. SalesTypeOK /\ Numbered /\ [SalesNext]_allVars => Numbered'
  <2>1. ASSUME Numbered, UNCHANGED allVars \/ UNCHANGED books PROVE Numbered'
    BY <2>1, NumbersStay DEF allVars, vars, books
  <2>2. QED
    BY <2>1, NumbersStep DEF SalesNext, SalesTypeOK
<1>3. QED
  BY <1>1, <1>2, SalesTypes, PTL DEF SalesSpec

(* NoneLeftOut: nor does a series have a gap (allocate).                   *)
THEOREM NumbersBesideSales == SalesSpec => []NoneLeftOut
BY NumberedBesideSales, NumberedSays, PTL

-----------------------------------------------------------------------------
(* What is issued, one handler of documents at a time. Sales touch no      *)
(* document.                                                               *)

LEMMA FreshBesideSales ==
    ASSUME OneAtATime, SalesTypeOK, Fresh, [SalesNext]_allVars
    PROVE  Fresh' /\ IssuedStay
<1> USE DEF SalesTypeOK
<1>1. CASE Next
  BY <1>1, FreshStep
<1>2. CASE UNCHANGED books \/ UNCHANGED allVars
  BY <1>2, FreshStays DEF books, allVars, vars
<1>3. QED
  BY <1>1, <1>2 DEF SalesNext

LEMMA AlwaysFresh == OneAtATime => (SalesSpec => []Fresh)
<1> SUFFICES ASSUME OneAtATime PROVE SalesSpec => []Fresh
  OBVIOUS
<1>1. SalesInit => Fresh
  BY FreshStart DEF SalesInit
<1>2. SalesTypeOK /\ Fresh /\ [SalesNext]_allVars => Fresh'
  BY FreshBesideSales
<1>3. QED
  BY <1>1, <1>2, SalesTypes, PTL DEF SalesSpec

(* What a document says agrees with its columns: it is the number taken, or *)
(* will be, since the document is still where that number was taken.       *)
Agrees(doc, taken) ==
    IF doc.number = NoNumber THEN taken = NoNumber \/ taken.series = doc.series
    ELSE doc.number = taken

(* And a draft says none.                                                  *)
Says(d, doc, taken) ==
    /\ Agrees(doc, taken)
    /\ Kind[d] \in IssuedKinds /\ doc.status = "Draft" => doc.number = NoNumber

(* What a handler holds of a document is what is on record of its number:  *)
(* nobody else has written it since.                                       *)
SaysStill(d, doc, taken) == Says(d, doc, taken) /\ (Have(d) => row[d].taken = taken)

JobSays(j) ==
    /\ j.at = "allocate" =>
         /\ j.doc.number = NoNumber
         /\ Kind[j.d] \in IssuedKinds => j.doc.status # "Draft"
         /\ Have(j.d) => row[j.d].doc.number = NoNumber /\ row[j.d].doc.series = j.doc.series
    /\ j.at = "write" => SaysStill(j.d, j.doc, j.taken)
    /\ j.at \in {"allocate", "write"} /\ j.source # None =>
         SaysStill(j.source.d, j.source.row.doc, j.source.row.taken)
    /\ j.at = "recount" /\ Have(j.d) => Says(j.d, j.doc, row[j.d].taken)

RowsSay == \A d \in Docs : Have(d) => Says(d, row[d].doc, row[d].taken)
Said    == RowsSay /\ \A h \in Handlers : JobSays(job[h])

LEMMA EndsSay ==
    ASSUME OneAtATime, TypeOK, NEW h \in Handlers, Ends(h), RowsSay'
    PROVE  Said'
<1>1. job'[h] = Idle
  BY OneEnd DEF TypeOK
<1>2. JobSays(job[h])'
  BY <1>1 DEF JobSays, Idle
<1>3. QED
  BY <1>2 DEF Said, OneAtATime

(* A handler that has only read says what is on record.                    *)
LEMMA StartsSay ==
    ASSUME OneAtATime, TypeOK, Said, NEW h \in Handlers, NEW j \in Jobs,
           Goes(h, j), UNCHANGED row, JobSays(j)
    PROVE  Said'
<1>1. job'[h] = j
  BY OneJob DEF TypeOK
<1>2. RowsSay'
  BY DEF Said, RowsSay, Says, Agrees, Have
<1>3. JobSays(j)'
  BY DEF JobSays, SaysStill, Says, Agrees, Have
<1>4. JobSays(job[h])'
  BY <1>1, <1>3 DEF JobSays, SaysStill, Says, Agrees, Have
<1>5. QED
  BY <1>2, <1>4 DEF Said, OneAtATime

LEMMA SaveSays ==
    ASSUME OneAtATime, "redated" \notin DocGaps, TypeOK, Said, NEW h \in Handlers, NEW d \in Docs,
           NEW status \in StatusOf(Kind[d]), NEW paid \in {0, Worth[d]}, NEW back \in BOOLEAN,
           NEW in \in MayBeIn[d], Save(h, d, status, paid, back, in), TypeOK'
    PROVE  Said'
<1> DEFINE doc  == [status |-> status, series |-> in, number |-> Before(d).number, paid |-> paid, back |-> back]
           move == IF Have(d) /\ back /\ ~Before(d).back THEN [what |-> "return", kind |-> "challan"] ELSE Still
           j    == [at |-> "write", d |-> d, taken |-> Columns(d), source |-> None, doc |-> doc, move |-> move]
<1>1. /\ MayBecome(d, status, back) /\ Goes(h, j) /\ UNCHANGED row
      /\ Unsaid(d) => in = row[d].doc.series
  BY DEF Save
<1>2. j \in Jobs
  BY <1>1 DEF TypeOK, Goes
<1>3. Agrees(doc, Columns(d))
  BY <1>1 DEF Agrees, Before, Columns, Blank, Unsaid, Said, RowsSay, Says
<1>4. Kind[d] \in IssuedKinds /\ status = "Draft" => Before(d).number = NoNumber
  BY <1>1 DEF MayBecome, Before, Blank, IssuedKinds, Said, RowsSay, Says
<1>5. SaysStill(d, doc, Columns(d))
  BY <1>3, <1>4 DEF SaysStill, Says, Columns
<1>6. JobSays(j)
  BY <1>5 DEF JobSays
<1>7. QED
  BY <1>1, <1>2, <1>6, StartsSay

LEMMA IssueSays ==
    ASSUME OneAtATime, TypeOK, Said, NEW h \in Handlers, NEW d \in Docs, Issue(h, d), TypeOK'
    PROVE  Said'
<1> DEFINE doc  == [row[d].doc EXCEPT !.status = "Issued"]
           move == IF Kind[d] = "credit" THEN Still ELSE [what |-> "issue", kind |-> Kind[d]]
           j    == [at |-> "allocate", d |-> d, taken |-> NoNumber, source |-> SourceAfter(d),
                    doc |-> doc, move |-> move]
<1>1. /\ Kind[d] \in IssuedKinds /\ Have(d) /\ row[d].doc.status = "Draft"
      /\ Goes(h, j) /\ UNCHANGED row
  BY DEF Issue, Is
<1>2. j \in Jobs
  BY <1>1 DEF TypeOK, Goes
<1>3. row[d].doc \in Doc /\ row[d].doc.number = NoNumber
  BY <1>1, HaveTyped DEF Said, RowsSay, Says
<1>4. doc.status = "Issued" /\ doc.number = NoNumber /\ doc.series = row[d].doc.series
  BY <1>3 DEF Doc
<1>5. ASSUME SourceAfter(d) # None
      PROVE  SaysStill(SourceAfter(d).d, SourceAfter(d).row.doc, SourceAfter(d).row.taken)
  <2> DEFINE s == Source[d]
  <2>1. s \in Docs /\ Have(s)
    BY <1>5 DEF SourceAfter
  <2>2. PICK status \in {"Converted", "Invoiced"} :
            SourceAfter(d) = [d |-> s, row |-> Becomes(s, status)]
    BY <1>5 DEF SourceAfter
  <2>3. row[s] \in Row /\ row[s].doc \in Doc /\ Says(s, row[s].doc, row[s].taken)
    BY <2>1, HaveTyped DEF Said, RowsSay
  <2>4. /\ Becomes(s, status).taken = row[s].taken
        /\ Becomes(s, status).doc = [row[s].doc EXCEPT !.status = status]
    BY <2>3 DEF Becomes, Row
  <2>5. /\ Becomes(s, status).doc.number = row[s].doc.number
        /\ Becomes(s, status).doc.series = row[s].doc.series
        /\ Becomes(s, status).doc.status # "Draft"
    BY <2>3, <2>4 DEF Doc
  <2>6. SaysStill(s, Becomes(s, status).doc, Becomes(s, status).taken)
    BY <2>3, <2>4, <2>5 DEF SaysStill, Says, Agrees
  <2>7. QED
    BY <2>2, <2>6
<1> HIDE DEF doc
<1>6. JobSays(j)
  BY <1>1, <1>3, <1>4, <1>5 DEF JobSays
<1> HIDE DEF j
<1>7. QED
  BY <1>1, <1>2, <1>6, StartsSay

LEMMA OthersStartSay ==
    ASSUME OneAtATime, TypeOK, Said, NEW h \in Handlers, NEW d \in Docs,
           Cancel(h, d) \/ Remove(h, d) \/ Recount(h, d), TypeOK'
    PROVE  Said'
<1>1. UNCHANGED row /\ Have(d) /\ Says(d, row[d].doc, row[d].taken)
  BY DEF Cancel, Remove, Recount, Locked, Said, RowsSay
<1>2. ASSUME NEW j, Goes(h, j), JobSays(j) PROVE Said'
  <2>1. j \in Jobs
    BY <1>2 DEF TypeOK, Goes
  <2>2. QED
    BY <1>1, <1>2, <2>1, StartsSay
<1>3. CASE Cancel(h, d)
  <2> DEFINE doc == [row[d].doc EXCEPT !.status = "Cancelled"]
  <2>1. row[d].doc \in Doc
    BY <1>1, HaveTyped
  <2>2. /\ doc.status = "Cancelled" /\ doc.number = row[d].doc.number
        /\ doc.series = row[d].doc.series
    BY <2>1 DEF Doc
  <2> HIDE DEF doc
  <2>3. SaysStill(d, doc, row[d].taken)
    BY <1>1, <2>2 DEF SaysStill, Says, Agrees
  <2>4. QED
    BY <1>2, <1>3, <2>3 DEF Cancel, JobSays, doc
<1>4. CASE Remove(h, d) \/ Recount(h, d)
  BY <1>1, <1>2, <1>4 DEF Remove, Recount, JobSays
<1>5. QED
  BY <1>3, <1>4

(* A number is taken in the series where the document still is, so that    *)
(* what is said of it is what was taken.                                   *)
LEMMA AllocateSays ==
    ASSUME OneAtATime, TypeOK, Fresh, Said, NEW h \in Handlers, Allocate(h), TypeOK'
    PROVE  Said'
<1> DEFINE d     == job[h].d
           in    == job[h].doc.series
           taken == Take(d, in)
           says  == [series |-> in, seq |-> taken.seq]
<1>1. job[h] \in WriteJobs /\ d \in Docs /\ JobSays(job[h]) /\ job[h].at = "allocate"
      /\ JobFresh(job[h])
  BY Places DEF TypeOK, Allocate, WriteJobs, Said, Fresh
<1>2. CASE ~Have(d)
  <2>1. UNCHANGED row /\ Ends(h)
    BY <1>2 DEF Allocate
  <2>2. RowsSay'
    BY <2>1 DEF Said, RowsSay, Says, Agrees, Have
  <2>3. QED
    BY <2>1, <2>2, EndsSay
<1>3. CASE Have(d)
  <2>1. /\ row' = [row EXCEPT ![d] = [row[d] EXCEPT !.taken = taken]]
        /\ Goes(h, [job[h] EXCEPT !.at = "write", !.taken = taken,
                                  !.doc = [job[h].doc EXCEPT !.number = says]])
    BY <1>3 DEF Allocate
  <2>2. /\ row[d].doc.number = NoNumber /\ row[d].doc.series = in /\ job[h].doc.number = NoNumber
        /\ row[d].taken = NoNumber \/ row[d].taken.series = in
    BY <1>1, <1>3 DEF JobSays, Said, RowsSay, Says, Agrees
  <2>3. row[d] \in Row /\ row[d].taken \in Number /\ taken \in Number /\ taken.seq \in Nat
    BY <1>1, <1>3, HaveTyped, TakenTyped
  <2>4. taken = says
    BY <2>2, <2>3 DEF Take, Number
  <2>5. /\ row'[d].doc = row[d].doc /\ row'[d].taken = taken
        /\ \A e \in Docs : e # d => (Have(e)' <=> Have(e)) /\ row'[e] = row[e]
    <3>1. row'[d] = [row[d] EXCEPT !.taken = taken] /\ row'[d] \in Row
      BY <1>1, <2>1, <2>3 DEF TypeOK, Row
    <3>2. \A e \in Docs : e # d => row'[e] = row[e]
      BY <2>1 DEF TypeOK
    <3>3. row'[d].doc = row[d].doc /\ row'[d].taken = taken
      BY <2>3, <3>1 DEF Row
    <3>4. \A e \in Docs : e # d => (Have(e)' <=> Have(e)) /\ row'[e] = row[e]
      BY <3>2 DEF Have
    <3>5. QED
      BY <3>3, <3>4
  <2>6. RowsSay'
    <3>1. Says(d, row'[d].doc, row'[d].taken)
      BY <1>3, <2>2, <2>4, <2>5 DEF Said, RowsSay, Says, Agrees
    <3>2. QED
      BY <2>5, <3>1 DEF Said, RowsSay, Says, Agrees
  <2>7. /\ job'[h].at = "write" /\ job'[h].d = d /\ job'[h].source = job[h].source
        /\ job'[h].taken = taken /\ job'[h].doc.number = says
        /\ job'[h].doc.status = job[h].doc.status /\ job'[h].doc.series = in
    <3>1. job[h].doc \in Doc
      BY <1>1 DEF WriteJobs
    <3>2. job'[h] = [job[h] EXCEPT !.at = "write", !.taken = taken,
                                   !.doc = [job[h].doc EXCEPT !.number = says]]
      BY <2>1 DEF Goes, TypeOK
    <3>3. [job[h].doc EXCEPT !.number = says].number = says
          /\ [job[h].doc EXCEPT !.number = says].status = job[h].doc.status
          /\ [job[h].doc EXCEPT !.number = says].series = in
      BY <3>1 DEF Doc
    <3>4. QED
      BY <1>1, <3>2, <3>3 DEF WriteJobs
  <2>8. taken # NoNumber
    <3>1. row[d].taken # NoNumber => taken = row[d].taken
      BY DEF Take
    <3>2. row[d].taken = NoNumber => taken.seq = last[<<Kind[d], in>>] + 1
      BY DEF Take, Count, NextNumber
    <3>3. last[<<Kind[d], in>>] \in Nat
      BY <1>1, <1>3, TakenTyped
    <3>4. QED
      BY <3>1, <3>2, <3>3 DEF NoNumber
  <2>9. SaysStill(job[h].d, job[h].doc, job[h].taken)'
    BY <1>1, <2>4, <2>5, <2>7, <2>8 DEF SaysStill, Says, Agrees, JobSays
  <2>10. ASSUME job[h].source # None
         PROVE  LET s == job[h].source IN SaysStill(s.d, s.row.doc, s.row.taken)'
    <3>1. PICK s : s = job[h].source
      OBVIOUS
    <3>2. s.d \in Docs /\ s.d # d /\ SaysStill(s.d, s.row.doc, s.row.taken)
      BY <1>1, <2>10, <3>1 DEF WriteJobs, JobFresh, SourceRight, JobSays
    <3>3. SaysStill(s.d, s.row.doc, s.row.taken)'
      BY <2>5, <3>2 DEF SaysStill, Says, Agrees
    <3>4. QED
      BY <2>7, <3>1, <3>3
  <2>11. JobSays(job[h])'
    <3>1. job[h]'.source # None =>
            SaysStill(job[h].source.d, job[h].source.row.doc, job[h].source.row.taken)'
      BY <2>7, <2>10
    <3>2. QED
      BY <2>7, <2>9, <3>1 DEF JobSays
  <2>12. QED
    BY <2>6, <2>11 DEF Said, OneAtATime
<1>4. QED
  BY <1>2, <1>3

LEMMA WriteSays ==
    ASSUME OneAtATime, TypeOK, Fresh, Said, NEW h \in Handlers, Write(h), TypeOK'
    PROVE  Said'
<1>1. PICK d \in Docs, doc \in Doc, taken \in Number, s \in {None} \cup [d : Docs, row : Row] :
        d = job[h].d /\ doc = job[h].doc /\ taken = job[h].taken /\ s = job[h].source
  BY Places DEF TypeOK, Write, WriteJobs
<1>2. /\ SaysStill(d, doc, taken) /\ SourceRight(d, s)
      /\ s # None => SaysStill(s.d, s.row.doc, s.row.taken)
  BY <1>1 DEF Fresh, JobFresh, Said, JobSays, Write
<1>3. \A e \in Docs :
        row'[e] = IF e = d THEN Written(d, doc, taken)
                  ELSE IF s # None /\ s.d = e THEN Written(e, s.row.doc, s.row.taken)
                  ELSE row[e]
  BY <1>1 DEF Write
<1>4. ASSUME NEW e \in Docs, NEW edoc, NEW etaken, SaysStill(e, edoc, etaken),
             row'[e] = Written(e, edoc, etaken)
      PROVE  row'[e].doc = edoc /\ row'[e].taken = etaken /\ Says(e, edoc, etaken)
  BY <1>4 DEF Written, SaysStill
<1>5. RowsSay'
  <2> SUFFICES ASSUME NEW e \in Docs, Have(e)' PROVE Says(e, row'[e].doc, row'[e].taken)
    BY DEF RowsSay, Says, Agrees
  <2>1. CASE e = d
    BY <1>2, <1>3, <1>4, <2>1
  <2>2. CASE e # d /\ s # None /\ s.d = e
    BY <1>2, <1>3, <1>4, <2>2
  <2>3. CASE e # d /\ ~(s # None /\ s.d = e)
    <3>1. row'[e] = row[e] /\ Have(e)
      BY <1>3, <2>3 DEF Have
    <3>2. QED
      BY <3>1 DEF Said, RowsSay
  <2>4. QED
    BY <2>1, <2>2, <2>3
<1>6. CASE Ends(h)
  BY <1>5, <1>6, EndsSay
<1>7. CASE ~Ends(h)
  <2> DEFINE j == [job[h] EXCEPT !.at = "allocate", !.move = Still]
  <2>1. Kind[d] = "proforma" /\ doc.number = NoNumber /\ Goes(h, j)
    BY <1>1, <1>7 DEF Write
  <2>2. job[h] \in WriteJobs
    BY Places DEF TypeOK, Write
  <2>3. j.at = "allocate" /\ j.d = d /\ j.doc = doc /\ j.source = s
    BY <1>1, <2>2 DEF WriteJobs
  <2>4. job'[h] = j
    BY <2>1 DEF Goes, TypeOK
  <2> HIDE DEF j
  <2>5. s = None
    BY <1>2, <2>1 DEF SourceRight
  <2>6. row'[d].doc = doc
    BY <1>2, <1>3, <1>4
  <2>7. JobSays(job[h])'
    BY <2>1, <2>3, <2>4, <2>5, <2>6 DEF JobSays, IssuedKinds
  <2>8. QED
    BY <1>5, <2>7 DEF Said, OneAtATime
<1>8. QED
  BY <1>6, <1>7

LEMMA EndingsSay ==
    ASSUME OneAtATime, TypeOK, Said, NEW h \in Handlers, Delete(h) \/ Recounted(h) \/ Die(h)
    PROVE  Said'
<1> USE DEF TypeOK
<1>1. ASSUME NEW e \in Docs, Have(e)' PROVE Says(e, row'[e].doc, row'[e].taken)
  <2>1. CASE row'[e] = row[e]
    <3>1. Have(e)
      BY <1>1, <2>1 DEF Have
    <3>2. Says(e, row[e].doc, row[e].taken)
      BY <3>1 DEF Said, RowsSay
    <3>3. QED
      BY <2>1, <3>2
  <2>2. CASE row'[e] # row[e]
    <3>1. /\ Recounted(h) /\ e = job[h].d /\ Have(e)
          /\ row'[e] = [row[e] EXCEPT !.doc = job[h].doc]
      BY <1>1, <2>2 DEF Delete, Recounted, Die, Have
    <3>2. row'[e].doc = job[h].doc /\ row'[e].taken = row[e].taken
      BY <3>1, HaveTyped DEF Row
    <3>3. Says(e, job[h].doc, row[e].taken)
      BY <3>1 DEF Recounted, Said, JobSays
    <3>4. QED
      BY <3>2, <3>3
  <2>3. QED
    BY <2>1, <2>2
<1>2. RowsSay'
  BY <1>1 DEF RowsSay, Says, Agrees
<1>3. QED
  BY <1>2, EndsSay DEF Delete, Recounted, Die

LEMMA SaidStart == Init => Said
BY DEF Init, Said, RowsSay, JobSays, Have, Idle

LEMMA SaidStays == ASSUME Said, UNCHANGED <<row, job>> PROVE Said'
<1>1. RowsSay'
  BY DEF Said, RowsSay, Says, Agrees, Have
<1>2. \A h \in Handlers : JobSays(job[h])'
  BY DEF Said, JobSays, SaysStill, Says, Agrees, Have
<1>3. QED
  BY <1>1, <1>2 DEF Said

LEMMA SaidStep ==
    ASSUME OneAtATime, "redated" \notin DocGaps, TypeOK, Fresh, Said, Next, TypeOK'
    PROVE  Said'
BY SaveSays, IssueSays, OthersStartSay, AllocateSays, WriteSays, EndingsSay DEF Next

LEMMA SaidSays == TypeOK /\ Said /\ Numbered => OneDocumentPerNumber
<1> SUFFICES ASSUME TypeOK, Said, Numbered, NEW d \in Docs, Have(d), row[d].doc.number # NoNumber
             PROVE  /\ GivenTo(d, row[d].doc.number) \in given
                    /\ \A x \in given : x[1] = GivenTo(d, row[d].doc.number)[1]
                                     /\ x[2] = GivenTo(d, row[d].doc.number)[2] => x[3] = d
  BY DEF OneDocumentPerNumber
<1>1. row[d].doc.number = row[d].taken /\ Known(d, row[d].taken)
  BY DEF Said, RowsSay, Says, Agrees, Numbered, RowsKnown, RowKnown
<1>2. GivenTo(d, row[d].doc.number) \in given
  BY <1>1 DEF Known
<1>3. GivenTo(d, row[d].doc.number)[3] = d
  BY DEF GivenTo
<1>4. QED
  BY <1>2, <1>3 DEF Numbered, GivenOnce

(* OneDocumentPerNumber: when no two handlers work on documents at once,   *)
(* and no draft that has taken a number is moved to another series (the    *)
(* gap "redated"), no document says a number that was not given to it, or  *)
(* that was given to another one too, wherever workers die (issue,         *)
(* docNumberFor).                                                          *)
THEOREM NumbersAreUnique ==
    OneAtATime /\ "redated" \notin DocGaps => (SalesSpec => []OneDocumentPerNumber)
<1> SUFFICES ASSUME OneAtATime, "redated" \notin DocGaps
             PROVE  SalesSpec => []OneDocumentPerNumber
  OBVIOUS
<1>1. SalesInit => Said
  BY SaidStart DEF SalesInit
<1>2. SalesTypeOK /\ SalesTypeOK' /\ Fresh /\ Said /\ [SalesNext]_allVars => Said'
  <2>1. ASSUME Said, UNCHANGED allVars \/ UNCHANGED books PROVE Said'
    BY <2>1, SaidStays DEF allVars, vars, books
  <2>2. QED
    BY <2>1, SaidStep DEF SalesNext, SalesTypeOK
<1>3. SalesTypeOK /\ Said /\ Numbered => OneDocumentPerNumber
  BY SaidSays DEF SalesTypeOK
<1>4. QED
  BY <1>1, <1>2, <1>3, AlwaysFresh, NumberedBesideSales, SalesTypes, PTL DEF SalesSpec

(* OnlyOnIssued: when no two handlers work on documents at once, whatever  *)
(* dies in between, nothing paid and no issued credit note ever stands on  *)
(* a cancelled document (cancel, noteProblem).                             *)
THEOREM NothingOnCancelled == OneAtATime => (SalesSpec => []OnlyOnIssued)
<1> SUFFICES ASSUME OneAtATime PROVE SalesSpec => []OnlyOnIssued
  OBVIOUS
<1>1. QED
  BY AlwaysFresh, FreshSays, PTL

(* IssuedForever: nor does an issued document ever go, lose its number or  *)
(* become a draft again (lockedFieldChanged, remove).                      *)
THEOREM IssuedIsFinal == OneAtATime => (SalesSpec => IssuedForever)
<1> SUFFICES ASSUME OneAtATime PROVE SalesSpec => IssuedForever
  OBVIOUS
<1>1. SalesTypeOK /\ Fresh /\ [SalesNext]_allVars => [IssuedStay]_vars
  BY FreshBesideSales
<1>2. QED
  BY <1>1, AlwaysFresh, SalesTypes, PTL DEF SalesSpec, IssuedForever

(* CreditWithinInvoice: nor do issued credit notes ever come to more than  *)
(* the invoice they are on, however often they are saved, and whatever is  *)
(* issued or cancelled between (creditRoom).                               *)
THEOREM CreditIsCovered == OneAtATime => (SalesSpec => []CreditWithinInvoice)
<1> SUFFICES ASSUME OneAtATime PROVE SalesSpec => []CreditWithinInvoice
  OBVIOUS
<1>1. SalesInit => Covered
  BY CoveredStart DEF SalesInit
<1>2. SalesTypeOK /\ Fresh /\ Covered /\ [SalesNext]_allVars => Covered'
  <2>1. ASSUME Covered, UNCHANGED allVars \/ UNCHANGED books PROVE Covered'
    BY <2>1, CoveredStays DEF allVars, vars, books
  <2>2. QED
    BY <2>1, CoveredStep DEF SalesNext, SalesTypeOK
<1>3. QED
  BY <1>1, <1>2, CoveredSays, AlwaysFresh, SalesTypes, PTL DEF SalesSpec

-----------------------------------------------------------------------------
(* The device.                                                             *)

(* What the device's own state says of a sale, ...                         *)
BoxRight(s) ==
    /\ s \notin made => box[s] = "none" /\ s \notin flush /\ sale[s] = "none"
    /\ box[s] = "refused" => s \notin flush /\ sale[s] # "kept"
    /\ s \in promised => box[s] # "none" \/ sale[s] # "none"

(* ... and a request to the server: who waits for it, and what it knows of *)
(* the sale it is about.                                                   *)
AskRight(h) ==
    LET s == till[h].s IN
    till[h] # Free =>
        /\ s \in made
        /\ till[h].by = "nobody" => till[h].do = "remove"
        /\ till[h].by = "form" => box[s] = "none" /\ s \notin flush
        /\ till[h].by = "flush" => s \in flush
        /\ till[h].do = "insert" => sale[s] = "none"
        /\ till[h].do = "refused" => sale[s] # "kept"
        /\ till[h].do \in {"recorded", "inserted", "gone", "remove"} => sale[s] # "none"

OneWaits ==
    \A g, h \in Tills :
        till[g] # Free /\ till[h] # Free /\ till[g].by = till[h].by /\ till[g].by # "nobody" => g = h

DeviceRight ==
    /\ \A s \in Sales : BoxRight(s)
    /\ \A h \in Tills : AskRight(h)
    /\ OneWaits

LEMMA NotFree == \A c \in Calls : c # Free
BY DEF Calls, Free, Results

(* The device alone: no request changes.                                   *)
LEMMA DeviceStepRight ==
    ASSUME SaleTypes, DeviceRight, Device
    PROVE  DeviceRight'
<1> USE DEF SaleTypes, Form
<1>1. UNCHANGED <<till, sale>>
  BY DEF Device, RecordOffline, Discard, Retry, StartFlush, StopFlush, OpenPiece, SavePiece
<1>2. OneWaits'
  BY <1>1 DEF DeviceRight, OneWaits
<1>3. \A h \in Tills : till[h] # Free => till[h].s \in Sales
  BY Busy
<1>4. CASE StartFlush
  <2>1. flush' = {s \in Sales : box[s] = "waiting"} /\ UNCHANGED <<made, box, promised>>
    BY <1>4 DEF StartFlush
  <2>2. \A h \in Tills : till[h] # Free => till[h].by # "flush"
    BY <1>4 DEF StartFlush, Waits
  <2>3. \A s \in Sales : BoxRight(s)'
    BY <1>1, <2>1 DEF DeviceRight, BoxRight
  <2>4. \A h \in Tills : AskRight(h)'
    BY <1>1, <1>3, <2>1, <2>2 DEF DeviceRight, AskRight
  <2>5. QED
    BY <1>2, <2>3, <2>4 DEF DeviceRight
<1>5. CASE StopFlush
  <2>1. flush' = {} /\ UNCHANGED <<made, box, promised>>
    BY <1>5 DEF StopFlush
  <2>2. \A h \in Tills : till[h] # Free => till[h].by # "flush"
    BY <1>5 DEF StopFlush, Waits
  <2>3. \A s \in Sales : BoxRight(s)'
    BY <1>1, <2>1 DEF DeviceRight, BoxRight
  <2>4. \A h \in Tills : AskRight(h)'
    BY <1>1, <1>3, <2>1, <2>2 DEF DeviceRight, AskRight
  <2>5. QED
    BY <1>2, <2>3, <2>4 DEF DeviceRight
<1>6. ASSUME NEW s \in Sales, RecordOffline(s) PROVE DeviceRight'
  <2>1. /\ s \notin made /\ made' = made \cup {s} /\ UNCHANGED flush
        /\ \/ box' = [box EXCEPT ![s] = "waiting"] /\ promised' = promised \cup {s}
           \/ UNCHANGED <<box, promised>>
    BY <1>6 DEF RecordOffline, Keep
  <2>2. \A x \in Sales : BoxRight(x)'
    BY <1>1, <2>1 DEF DeviceRight, BoxRight
  <2>3. \A h \in Tills : till[h] # Free => till[h].s # s /\ till[h].s \in made
    BY <2>1 DEF DeviceRight, AskRight
  <2>4. \A h \in Tills : AskRight(h)'
    BY <1>1, <1>3, <2>1, <2>3 DEF DeviceRight, AskRight
  <2>5. QED
    BY <1>2, <2>2, <2>4 DEF DeviceRight
<1>7. ASSUME NEW s \in Sales, Discard(s) \/ Retry(s) PROVE DeviceRight'
  <2>1. /\ box[s] # "none" /\ UNCHANGED <<made, flush>>
        /\ \/ box' = [box EXCEPT ![s] = "none"] /\ promised' = promised \ {s}
           \/ box' = [box EXCEPT ![s] = "waiting"] /\ UNCHANGED promised
    BY <1>7 DEF Discard, Retry, Without
  <2>2. \A x \in Sales : BoxRight(x)'
    BY <1>1, <2>1 DEF DeviceRight, BoxRight
  <2>3. \A h \in Tills : AskRight(h)'
    BY <1>1, <1>3, <2>1 DEF DeviceRight, AskRight
  <2>4. QED
    BY <1>2, <2>2, <2>3 DEF DeviceRight
<1>8. CASE UNCHANGED <<made, box, flush, promised>>
  BY <1>1, <1>2, <1>8 DEF DeviceRight, BoxRight, AskRight
<1>9. QED
  BY <1>4, <1>5, <1>6, <1>7, <1>8 DEF Device, OpenPiece, SavePiece

(* One request moves on: the others still stand if what they know of their *)
(* sale does, and if it is not waited for by someone who waits already.    *)
LEMMA OthersStand ==
    ASSUME SaleTypes, DeviceRight, NEW h \in Tills, NEW c \in {Free} \cup Calls, Serves(h, c),
           \/ c = Free
           \/ c.by = "nobody"
           \/ till[h] # Free /\ c.by = till[h].by
           \/ ~Waits(c.by)
    PROVE  OneWaits'
<1> USE DEF SaleTypes
<1>1. /\ till'[h] = c
      /\ \A g \in Tills : g # h => till'[g] = till[g]
  BY OneTill
<1>2. QED
  BY <1>1 DEF DeviceRight, OneWaits, Waits

LEMMA SameDevice ==
    ASSUME SaleTypes, DeviceRight, NEW h \in Tills, UNCHANGED <<made, box, flush, promised, sale>>,
           NEW c \in {Free} \cup Calls, Serves(h, c), AskRight(h)', OneWaits'
    PROVE  DeviceRight'
<1> USE DEF SaleTypes
<1>1. \A g \in Tills : g # h => till'[g] = till[g]
  BY OneTill
<1>2. \A g \in Tills : AskRight(g)'
  BY <1>1 DEF DeviceRight, AskRight
<1>3. QED
  BY <1>2 DEF DeviceRight, BoxRight

LEMMA StartsRight ==
    ASSUME SaleTypes, DeviceRight, NEW h \in Tills, NEW s \in Sales,
           Record(h, s) \/ Upload(h, s) \/ StartRemove(h, s)
    PROVE  DeviceRight'
<1> USE DEF SaleTypes, Form
<1>1. UNCHANGED <<box, flush, promised, sale>> /\ till[h] = Free
  BY DEF Record, Upload, StartRemove
<1>2. CASE Upload(h, s) \/ StartRemove(h, s)
  <2>1. PICK c \in Calls :
          /\ Serves(h, c) /\ c.s = s
          /\ \/ c.by = "flush" /\ c.do = "look" /\ s \in flush /\ ~Waits("flush")
             \/ c.by = "nobody" /\ c.do = "remove" /\ sale[s] = "kept"
    <3>1. /\ [do |-> "look", s |-> s, by |-> "flush"] \in Calls
          /\ [do |-> "remove", s |-> s, by |-> "nobody"] \in Calls
      BY DEF Calls
    <3>2. QED
      BY <1>2, <3>1 DEF Upload, StartRemove
  <2>2. UNCHANGED made /\ s \in made
    BY <1>2, <2>1 DEF Upload, StartRemove, DeviceRight, BoxRight
  <2>3. AskRight(h)'
    BY <1>1, <2>1, <2>2, OneTill DEF AskRight
  <2>4. OneWaits'
    BY <2>1, OthersStand
  <2>5. QED
    BY <1>1, <2>1, <2>2, <2>3, <2>4, SameDevice
<1>3. CASE Record(h, s)
  <2> DEFINE c == [do |-> "look", s |-> s, by |-> "form"]
  <2>1. /\ s \notin made /\ made' = made \cup {s} /\ ~Waits("form")
        /\ c \in Calls /\ Serves(h, c)
    BY <1>3 DEF Record, Calls
  <2>2. till'[h] = c /\ \A g \in Tills : g # h => till'[g] = till[g]
    BY <2>1, OneTill
  <2>3. \A x \in Sales : BoxRight(x)'
    BY <1>1, <2>1 DEF DeviceRight, BoxRight
  <2>4. \A g \in Tills : AskRight(g)'
    BY <1>1, <2>1, <2>2 DEF DeviceRight, BoxRight, AskRight
  <2>5. OneWaits'
    BY <2>1, OthersStand
  <2>6. QED
    BY <2>3, <2>4, <2>5 DEF DeviceRight
<1>4. QED
  BY <1>2, <1>3

LEMMA LookRight ==
    ASSUME SaleTypes, DeviceRight, NEW h \in Tills, Look(h)
    PROVE  DeviceRight'
<1> USE DEF SaleTypes, Form
<1> DEFINE s == till[h].s
           c == [till[h] EXCEPT !.do = Found(s)]
<1>1. till[h] # Free /\ till[h] \in Calls /\ s \in Sales
  BY Busy DEF Look, Free
<1>2. Found(s) \in Dos /\ Serves(h, c) /\ UNCHANGED <<made, box, flush, promised, sale>>
  BY <1>1, FoundIsDo DEF Look
<1>3. c \in Calls /\ c.do = Found(s) /\ c.s = s /\ c.by = till[h].by /\ c # Free
  BY <1>1, <1>2, NextDo
<1>4. /\ c.do \in {"insert", "gone", "recorded"}
      /\ c.do = "insert" => sale[s] = "none"
      /\ c.do # "insert" => sale[s] # "none"
  BY <1>1, <1>3 DEF Found
<1>5. c.by # "nobody"
  BY <1>1, <1>3 DEF Look, DeviceRight, AskRight
<1>6. AskRight(h)'
  <2>1. till'[h] = c
    BY <1>2, <1>3, OneTill
  <2>2. QED
    BY <1>1, <1>2, <1>3, <1>4, <1>5, <2>1 DEF DeviceRight, AskRight
<1>7. OneWaits'
  BY <1>1, <1>2, <1>3, OthersStand
<1>8. QED
  BY <1>2, <1>3, <1>6, <1>7, SameDevice

(* A request ends: what it was about, and what the device then holds.      *)
LEMMA EndsRight ==
    ASSUME SaleTypes, DeviceRight, NEW h \in Tills, till[h] # Free, Closes(h),
           UNCHANGED <<made, sale>>,
           \A x \in Sales : BoxRight(x)',
           \A x \in Sales : x # till[h].s => box'[x] = box[x],
           flush' \subseteq flush,
           flush' # flush => till[h].by = "flush",
           box' # box => till[h].by # "nobody"
    PROVE  DeviceRight'
<1> USE DEF SaleTypes
<1>1. till'[h] = Free /\ \A g \in Tills : g # h => till'[g] = till[g]
  BY OneClosed
<1>2. OneWaits'
  BY OthersStand DEF Closes
<1>3. ASSUME NEW g \in Tills, till'[g] # Free PROVE AskRight(g)'
  <2>1. g # h /\ till'[g] = till[g] /\ AskRight(g) /\ AskRight(h)
    BY <1>1, <1>3 DEF DeviceRight
  <2>2. till[g].s \in Sales /\ till[g].by \in {"form", "flush", "nobody"}
    BY <1>3, <2>1, Busy DEF Calls
  <2>3. till[g].by # "nobody" => till[g].by # till[h].by
    BY <1>3, <2>1 DEF DeviceRight, OneWaits
  <2>4. till[g].by = "form" => box'[till[g].s] = "none" /\ till[g].s \notin flush'
    <3>1. CASE till[g].s = till[h].s /\ till[g].by = "form"
      <4>1. box[till[g].s] = "none" /\ till[g].s \notin flush
        BY <1>3, <2>1, <3>1 DEF AskRight
      <4>2. till[h].by \in {"form", "flush", "nobody"}
        BY Busy DEF Calls
      <4>3. till[h].by # "form"
        BY <2>3, <3>1
      <4>4. till[h].by # "flush"
        BY <2>1, <3>1, <4>1 DEF AskRight
      <4>5. QED
        BY <4>1, <4>2, <4>3, <4>4
    <3>2. CASE till[g].s # till[h].s
      BY <1>3, <2>1, <2>2, <3>2 DEF AskRight
    <3>3. QED
      BY <3>1, <3>2
  <2>5. till[g].by = "flush" => till[g].s \in flush'
    BY <1>3, <2>1, <2>3 DEF AskRight
  <2>6. QED
    BY <2>1, <2>4, <2>5 DEF AskRight
<1>4. QED
  BY <1>1, <1>2, <1>3 DEF DeviceRight, AskRight

LEMMA AnswerRight ==
    ASSUME SaleTypes, DeviceRight, NEW h \in Tills, Answer(h)
    PROVE  DeviceRight'
<1> USE DEF SaleTypes, Form
<1>1. PICK s \in Sales :
        /\ s = till[h].s /\ till[h] # Free /\ till[h] \in Calls /\ AskRight(h) /\ Closes(h)
        /\ UNCHANGED <<made, sale, promised>>
  BY Busy DEF Answer, DeviceRight
<1>2. till[h].do \in Results /\ till[h].by # "nobody"
  BY <1>1 DEF Answer, AskRight, Results
<1>3. CASE UNCHANGED <<box, flush>>
  BY <1>1, <1>3, EndsRight DEF DeviceRight, BoxRight
<1>4. CASE till[h].by = "flush" /\ ~UNCHANGED <<box, flush>>
  <2>1. s \in flush /\ s \in made /\ box[s] # "refused"
    BY <1>1, <1>4 DEF AskRight, DeviceRight, BoxRight
  <2>2. \/ box' = box /\ flush' = {}
        \/ box' = Refused(s) /\ flush' = flush \ {s} /\ sale[s] # "kept"
        \/ box' = Without(s) /\ flush' = flush \ {s} /\ sale[s] # "none"
    BY <1>1, <1>2, <1>4 DEF Answer, Result, AskRight, Results
  <2>3. /\ \A x \in Sales : x # s => box'[x] = box[x]
        /\ flush' \subseteq flush
        /\ s \in flush' => box'[s] = box[s]
    BY <1>1, <2>2 DEF Refused, Without
  <2>4. \A x \in Sales : x # s => BoxRight(x)'
    BY <1>1, <2>3 DEF DeviceRight, BoxRight
  <2>5. BoxRight(s)'
    <3>1. BoxRight(s) /\ box[s] \in {"none", "waiting"} /\ UNCHANGED <<made, sale, promised>>
      BY <1>1, <2>1 DEF DeviceRight
    <3>2. CASE box' = box /\ flush' = {}
      BY <3>1, <3>2, <2>1 DEF BoxRight
    <3>3. CASE box' = Refused(s) /\ flush' = flush \ {s} /\ sale[s] # "kept"
      <4>1. box'[s] = IF box[s] = "none" THEN "none" ELSE "refused"
        BY <1>1, <3>3 DEF Refused
      <4>2. QED
        BY <1>1, <2>1, <3>1, <3>3, <4>1 DEF BoxRight
    <3>4. CASE box' = Without(s) /\ flush' = flush \ {s} /\ sale[s] # "none"
      <4>1. box'[s] = "none"
        BY <1>1, <3>4 DEF Without
      <4>2. QED
        BY <1>1, <2>1, <3>1, <3>4, <4>1 DEF BoxRight
    <3>5. QED
      BY <2>2, <3>2, <3>3, <3>4
  <2>6. \A x \in Sales : BoxRight(x)'
    BY <2>4, <2>5
  <2>7. till[h].by # "nobody"
    BY <1>4
  <2>8. QED
    BY <1>1, <1>4, <2>3, <2>6, <2>7, EndsRight
<1>5. QED
  BY <1>3, <1>4 DEF Answer

LEMMA LoseRight ==
    ASSUME "resent" \notin SaleGaps, SaleTypes, DeviceRight, NEW h \in Tills, Lose(h)
    PROVE  DeviceRight'
<1> USE DEF SaleTypes, Form
<1> DEFINE s == till[h].s
<1>1. /\ till[h] # Free /\ till[h] \in Calls /\ s \in Sales /\ AskRight(h) /\ Closes(h)
      /\ UNCHANGED <<made, sale>> /\ flush' = IF till[h].by = "flush" THEN {} ELSE flush
  BY Busy DEF Lose, DeviceRight
<1>2. CASE UNCHANGED <<box, promised>>
  <2>1. \A x \in Sales : BoxRight(x)'
    BY <1>1, <1>2 DEF DeviceRight, BoxRight
  <2>2. QED
    BY <1>1, <1>2, <2>1, EndsRight
<1>3. CASE till[h].by = "form" /\ Keep(s)
  <2>1. s \in made
    BY <1>1 DEF AskRight
  <2>2. \A x \in Sales : BoxRight(x)'
    BY <1>1, <1>3, <2>1 DEF DeviceRight, BoxRight, Keep
  <2>3. \A x \in Sales : x # s => box'[x] = box[x]
    BY <1>1, <1>3 DEF Keep
  <2>4. QED
    BY <1>1, <1>3, <2>2, <2>3, EndsRight
<1>4. QED
  BY <1>2, <1>3 DEF Lose

(* A sale's row changes: what the device and the other requests know of it *)
(* must stand.                                                             *)
LEMMA InsertRight ==
    ASSUME SaleTypes, DeviceRight, NEW h \in Tills, Insert(h)
    PROVE  DeviceRight'
<1> USE DEF SaleTypes, Form
<1> DEFINE s == till[h].s
<1>1. /\ till[h] # Free /\ till[h] \in Calls /\ s \in Sales /\ AskRight(h)
      /\ till[h].do = "insert" /\ till[h].by # "nobody" /\ s \in made /\ sale[s] = "none"
      /\ UNCHANGED <<made, box, flush, promised>>
  BY Busy DEF Insert, DeviceRight, AskRight, Free
<1>2. PICK do \in {"inserted", "busy", "refused"} :
        /\ Serves(h, [till[h] EXCEPT !.do = do])
        /\ \/ do = "inserted" /\ sale' = [sale EXCEPT ![s] = "kept"]
           \/ do # "inserted" /\ UNCHANGED sale
  BY DEF Insert
<1> DEFINE c == [till[h] EXCEPT !.do = do]
<1>3. c \in Calls /\ c.do = do /\ c.s = s /\ c.by = till[h].by /\ c # Free
  <2>1. do \in Dos
    BY DEF Dos, Results
  <2>2. QED
    BY <1>1, <2>1, NextDo
<1>4. till'[h] = c /\ \A g \in Tills : g # h => till'[g] = till[g]
  BY <1>2, <1>3, OneTill
<1>5. OneWaits'
  BY <1>1, <1>2, <1>3, OthersStand
<1>6. AskRight(h)'
  BY <1>1, <1>2, <1>3, <1>4 DEF AskRight
<1>7. CASE UNCHANGED sale
  BY <1>1, <1>2, <1>3, <1>5, <1>6, <1>7, SameDevice
<1>8. CASE sale' = [sale EXCEPT ![s] = "kept"]
  <2>1. \A x \in Sales : BoxRight(x)'
    <3>1. box[s] # "refused"
      <4>1. till[h].by \in {"form", "flush"}
        BY <1>1 DEF Calls
      <4>2. QED
        BY <1>1, <4>1 DEF AskRight, DeviceRight, BoxRight
    <3>2. QED
      BY <1>1, <1>8, <3>1 DEF DeviceRight, BoxRight
  <2>2. ASSUME NEW g \in Tills, g # h, till'[g] # Free PROVE AskRight(g)'
    <3>1. till'[g] = till[g] /\ till[g] \in Calls /\ till[g].s \in Sales /\ AskRight(g)
      BY <1>4, <2>2, Busy DEF DeviceRight
    <3>2. till[g].s = s => till[g].by = "nobody"
      <4>1. till[g].by \in {"form", "flush", "nobody"} /\ till[h].by \in {"form", "flush"}
        BY <1>1, <3>1 DEF Calls
      <4>2. till[g].by # "nobody" => till[g].by # till[h].by
        BY <1>1, <2>2, <3>1 DEF DeviceRight, OneWaits
      <4>3. QED
        BY <1>1, <3>1, <2>2, <4>1, <4>2 DEF AskRight
    <3>3. QED
      BY <1>1, <1>8, <2>2, <3>1, <3>2 DEF AskRight
  <2>3. \A g \in Tills : AskRight(g)'
    BY <1>4, <1>6, <2>2 DEF AskRight
  <2>4. QED
    BY <1>5, <2>1, <2>3 DEF DeviceRight
<1>9. QED
  BY <1>2, <1>7, <1>8

LEMMA RemoveRight ==
    ASSUME SaleTypes, DeviceRight, NEW h \in Tills, RemoveSale(h)
    PROVE  DeviceRight'
<1> USE DEF SaleTypes, Form
<1> DEFINE s == till[h].s
<1>1. /\ till[h] # Free /\ s \in Sales /\ AskRight(h) /\ till[h].do = "remove"
      /\ Closes(h) /\ sale' = [sale EXCEPT ![s] = "deleted"]
      /\ UNCHANGED <<made, box, flush, promised>>
  BY Busy DEF RemoveSale, DeviceRight, Free
<1>2. till'[h] = Free /\ \A g \in Tills : g # h => till'[g] = till[g]
  BY <1>1, OneClosed
<1>3. sale[s] # "none" /\ s \in made
  BY <1>1 DEF AskRight
<1>4. \A x \in Sales : BoxRight(x)'
  BY <1>1, <1>3 DEF DeviceRight, BoxRight
<1>5. ASSUME NEW g \in Tills, till'[g] # Free PROVE AskRight(g)'
  <2>1. till'[g] = till[g] /\ till[g].s \in Sales /\ AskRight(g)
    BY <1>2, <1>5, Busy DEF DeviceRight
  <2>2. QED
    BY <1>1, <1>3, <2>1 DEF AskRight
<1>6. OneWaits'
  BY <1>1, OthersStand DEF Closes
<1>7. QED
  BY <1>4, <1>5, <1>6 DEF DeviceRight, AskRight

(* OutboxIsTrue: unless a sale is sent again while the server still works  *)
(* on it (the gap "resent"), the device is right about the sales it keeps, *)
(* however answers are lost, workers end, sales are deleted, discarded,    *)
(* tried again or sold out meanwhile (flushPendingSales, newSaleId).       *)
THEOREM DeviceKnows == "resent" \notin SaleGaps => (SalesSpec => []OutboxIsTrue)
<1> SUFFICES ASSUME "resent" \notin SaleGaps PROVE SalesSpec => []OutboxIsTrue
  OBVIOUS
<1>1. SalesInit => DeviceRight
  BY DEF SalesInit, DeviceRight, BoxRight, AskRight, OneWaits
<1>2. SalesTypeOK /\ DeviceRight /\ [SalesNext]_allVars => DeviceRight'
  <2>1. SalesTypeOK => SaleTypes
    BY DEF SalesTypeOK, SaleTypes, TypeOK, Pieces
  <2>2. ASSUME DeviceRight, UNCHANGED saleVars PROVE DeviceRight'
    BY <2>2 DEF saleVars, DeviceRight, BoxRight, AskRight, OneWaits
  <2>3. ASSUME SaleTypes, DeviceRight, NEW h \in Tills, Till(h) PROVE DeviceRight'
    BY <2>3, StartsRight, AnswerRight, LoseRight, LookRight, InsertRight, RemoveRight DEF Till
  <2>4. QED
    BY <2>1, <2>2, <2>3, DeviceStepRight DEF SalesNext, allVars
<1>3. SalesTypeOK /\ DeviceRight => OutboxIsTrue
  BY DEF SalesTypeOK, DeviceRight, BoxRight, OutboxIsTrue
<1>4. QED
  BY <1>1, <1>2, <1>3, SalesTypes, PTL DEF SalesSpec
-----------------------------------------------------------------------------
(* The units of the piece.                                                 *)

Kept == {s \in Sales : sale[s] = "kept"}

(* What DELETE read is still so when it puts the unit back.                *)
RemovesOnce ==
    \A h \in Tills : till[h].do = "remove" =>
        /\ sale[till[h].s] = "kept"
        /\ \A g \in Tills : till[g].do = "remove" /\ till[g].s = till[h].s => g = h

UnitsRight == UnitsAddUp /\ RemovesOnce /\ IsFiniteSet(Out) /\ IsFiniteSet(Kept)

LEMMA KeptTyped ==
    ASSUME UnitsRight
    PROVE  Cardinality(Out) \in Nat /\ Cardinality(Kept) \in Nat
BY FS_CardinalityType DEF UnitsRight

(* Steps of others leave what DELETE read.                                 *)
LEMMA RemovesStay ==
    ASSUME SaleTypes, UnitsRight, NEW h \in Tills,
           \/ UNCHANGED till
           \/ \E c \in {Free} \cup Calls : Serves(h, c) /\ (c # Free => c.do # "remove"),
           \A s \in Sales : sale'[s] = sale[s] \/ sale[s] # "kept"
    PROVE  RemovesOnce'
<1> USE DEF SaleTypes
<1>1. \A g \in Tills : till'[g].do = "remove" => till'[g] = till[g]
  BY OneTill DEF Free
<1>2. \A g \in Tills : till[g].do = "remove" => till[g].s \in Sales
  BY Busy DEF Free
<1>3. QED
  BY <1>1, <1>2 DEF UnitsRight, RemovesOnce

(* A step that moves no unit and no sale.                                  *)
LEMMA NoUnitMoves ==
    ASSUME UnitsRight, UNCHANGED <<piece, sale, added, row, short>>, RemovesOnce'
    PROVE  UnitsRight'
<1>1. Out' = Out /\ Kept' = Kept
  BY DEF Out, Kept, Is, Have
<1>2. QED
  BY <1>1 DEF UnitsRight, UnitsAddUp, Kept

LEMMA InsertUnits ==
    ASSUME SaleTypes, UnitsRight, NEW h \in Tills, Insert(h), UNCHANGED books
    PROVE  UnitsRight'
<1> USE DEF SaleTypes, Form, books
<1>1. till[h] # Free /\ till[h] \in Calls /\ till[h].s \in Sales
  BY Busy DEF Insert, Free
<1>2. PICK do \in {"inserted", "busy", "refused"} :
        /\ Serves(h, [till[h] EXCEPT !.do = do])
        /\ \/ do = "inserted" /\ piece' = SoldOne /\ ForSale
              /\ sale[till[h].s] = "none" /\ sale' = [sale EXCEPT ![till[h].s] = "kept"]
           \/ do # "inserted" /\ UNCHANGED <<piece, sale>>
  BY DEF Insert
<1>3. [till[h] EXCEPT !.do = do] \in Calls /\ [till[h] EXCEPT !.do = do].do # "remove"
  BY <1>1, NextDo DEF Dos, Results
<1>4. RemovesOnce'
  BY <1>2, <1>3, RemovesStay
<1>5. UNCHANGED <<added, row, short>>
  BY DEF Insert
<1>6. CASE UNCHANGED <<piece, sale>>
  BY <1>4, <1>5, <1>6, NoUnitMoves
<1>7. CASE do = "inserted" /\ ~UNCHANGED <<piece, sale>>
  <2>1. PICK s \in Sales : sale[s] = "none" /\ sale' = [sale EXCEPT ![s] = "kept"]
    BY <1>1, <1>2, <1>7
  <2>2. Out' = Out
    BY <1>5 DEF Out, Is, Have
  <2>3. s \notin Kept /\ Kept' = Kept \cup {s}
    BY <2>1 DEF Kept
  <2>4. IsFiniteSet(Kept') /\ Cardinality(Kept') = Cardinality(Kept) + 1
    BY <2>3, FS_AddElement DEF UnitsRight
  <2>5. piece'.units = piece.units - 1 /\ piece.units \in Nat
    BY <1>2, <1>7 DEF SoldOne, Pieces
  <2>6. ~short => piece.units = Stock + added - Cardinality(Out) - Cardinality(Kept)
    BY DEF UnitsRight, UnitsAddUp, Kept
  <2>7. UnitsAddUp'
    <3>1. ~short => piece'.units = Stock + added' - Cardinality(Out') - Cardinality(Kept')
      BY <1>5, <2>2, <2>4, <2>5, <2>6, KeptTyped
    <3>2. QED
      BY <1>5, <3>1 DEF UnitsAddUp, Kept
  <2>8. QED
    BY <1>4, <2>2, <2>4, <2>7 DEF UnitsRight
<1>8. QED
  BY <1>2, <1>6, <1>7

LEMMA RemoveUnits ==
    ASSUME SaleTypes, UnitsRight, NEW h \in Tills, RemoveSale(h), UNCHANGED books
    PROVE  UnitsRight'
<1> USE DEF SaleTypes, Form, books
<1>0. PICK s \in Sales : s = till[h].s
  BY Busy DEF RemoveSale, Free
<1>1. s = till[h].s /\ sale[s] = "kept" /\ sale' = [sale EXCEPT ![s] = "deleted"]
  BY <1>0 DEF RemoveSale, UnitsRight, RemovesOnce
<1>2. till[h].do = "remove" /\ piece' = PutBack /\ Closes(h) /\ UNCHANGED <<added, row, short>>
  BY DEF RemoveSale
<1>3. RemovesOnce'
  <2>1. till'[h] = Free /\ \A g \in Tills : g # h => till'[g] = till[g]
    BY <1>2, OneClosed
  <2>2. ASSUME NEW g \in Tills, till'[g].do = "remove" PROVE g # h /\ till[g].s \in Sales /\ till[g].s # s
    <3>1. g # h /\ till[g].do = "remove"
      BY <2>1, <2>2 DEF Free
    <3>2. QED
      BY <1>1, <1>2, <3>1, Busy DEF UnitsRight, RemovesOnce, Free
  <2>3. QED
    BY <1>1, <2>1, <2>2 DEF UnitsRight, RemovesOnce
<1>4. Out' = Out
  BY <1>2 DEF Out, Is, Have
<1>5. s \in Kept /\ Kept' = Kept \ {s}
  BY <1>1 DEF Kept
<1>6. IsFiniteSet(Kept') /\ Cardinality(Kept') = Cardinality(Kept) - 1
  BY <1>5, FS_RemoveElement DEF UnitsRight
<1>7. piece'.units = piece.units + 1 /\ piece.units \in Nat
  BY <1>2 DEF PutBack, Pieces
<1>8. ~short => piece.units = Stock + added - Cardinality(Out) - Cardinality(Kept)
  BY DEF UnitsRight, UnitsAddUp, Kept
<1>9. ~short => piece'.units = Stock + added' - Cardinality(Out') - Cardinality(Kept')
  BY <1>2, <1>4, <1>6, <1>7, <1>8, KeptTyped
<1>10. UnitsAddUp'
  BY <1>2, <1>9 DEF UnitsAddUp, Kept
<1>11. QED
  BY <1>3, <1>4, <1>6, <1>10 DEF UnitsRight

LEMMA OtherTillUnits ==
    ASSUME "restock" \notin SaleGaps, SaleTypes, UnitsRight, NEW h \in Tills, UNCHANGED books,
           \/ \E s \in Sales : Record(h, s) \/ Upload(h, s) \/ StartRemove(h, s)
           \/ Answer(h) \/ Lose(h) \/ Look(h)
    PROVE  UnitsRight'
<1> USE DEF SaleTypes, Form, books
<1>1. UNCHANGED <<piece, sale, added, row, short>>
  BY DEF Record, Upload, StartRemove, Answer, Lose, Look
<1>2. CASE \E s \in Sales : Record(h, s) \/ Upload(h, s)
  <2>1. \E c \in Calls : Serves(h, c) /\ c.do = "look"
    <3>1. \A s \in Sales, by \in {"form", "flush"} : [do |-> "look", s |-> s, by |-> by] \in Calls
      BY DEF Calls
    <3>2. QED
      BY <1>2, <3>1 DEF Record, Upload
  <2>2. QED
    BY <1>1, <2>1, RemovesStay, NoUnitMoves
<1>3. CASE Answer(h)
  BY <1>1, <1>3, RemovesStay, NoUnitMoves DEF Answer, Closes
<1>4. CASE Look(h)
  <2>1. /\ till[h] \in Calls /\ till[h].s \in Sales
        /\ Serves(h, [till[h] EXCEPT !.do = Found(till[h].s)])
    BY <1>4, Busy DEF Look, Free
  <2>2. Found(till[h].s) \in Dos /\ Found(till[h].s) # "remove"
    BY <2>1, FoundIsDo DEF Found
  <2>3. \E c \in Calls : Serves(h, c) /\ c.do # "remove"
    <3> DEFINE c == [till[h] EXCEPT !.do = Found(till[h].s)]
    <3>1. c \in Calls /\ c.do = Found(till[h].s)
      BY <2>1, <2>2, NextDo
    <3>2. QED
      BY <2>1, <2>2, <3>1
  <2>4. QED
    BY <1>1, <2>3, RemovesStay, NoUnitMoves
<1>5. CASE Lose(h)
  <2>1. CASE Closes(h)
    BY <1>1, <2>1, RemovesStay, NoUnitMoves DEF Closes
  <2>2. CASE ~Closes(h)
    <3>1. /\ till[h] \in Calls /\ till[h].do \in {"look", "insert"}
          /\ Serves(h, [till[h] EXCEPT !.by = "nobody"])
      BY <1>5, <2>2, Busy DEF Lose
    <3>2. [till[h] EXCEPT !.by = "nobody"] \in Calls /\ [till[h] EXCEPT !.by = "nobody"].do # "remove"
      BY <3>1 DEF Calls
    <3>3. QED
      BY <1>1, <3>1, <3>2, RemovesStay, NoUnitMoves
  <2>3. QED
    BY <2>1, <2>2
<1>6. ASSUME NEW s \in Sales, StartRemove(h, s) PROVE UnitsRight'
  <2> DEFINE c == [do |-> "remove", s |-> s, by |-> "nobody"]
  <2>1. /\ c \in Calls /\ Serves(h, c) /\ sale[s] = "kept" /\ till[h] = Free
        /\ \A g \in Tills : till[g].do = "remove" => till[g].s # s
    BY <1>6 DEF StartRemove, Calls
  <2>2. till'[h] = c /\ \A g \in Tills : g # h => till'[g] = till[g]
    BY <2>1, OneTill
  <2>3. RemovesOnce'
    BY <1>1, <2>1, <2>2 DEF UnitsRight, RemovesOnce
  <2>4. QED
    BY <1>1, <2>3, NoUnitMoves
<1>7. QED
  BY <1>2, <1>3, <1>4, <1>5, <1>6

LEMMA DeviceUnits ==
    ASSUME SaleTypes, UnitsRight, Device, UNCHANGED books
    PROVE  UnitsRight'
<1> USE DEF SaleTypes, Form, books
<1>1. UNCHANGED <<till, sale, row, short>>
  BY DEF Device, RecordOffline, Discard, Retry, StartFlush, StopFlush, OpenPiece, SavePiece
<1>2. RemovesOnce'
  BY <1>1 DEF UnitsRight, RemovesOnce
<1>3. CASE UNCHANGED <<piece, added>>
  BY <1>1, <1>2, <1>3, NoUnitMoves
<1>4. CASE ~UNCHANGED <<piece, added>>
  <2>1. PICK new \in Pieces : seen = piece /\ piece' = new /\ added' = added + new.units - seen.units
    <3>1. seen # None => seen.units + 1 \in Nat /\ seen.units \in Nat
      BY DEF Pieces
    <3>2. QED
      BY <1>4, <3>1 DEF Device, RecordOffline, Discard, Retry, StartFlush, StopFlush, OpenPiece,
                         SavePiece, Untouched, Pieces
  <2>2. Out' = Out /\ Kept' = Kept
    BY <1>1 DEF Out, Kept, Is, Have
  <2>3. ~short => piece.units = Stock + added - Cardinality(Out) - Cardinality(Kept)
    BY DEF UnitsRight, UnitsAddUp, Kept
  <2>4. piece.units \in Nat /\ new.units \in Nat /\ piece'.units = new.units
    BY <2>1 DEF Pieces
  <2>5. ~short => piece'.units = Stock + added' - Cardinality(Out') - Cardinality(Kept')
    BY <2>1, <2>2, <2>3, <2>4, KeptTyped
  <2>6. UnitsAddUp'
    BY <1>1, <2>5 DEF UnitsAddUp, Kept
  <2>7. QED
    BY <1>2, <2>2, <2>6 DEF UnitsRight
<1>5. QED
  BY <1>3, <1>4

LEMMA BooksUnits ==
    ASSUME OneAtATime, SalesTypeOK, Fresh, UnitsRight, Next, UNCHANGED saleVars
    PROVE  UnitsRight'
<1>1. UnitsFollow
  BY UnitsStep DEF SalesTypeOK, UnitsRight
<1>2. Kept' = Kept /\ RemovesOnce' /\ added' = added
  BY DEF saleVars, Kept, UnitsRight, RemovesOnce
<1>3. ~short => piece.units = Stock + added - Cardinality(Out) - Cardinality(Kept)
  BY DEF UnitsRight, UnitsAddUp, Kept
<1>4. piece.units \in Nat /\ piece'.units \in Nat /\ added \in Int
  BY Typed DEF SalesTypeOK, TypeOK
<1>5. Cardinality(Out') \in Nat
  BY <1>1, FS_CardinalityType DEF UnitsFollow
<1>6. ~short' => piece'.units = Stock + added' - Cardinality(Out') - Cardinality(Kept')
  BY <1>1, <1>2, <1>3, <1>4, <1>5, KeptTyped DEF UnitsFollow
<1>7. UnitsAddUp'
  BY <1>6 DEF UnitsAddUp, Kept
<1>8. QED
  BY <1>1, <1>2, <1>7 DEF UnitsRight, UnitsFollow

(* UnitsAddUp: when no two handlers work on documents at once and a sale   *)
(* is not deleted twice at once (the gap "restock"), the units left are    *)
(* those no invoice and no sale took, whatever is sold, invoiced,          *)
(* cancelled, deleted and edited by hand (insertSale, stockStatements).    *)
THEOREM UnitsAreRight == OneAtATime /\ "restock" \notin SaleGaps => (SalesSpec => []UnitsAddUp)
<1> SUFFICES ASSUME OneAtATime, "restock" \notin SaleGaps PROVE SalesSpec => []UnitsAddUp
  OBVIOUS
<1>1. SalesInit => UnitsRight
  <2> SUFFICES ASSUME SalesInit PROVE UnitsRight
    OBVIOUS
  <2>1. Out = {} /\ Kept = {}
    BY DEF SalesInit, Init, Out, Kept, Is, Have
  <2>2. RemovesOnce
    BY DEF SalesInit, RemovesOnce, Free
  <2>3. piece.units = Stock /\ added = 0
    BY DEF SalesInit, Init
  <2>4. Cardinality(Out) = 0 /\ Cardinality(Kept) = 0 /\ Stock \in Nat
    BY <2>1, FS_EmptySet
  <2>5. UnitsAddUp
    BY <2>3, <2>4 DEF UnitsAddUp, Kept
  <2>6. QED
    BY <2>1, <2>2, <2>5, FS_EmptySet DEF UnitsRight
<1>2. SalesTypeOK /\ Fresh /\ UnitsRight /\ [SalesNext]_allVars => UnitsRight'
  <2>1. SalesTypeOK => SaleTypes
    BY DEF SalesTypeOK, SaleTypes, TypeOK, Pieces
  <2>2. ASSUME UnitsRight, UNCHANGED allVars PROVE UnitsRight'
    <3>1. RemovesOnce' /\ UNCHANGED <<piece, sale, added, row, short>>
      BY <2>2 DEF allVars, vars, saleVars, UnitsRight, RemovesOnce
    <3>2. QED
      BY <2>2, <3>1, NoUnitMoves
  <2>3. ASSUME SaleTypes, UnitsRight, UNCHANGED books, NEW h \in Tills, Till(h) PROVE UnitsRight'
    BY <2>3, OtherTillUnits, InsertUnits, RemoveUnits DEF Till
  <2>4. QED
    BY <2>1, <2>2, <2>3, BooksUnits, DeviceUnits DEF SalesNext
<1>3. UnitsRight => UnitsAddUp
  BY DEF UnitsRight
<1>4. QED
  BY <1>1, <1>2, <1>3, AlwaysFresh, SalesTypes, PTL DEF SalesSpec

=============================================================================

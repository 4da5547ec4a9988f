----------------------------- MODULE ReportProofs -----------------------------
(***************************************************************************)
(* What a page of the report says of the results, for any runtimes, any    *)
(* results and wherever the writer fails: the marks of the tables, what    *)
(* they say of one measurement, the order of the sections, the medians,    *)
(* and the comparison with bento.                                          *)
(***************************************************************************)
EXTENDS Report, SlicesProofs

SectionNames ==
  {"wall", "memory", "compute", "startup", "size", "compile", "speedup wall", "speedup compute"}

Marked == {"wall", "compute", "memory"}

Rows == [cat : Categories, of : [Runtimes -> Measured]]

\* A column of medians, and a mark on one of the least, or none.
IsColumn(column, cats, field, who) ==
  \E w \in Winners(cats, field) \cup {"nobody"} : column = Column(cats, field, who, w)

\* A piece of the page that is named like a section is of the results.
Fits(piece) ==
  /\ piece.name \in Marked => piece = Table(piece.name)
  /\ piece.name = "compile" => piece = CompileSection
  /\ piece.name = "startup" =>
       /\ IsColumn(piece.columns.wall, AtStartup, "wall", Listed(AtStartup, "wall"))
       /\ IsColumn(piece.columns.memory, AtStartup, "memory", Listed(AtStartup, "wall"))
  /\ piece.name = "size" =>
       IsColumn(piece.columns.size, Categories, "size", Listed(Categories, "size"))
  /\ piece.name \in Comparisons => piece = SpeedupSection(piece.name)

PageInv ==
  /\ live \in Lists
  /\ results \in Seq(Rows) /\ Len(results) <= MaxRows
  /\ \E S : page \in Seq(S)
  /\ target = "none" => page = <<>>
  /\ \A i \in DOMAIN page : Fits(page[i])

\* What is to come of a page is the end of its sections.
OrderInv ==
  /\ target \in {"none", "text", "markdown"}
  /\ todo \in Seq(SectionNames)
  /\ target = "none" => todo = <<>>
  /\ target # "none" =>
       LET all == Sections(target)
       IN  /\ Len(todo) <= Len(all)
           /\ \A k \in DOMAIN todo : todo[k] = all[Len(all) - Len(todo) + k]

\* The sections of the page up to now, without those that are not due.
DueSoFar ==
  LET all == Sections(target)
  IN  Kept(all, Len(all) - Len(todo), {k \in DOMAIN all : Due(all[k])})

\* PageHasNoGap, of the sections as the code finds them due.
DueNoGap ==
  target # "none" =>
    /\ Len(page) <= Len(DueSoFar)
    /\ ~err => Len(page) = Len(DueSoFar)
    /\ \A i \in DOMAIN page :
         page[i].name = (IF err /\ i = Len(page) THEN "cut" ELSE DueSoFar[i])

LEMMA LiveNames ==
  ASSUME live \in Lists
  PROVE  DOMAIN live \subseteq Nat /\ "nobody" \notin Runtimes
<1>1. live \in Seq(Names)
  BY ReportAssumption
<1>2. Runtimes \subseteq Names
  BY <1>1 DEF Runtimes
<1>3. QED
  BY <1>1, <1>2, ReportAssumption

-----------------------------------------------------------------------------
(* The least of some numbers.                                              *)

LEMMA MinIsLeast ==
  ASSUME NEW S, S \subseteq Nat, S # {}
  PROVE  Min(S) \in S /\ \A y \in S : Min(S) <= y
BY LeastNumber DEF Min

-----------------------------------------------------------------------------
(* The winner of a row.                                                    *)

\* Where a number is shown one runtime has the mark, and none shows a lesser number.
LEMMA OneBest ==
  ASSUME live \in Lists, NEW row, NEW field,
         \A rt \in Runtimes : row.of[rt][field] \in Nat,
         Have(row, field) # {}
  PROVE  \E k \in Least(row, field) : \A rt : IsBest(row, field, rt) <=> rt = live[k]
<1>1. DOMAIN live \subseteq Nat
  BY LiveNames
<1>2. Have(row, field) \subseteq DOMAIN live
  BY DEF Have
<1> DEFINE V == {row.of[live[k]][field] : k \in Have(row, field)}
<1>3. V \subseteq Nat /\ V # {}
  BY <1>2 DEF Runtimes
<1>4. PICK v \in V : \A w \in V : v <= w
  BY <1>3, LeastNumber
<1>5. PICK k \in Have(row, field) : v = row.of[live[k]][field]
  BY <1>4
<1>6. k \in Least(row, field)
  BY <1>4, <1>5 DEF Least
<1>7. Least(row, field) \subseteq Nat
  BY <1>1, <1>2 DEF Least
<1>8. Min(Least(row, field)) \in Least(row, field)
  BY <1>6, <1>7, MinIsLeast
<1>9. QED
  BY <1>6, <1>8 DEF IsBest

LEMMA NobodyBest ==
  ASSUME NEW row, NEW field, Have(row, field) = {}
  PROVE  \A rt : ~IsBest(row, field, rt)
BY DEF Least, IsBest

\* A cell of the results is a measurement.
LEMMA CellNumbers ==
  ASSUME NEW row \in Rows, NEW rt \in Runtimes
  PROVE  /\ \A field \in Fields : row.of[rt][field] \in Nat
         /\ row.of[rt].failed => row.of[rt].size = 0
         /\ row.of[rt].size > 0 => row.of[rt].compile > 0
<1>1. row.of[rt] \in Measured
  BY DEF Rows
<1>2. PICK any \in Names : row.of[rt] \in Measurement(any)
  BY <1>1 DEF Measured
<1>3. Zeros.size = 0
  BY DEF Zeros
<1>4. QED
  BY <1>2, <1>3, ReportAssumption

\* What a row of a table shows.
FairMarks(cells) ==
  LET numbers == {rt \in Runtimes : cells[rt].shows > 0}
      marked  == {rt \in Runtimes : cells[rt].mark}
  IN  /\ Cardinality(marked) = IF numbers = {} THEN 0 ELSE 1
      /\ marked \subseteq numbers
      /\ \A w \in marked, rt \in numbers : cells[w].shows <= cells[rt].shows

LEMMA RowMarks ==
  ASSUME live \in Lists, NEW row \in Rows, NEW field \in Fields
  PROVE  FairMarks([rt \in Runtimes |-> Cell(row, field, rt)])
<1> DEFINE cells   == [rt \in Runtimes |-> Cell(row, field, rt)]
           numbers == {rt \in Runtimes : cells[rt].shows > 0}
           marked  == {rt \in Runtimes : cells[rt].mark}
<1> SUFFICES /\ Cardinality(marked) = IF numbers = {} THEN 0 ELSE 1
             /\ marked \subseteq numbers
             /\ \A w \in marked, rt \in numbers : cells[w].shows <= cells[rt].shows
  BY DEF FairMarks
<1>1. \A rt \in Runtimes : row.of[rt][field] \in Nat
  BY CellNumbers
<1>2. \A rt \in Runtimes :
        /\ cells[rt].shows = IF row.of[rt].failed THEN Fail ELSE row.of[rt][field]
        /\ cells[rt].mark = IsBest(row, field, rt)
  BY DEF Cell
<1>3. \A rt \in Runtimes : rt \in numbers <=> Shown(row.of[rt], field)
  BY <1>1, <1>2 DEF Shown, Fail
<1>4. \A rt \in Runtimes : rt \in numbers <=> \E k \in Have(row, field) : rt = live[k]
  BY <1>3 DEF Runtimes, Have
<1>5. \A k \in Have(row, field) : live[k] \in Runtimes
  BY DEF Have, Runtimes
<1>6. CASE Have(row, field) = {}
  <2>1. numbers = {}
    BY <1>4, <1>6
  <2>2. marked = {}
    BY <1>2, <1>6, NobodyBest
  <2>3. QED
    BY <2>1, <2>2, FS_EmptySet
<1>7. CASE Have(row, field) # {}
  <2>1. PICK k \in Least(row, field) : \A rt : IsBest(row, field, rt) <=> rt = live[k]
    BY <1>1, <1>7, OneBest
  <2>2. k \in Have(row, field)
    BY DEF Least
  <2>3. live[k] \in Runtimes /\ live[k] \in numbers
    BY <1>4, <1>5, <2>2
  <2>4. marked = {live[k]}
    BY <1>2, <2>1, <2>3
  <2>5. Cardinality(marked) = 1
    BY <2>4, FS_Singleton
  <2>6. ASSUME NEW rt \in numbers PROVE cells[live[k]].shows <= cells[rt].shows
    <3>1. PICK j \in Have(row, field) : rt = live[j]
      BY <1>4
    <3>2. row.of[live[k]][field] <= row.of[live[j]][field]
      BY <3>1 DEF Least
    <3>3. ~row.of[live[k]].failed /\ ~row.of[live[j]].failed
      BY <2>2, <3>1 DEF Have, Shown
    <3>4. QED
      BY <1>2, <1>5, <2>3, <3>1, <3>2, <3>3
  <2>7. QED
    BY <2>3, <2>4, <2>5, <2>6
<1>8. QED
  BY <1>6, <1>7

-----------------------------------------------------------------------------
(* The page.                                                               *)

LEMMA PageMarks == PageInv => MarksAreEarned
<1> SUFFICES ASSUME PageInv,
                    NEW i \in DOMAIN page, page[i].name \in {"wall", "compute", "memory"},
                    NEW r \in DOMAIN results
             PROVE  FairMarks(page[i].cells[r])
  BY DEF MarksAreEarned, FairMarks
<1> DEFINE field == page[i].name
<1>1. field \in Fields /\ page[i] = Table(field)
  BY DEF Fields, PageInv, Marked, Fits
<1>2. results[r] \in Rows /\ live \in Lists
  BY DEF PageInv
<1>3. page[i].cells[r] = [rt \in Runtimes |-> Cell(results[r], field, rt)]
  <2>1. Table(field).cells = [j \in DOMAIN results |-> [rt \in Runtimes |-> Cell(results[j], field, rt)]]
    BY DEF Table
  <2>2. QED
    BY <1>1, <2>1
<1>4. FairMarks(page[i].cells[r])
  BY <1>1, <1>2, <1>3, RowMarks
<1>5. QED
  BY <1>4

\* "fail" is shown for a failed measurement and for no other.
LEMMA FailShown ==
  ASSUME PageInv,
         NEW i \in DOMAIN page, page[i].name \in {"wall", "compute", "memory", "compile"},
         NEW r \in DOMAIN results, NEW rt \in DOMAIN page[i].cells[r]
  PROVE  page[i].cells[r][rt].shows = Fail <=> results[r].of[rt].failed
<1>1. results[r] \in Rows /\ Fits(page[i])
  BY DEF PageInv
<1>2. CASE page[i].name = "compile"
  <2>1. page[i] = CompileSection
    BY <1>1, <1>2 DEF Fits
  <2>2. /\ rt \in TwoPhase
        /\ page[i].cells[r][rt].shows = CompileText(results[r].of[rt])
    BY <2>1 DEF CompileSection
  <2>3. rt \in Runtimes
    BY <2>2 DEF TwoPhase
  <2>4. results[r].of[rt].compile \in Nat
    BY <1>1, <2>3, CellNumbers DEF Fields
  <2>5. QED
    BY <2>2, <2>4 DEF CompileText, Fail
<1>3. CASE page[i].name \in Marked
  <2>1. page[i] = Table(page[i].name) /\ page[i].name \in Fields
    BY <1>1, <1>3 DEF Fits, Marked, Fields
  <2> DEFINE field == page[i].name
  <2>2. page[i].cells[r] = [any \in Runtimes |-> Cell(results[r], field, any)]
    <3>1. Table(field).cells =
            [j \in DOMAIN results |-> [any \in Runtimes |-> Cell(results[j], field, any)]]
      BY DEF Table
    <3>2. QED
      BY <2>1, <3>1
  <2>3. rt \in Runtimes /\ page[i].cells[r][rt] = Cell(results[r], field, rt)
    BY <2>2
  <2>4. results[r].of[rt][field] \in Nat
    BY <1>1, <2>1, <2>3, CellNumbers
  <2>5. QED
    BY <2>3, <2>4 DEF Cell, Fail
<1>4. QED
  BY <1>2, <1>3 DEF Marked

LEMMA PageAgrees == PageInv => TablesAgree
<1> SUFFICES ASSUME PageInv, NEW i \in DOMAIN page, NEW j \in DOMAIN page
             PROVE
    /\ {page[i].name, page[j].name} \subseteq {"wall", "compute", "memory", "compile"} =>
         \A r \in DOMAIN results :
           \A rt \in DOMAIN page[i].cells[r] \cap DOMAIN page[j].cells[r] :
             page[i].cells[r][rt].shows = Fail <=> page[j].cells[r][rt].shows = Fail
    /\ page[i].name = "compile" /\ page[j].name = "size" =>
         \A rt \in DOMAIN page[j].columns.size : \E r \in DOMAIN results :
           rt \in DOMAIN page[i].cells[r] /\ page[i].cells[r][rt].shows > 0
  BY DEF TablesAgree
<1>1. ASSUME {page[i].name, page[j].name} \subseteq {"wall", "compute", "memory", "compile"},
             NEW r \in DOMAIN results,
             NEW rt \in DOMAIN page[i].cells[r] \cap DOMAIN page[j].cells[r]
      PROVE  page[i].cells[r][rt].shows = Fail <=> page[j].cells[r][rt].shows = Fail
  <2>1. page[i].name \in {"wall", "compute", "memory", "compile"}
    BY <1>1
  <2>2. page[j].name \in {"wall", "compute", "memory", "compile"}
    BY <1>1
  <2>3. page[i].cells[r][rt].shows = Fail <=> results[r].of[rt].failed
    BY <2>1, FailShown
  <2>4. page[j].cells[r][rt].shows = Fail <=> results[r].of[rt].failed
    BY <2>2, FailShown
  <2>5. QED
    BY <2>3, <2>4
<1>2. ASSUME page[i].name = "compile", page[j].name = "size",
             NEW rt \in DOMAIN page[j].columns.size
      PROVE  \E r \in DOMAIN results :
               rt \in DOMAIN page[i].cells[r] /\ page[i].cells[r][rt].shows > 0
  <2>1. page[i] = CompileSection /\ rt \in Listed(Categories, "size")
    BY <1>2 DEF PageInv, Fits, IsColumn, Column
  <2>2. PICK r \in DOMAIN results : Shown(results[r].of[rt], "size")
    BY <2>1 DEF Listed
  <2>3. rt \in Runtimes
    BY <2>1 DEF Listed
  <2>4. results[r] \in Rows
    BY DEF PageInv
  <2>5. ~results[r].of[rt].failed /\ results[r].of[rt].size > 0
    BY <2>2 DEF Shown
  <2>6. results[r].of[rt].compile > 0
    BY <2>3, <2>4, <2>5, CellNumbers
  <2>7. rt \in TwoPhase
    BY <2>3, <2>6 DEF TwoPhase
  <2>8. rt \in DOMAIN page[i].cells[r] /\ page[i].cells[r][rt].shows = CompileText(results[r].of[rt])
    BY <2>1, <2>7 DEF CompileSection
  <2>9. page[i].cells[r][rt].shows > 0
    BY <2>5, <2>6, <2>8 DEF CompileText
  <2>10. QED
    BY <2>8, <2>9
<1>3. QED
  BY <1>1, <1>2

\* The sections of a page, as lists.
LEMMA FiveOf ==
  ASSUME NEW S, NEW a \in S, NEW b \in S, NEW c \in S, NEW d \in S, NEW e \in S
  PROVE  <<a, b, c, d, e>> \in Seq(S)
OBVIOUS

LEMMA EightOf ==
  ASSUME NEW S, NEW a \in S, NEW b \in S, NEW c \in S, NEW d \in S, NEW e \in S,
         NEW f \in S, NEW g \in S, NEW h \in S
  PROVE  <<a, b, c, d, e, f, g, h>> \in Seq(S)
OBVIOUS

LEMMA SectionsType ==
  ASSUME NEW t
  PROVE  Sections(t) \in Seq(SectionNames)
<1>1. /\ "wall" \in SectionNames /\ "memory" \in SectionNames
      /\ "compute" \in SectionNames /\ "startup" \in SectionNames
      /\ "size" \in SectionNames /\ "compile" \in SectionNames
      /\ "speedup wall" \in SectionNames /\ "speedup compute" \in SectionNames
  BY DEF SectionNames
<1>2. <<"wall", "memory", "compute", "startup", "size">> \in Seq(SectionNames)
  BY <1>1, FiveOf
<1>3. <<"wall", "compute", "memory", "startup", "compile", "size",
        "speedup wall", "speedup compute">> \in Seq(SectionNames)
  BY <1>1, EightOf
<1>4. QED
  BY <1>2, <1>3 DEF Sections

\* Every section fits, and is named as it should be.
LEMMA SectionText ==
  ASSUME NEW s \in SectionNames, NEW text \in Texts(s)
  PROVE  text.name = s /\ Fits(text)
<1>a. \A f : Table(f).name = f
  BY DEF Table
<1>b. /\ "compile" \notin Marked /\ "startup" \notin Marked /\ "size" \notin Marked
      /\ Marked \cap Comparisons = {} /\ "compile" \notin Comparisons
      /\ "startup" \notin Comparisons /\ "size" \notin Comparisons
  BY DEF Marked, Comparisons
<1>c. \A w : Mark(w) \in {w, "nobody"}
  BY DEF Mark
<1>1. CASE s \in Marked
  <2>1. text = Table(s)
    <3>1. CASE s = "wall"
      BY <3>1 DEF Texts, Comparisons
    <3>2. CASE s = "memory"
      BY <3>2 DEF Texts, Comparisons, MemoryTable
    <3>3. CASE s = "compute"
      BY <3>3 DEF Texts, Comparisons, ComputeTable
    <3>4. QED
      BY <1>1, <3>1, <3>2, <3>3 DEF Marked
  <2>2. QED
    BY <1>1, <1>a, <1>b, <2>1 DEF Fits
<1>2. CASE s = "startup"
  <2>1. text \in StartupTexts
    BY <1>2 DEF Texts, Comparisons
  <2>2. PICK fast \in Winners(AtStartup, "wall"), lean \in Winners(AtStartup, "memory") :
          text = StartupSection(fast, lean)
    BY <2>1 DEF StartupTexts
  <2>3. /\ text.name = "startup"
        /\ text.columns.wall = Column(AtStartup, "wall", Listed(AtStartup, "wall"), Mark(fast))
        /\ text.columns.memory = Column(AtStartup, "memory", Listed(AtStartup, "wall"), Mark(lean))
    BY <2>2 DEF StartupSection
  <2>4. /\ IsColumn(text.columns.wall, AtStartup, "wall", Listed(AtStartup, "wall"))
        /\ IsColumn(text.columns.memory, AtStartup, "memory", Listed(AtStartup, "wall"))
    BY <1>c, <2>3 DEF IsColumn
  <2>5. QED
    BY <1>2, <1>b, <2>3, <2>4 DEF Fits
<1>3. CASE s = "compile"
  <2>1. text = CompileSection
    BY <1>3 DEF Texts, Comparisons
  <2>2. QED
    BY <1>3, <1>b, <2>1 DEF CompileSection, Fits
<1>4. CASE s = "size"
  <2>1. text \in SizeTexts
    BY <1>4 DEF Texts, Comparisons
  <2>2. PICK w \in Winners(Categories, "size") : text = SizeSection(w)
    BY <2>1 DEF SizeTexts
  <2>3. /\ text.name = "size"
        /\ text.columns.size = Column(Categories, "size", Listed(Categories, "size"), Mark(w))
    BY <2>2 DEF SizeSection
  <2>4. IsColumn(text.columns.size, Categories, "size", Listed(Categories, "size"))
    BY <1>c, <2>3 DEF IsColumn
  <2>5. QED
    BY <1>4, <1>b, <2>3, <2>4 DEF Fits
<1>5. CASE s \in Comparisons
  <2>1. text = SpeedupSection(s)
    <3>1. s \notin {"wall", "memory", "compute", "startup", "compile", "size"}
      BY <1>5 DEF Comparisons
    <3>2. QED
      BY <1>5, <3>1, Zenon DEF Texts
  <2>2. SpeedupSection(s).name = s
    BY DEF SpeedupSection
  <2>3. QED
    BY <1>5, <1>b, <2>1, <2>2 DEF Fits
<1>8. QED
  BY <1>1, <1>2, <1>3, <1>4, <1>5 DEF SectionNames, Marked, Comparisons

LEMMA Appended ==
  ASSUME NEW S, NEW s \in Seq(S), NEW e
  PROVE  /\ Append(s, e) \in Seq(S \cup {e})
         /\ \A i \in DOMAIN Append(s, e) :
              Append(s, e)[i] = e \/ (i \in DOMAIN s /\ Append(s, e)[i] = s[i])
<1>1. s \in Seq(S \cup {e}) /\ e \in S \cup {e}
  OBVIOUS
<1>2. QED
  BY <1>1

\* A page says the same as long as the results are the same.
LEMMA Stays ==
  ASSUME live' = live, results' = results
  PROVE  /\ \A field : Table(field)' = Table(field)
         /\ CompileSection' = CompileSection
         /\ \A cats, field : Listed(cats, field)' = Listed(cats, field)
         /\ \A cats, field, rt : Summary(cats, field, rt)' = Summary(cats, field, rt)
         /\ \A cats, field : Winners(cats, field)' = Winners(cats, field)
         /\ \A cats, field, who, w : Column(cats, field, who, w)' = Column(cats, field, who, w)
         /\ \A s : SpeedupSection(s)' = SpeedupSection(s)
         /\ \A s : Due(s)' = Due(s)
<1>a. Runtimes' = Runtimes
  BY DEF Runtimes
<1>1. \A f : Table(f)' = Table(f)
  BY <1>a DEF Table, Cell, IsBest, Least, Have, Shown
<1>2. CompileSection' = CompileSection
  BY <1>a DEF CompileSection, TwoPhase, CompileText
<1>3. \A cats, field : Listed(cats, field)' = Listed(cats, field)
  BY <1>a DEF Listed, Shown
<1>4. \A cats, field, rt : Summary(cats, field, rt)' = Summary(cats, field, rt)
  BY DEF Summary, Values, Readings, Shown
<1>5. \A cats, field : Winners(cats, field)' = Winners(cats, field)
  BY <1>3, <1>4 DEF Winners
<1>6. \A cats, field, who, w : Column(cats, field, who, w)' = Column(cats, field, who, w)
  BY <1>4 DEF Column
<1>7. \A s : SpeedupSection(s)' = SpeedupSection(s)
  BY <1>a DEF SpeedupSection, Compared, Counted, BentoSum, BestSum, BestOther, Others, Shown
<1>8. \A s : Due(s)' = Due(s)
  BY <1>a DEF Due, AnyHas, Have, Listed, TwoPhase, Compared, Counted, Others, Shown
<1>9. QED
  BY <1>1, <1>2, <1>3, <1>4, <1>5, <1>6, <1>7, <1>8

LEMMA FitsStays ==
  ASSUME live' = live, results' = results
  PROVE  \A piece : Fits(piece)' <=> Fits(piece)
BY Stays DEF Fits, IsColumn

\* A piece that fits may be printed.
LEMMA Printing ==
  ASSUME PageInv, NEW piece, Fits(piece),
         page' = Append(page, piece), target' = target, target # "none",
         live' = live, results' = results
  PROVE  PageInv'
<1>1. PICK S : page \in Seq(S)
  BY DEF PageInv
<1>2. page' \in Seq(S \cup {piece})
  BY <1>1, Appended
<1>3. \A i \in DOMAIN page' : page'[i] = piece \/ (i \in DOMAIN page /\ page'[i] = page[i])
  BY <1>1, Appended
<1>4. \A i \in DOMAIN page' : Fits(page'[i])
  BY <1>3 DEF PageInv
<1>5. \A any : Fits(any)' <=> Fits(any)
  BY FitsStays
<1>6. \A i \in DOMAIN page' : Fits(page[i])'
  BY <1>4, <1>5
<1>7. /\ live' \in Lists /\ results' \in Seq(Rows') /\ Len(results') <= MaxRows
      /\ \E T : page' \in Seq(T)
  BY <1>2 DEF PageInv, Rows, Runtimes
<1>8. QED
  BY <1>6, <1>7 DEF PageInv

LEMMA PageStep == PageInv /\ OrderInv /\ [Next]_vars => PageInv'
<1> SUFFICES ASSUME PageInv, OrderInv, [Next]_vars PROVE PageInv'
  OBVIOUS
<1>0. todo # <<>> => target # "none"
  BY DEF OrderInv
<1>1. CASE AddRow
  <2>1. PICK c \in Categories, of \in [Runtimes -> Measured] :
          results' = Append(results, [cat |-> c, of |-> of])
    BY <1>1 DEF AddRow
  <2>2. [cat |-> c, of |-> of] \in Rows
    BY DEF Rows
  <2>3. results' \in Seq(Rows) /\ Len(results') <= MaxRows
    BY <1>1, <2>1, <2>2, ReportAssumption DEF PageInv, AddRow
  <2>a. live' = live /\ Rows' = Rows
    BY <1>1 DEF AddRow, Rows, Runtimes
  <2>4. page' = <<>>
    BY <1>1 DEF AddRow, PageInv
  <2>5. <<>> \in Seq({}) /\ DOMAIN <<>> = {}
    OBVIOUS
  <2>6. QED
    BY <2>3, <2>4, <2>5, <2>a DEF PageInv
<1>2. CASE WriteReport \/ WriteMarkdown
  <2>1. page' = <<>> /\ live' = live /\ results' = results /\ Rows' = Rows
    BY <1>2 DEF WriteReport, WriteMarkdown, Begin, Rows, Runtimes
  <2>2. <<>> \in Seq({}) /\ DOMAIN <<>> = {}
    OBVIOUS
  <2>3. QED
    BY <2>1, <2>2 DEF PageInv
<1>3. CASE PrintSection
  <2>1. PICK text \in Texts(Next1) : page' = Append(page, text)
    BY <1>3 DEF PrintSection
  <2>2. todo # <<>> /\ live' = live /\ results' = results /\ target' = target
    BY <1>3 DEF PrintSection
  <2>3. Next1 \in SectionNames
    BY <2>2 DEF OrderInv, Next1
  <2>4. QED
    BY <1>0, <2>1, <2>2, <2>3, SectionText, Printing
<1>4. CASE WriteFails
  <2>1. /\ page' = Append(page, [name |-> "cut"]) /\ todo # <<>>
        /\ live' = live /\ results' = results /\ target' = target
    BY <1>4 DEF WriteFails
  <2>2. Fits([name |-> "cut"])
    BY DEF Fits, Marked, Comparisons
  <2>3. QED
    BY <1>0, <2>1, <2>2, Printing
<1>5. CASE SkipSection \/ UNCHANGED vars
  <2>1. /\ page' = page /\ live' = live /\ results' = results /\ target' = target
        /\ Rows' = Rows
    BY <1>5 DEF SkipSection, vars, Rows, Runtimes
  <2>2. \A any : Fits(any)' <=> Fits(any)
    BY <2>1, FitsStays
  <2>3. QED
    BY <2>1, <2>2 DEF PageInv
<1>6. QED
  BY <1>1, <1>2, <1>3, <1>4, <1>5 DEF Next

\* The next section of a page, and what is due with it.
LEMMA NextSection ==
  ASSUME OrderInv, todo # <<>>,
         live' = live, results' = results, target' = target, todo' = Tail(todo)
  PROVE  /\ OrderInv'
         /\ DueSoFar \in Seq(SectionNames)
         /\ DueSoFar' = IF Due(Next1) THEN Append(DueSoFar, Next1) ELSE DueSoFar
<1> DEFINE all  == Sections(target)
           n    == Len(all) - Len(todo)
           keep == {k \in DOMAIN all : Due(all[k])}
<1>1. target \in {"text", "markdown"} /\ all \in Seq(SectionNames)
  BY SectionsType DEF OrderInv
<1>2. /\ Len(todo) <= Len(all) /\ todo \in Seq(SectionNames) /\ Len(todo) > 0
      /\ \A k \in DOMAIN todo : todo[k] = all[n + k]
  BY <1>1 DEF OrderInv
<1>3. n \in Nat /\ n + 1 \in 1..Len(all) /\ all[n + 1] = Next1
  BY <1>1, <1>2 DEF Next1
<1>4. Len(todo') = Len(todo) - 1 /\ todo' \in Seq(SectionNames)
  BY <1>2
<1>5. all' = all
  BY DEF Sections
<1>6. OrderInv'
  <2>1. \A k \in DOMAIN todo' : todo'[k] = all[Len(all) - Len(todo') + k]
    <3> SUFFICES ASSUME NEW k \in DOMAIN todo' PROVE todo'[k] = all[Len(all) - Len(todo') + k]
      OBVIOUS
    <3>1. k \in Nat /\ k + 1 \in DOMAIN todo /\ todo'[k] = todo[k + 1]
      BY <1>2, <1>4
    <3>2. todo[k + 1] = all[n + (k + 1)]
      BY <1>2, <3>1
    <3>3. n + (k + 1) = Len(all) - Len(todo') + k
      BY <1>1, <1>2, <1>4, <3>1
    <3>4. QED
      BY <3>1, <3>2, <3>3
  <2>2. Len(todo') <= Len(all)
    BY <1>1, <1>2, <1>4
  <2> HIDE DEF all
  <2>3. target' \in {"text", "markdown"} /\ all' = all
    BY <1>1, <1>5
  <2>4. QED
    BY <1>4, <2>1, <2>2, <2>3 DEF OrderInv, all
<1>7. DueSoFar \in Seq(SectionNames)
  <2>1. \A k \in 1..n : all[k] \in SectionNames
    BY <1>1, <1>3
  <2> HIDE DEF all, n, keep
  <2>2. Kept(all, n, keep) \in Seq(SectionNames)
    BY <1>3, <2>1, KeptType
  <2>3. QED
    BY <2>2 DEF DueSoFar, all, n, keep
<1>8. DueSoFar' = Kept(all, n + 1, keep)
  <2>1. \A s : Due(s)' = Due(s)
    BY Stays
  <2>2. keep' = keep
    BY <1>5, <2>1
  <2>3. Len(all') - Len(todo') = n + 1
    BY <1>1, <1>2, <1>4, <1>5
  <2>4. DueSoFar' = Kept(all', Len(all') - Len(todo'), keep')
    BY DEF DueSoFar
  <2>5. QED
    BY <1>5, <2>2, <2>3, <2>4
<1>9. Kept(all, n + 1, keep) =
        IF n + 1 \in keep THEN Append(Kept(all, n, keep), all[n + 1]) ELSE Kept(all, n, keep)
  <2> HIDE DEF all, n, keep
  <2>1. n \in Nat
    BY <1>3
  <2>2. QED
    BY <2>1, NextKept
<1>10. n + 1 \in keep <=> Due(Next1)
  BY <1>1, <1>3
<1>11. DueSoFar = Kept(all, n, keep)
  BY DEF DueSoFar
<1> HIDE DEF all, n, keep
<1>12. QED
  BY <1>3, <1>6, <1>7, <1>8, <1>9, <1>10, <1>11

LEMMA OrderStep == PageInv /\ OrderInv /\ DueNoGap /\ [Next]_vars
                     => OrderInv' /\ DueNoGap'
<1> SUFFICES ASSUME PageInv, OrderInv, DueNoGap, [Next]_vars
             PROVE  OrderInv' /\ DueNoGap'
  OBVIOUS
<1>1. CASE AddRow
  BY <1>1 DEF AddRow, OrderInv, DueNoGap
<1>2. CASE WriteReport \/ WriteMarkdown
  <2>1. PICK t \in {"text", "markdown"} : Begin(t)
    BY <1>2 DEF WriteReport, WriteMarkdown
  <2>2. page' = <<>> /\ todo' = Sections(t) /\ target' = t /\ ~err'
    BY <2>1 DEF Begin
  <2>3. Sections(t) \in Seq(SectionNames) /\ Len(Sections(t)) \in Nat
    BY SectionsType
  <2>4. OrderInv'
    BY <2>2, <2>3 DEF OrderInv
  <2>5. DueSoFar' = <<>>
    <3>1. Len(Sections(target')) - Len(todo') = 0
      BY <2>2, <2>3
    <3>2. QED
      BY <3>1, KeptStep DEF DueSoFar
  <2>6. Len(<<>>) = 0 /\ DOMAIN <<>> = {}
    OBVIOUS
  <2>7. QED
    BY <2>2, <2>4, <2>5, <2>6 DEF DueNoGap
<1>3. CASE PrintSection \/ WriteFails \/ SkipSection
  <2> DEFINE due == DueSoFar
  <2>1. /\ todo # <<>> /\ todo' = Tail(todo)
        /\ live' = live /\ results' = results /\ target' = target
    BY <1>3 DEF PrintSection, WriteFails, SkipSection
  <2>2. /\ OrderInv' /\ due \in Seq(SectionNames)
        /\ due' = IF Due(Next1) THEN Append(due, Next1) ELSE due
    BY <2>1, NextSection
  <2>3. target # "none" /\ Next1 \in SectionNames
    BY <2>1 DEF OrderInv, Next1
  <2>4. /\ Len(page) <= Len(due) /\ (~err => Len(page) = Len(due))
        /\ \A i \in DOMAIN page :
             page[i].name = (IF err /\ i = Len(page) THEN "cut" ELSE due[i])
    BY <2>3 DEF DueNoGap
  <2>5. PICK S : page \in Seq(S)
    BY DEF PageInv
  <2>6. SUFFICES
          /\ Len(page') <= Len(due') /\ (~err' => Len(page') = Len(due'))
          /\ \A i \in DOMAIN page' :
               page'[i].name = (IF err' /\ i = Len(page') THEN "cut" ELSE due'[i])
    BY <2>2 DEF DueNoGap
  <2> HIDE DEF due
  <2>7. CASE PrintSection
    <3>1. PICK text \in Texts(Next1) : page' = Append(page, text)
      BY <2>7 DEF PrintSection
    <3>2. ~err /\ ~err' /\ Due(Next1)
      BY <2>7 DEF PrintSection
    <3>3. text.name = Next1
      BY <2>3, <3>1, SectionText
    <3>4. due' = Append(due, Next1)
      BY <2>2, <3>2
    <3>5. QED
      BY <2>2, <2>3, <2>4, <2>5, <3>1, <3>2, <3>3, <3>4
  <2>8. CASE WriteFails
    <3>1. page' = Append(page, [name |-> "cut"]) /\ ~err /\ err' /\ Due(Next1)
      BY <2>8 DEF WriteFails
    <3>2. due' = Append(due, Next1)
      BY <2>2, <3>1
    <3>3. QED
      BY <2>2, <2>3, <2>4, <2>5, <3>1, <3>2
  <2>9. CASE SkipSection
    <3>1. page' = page /\ err' = err /\ (err \/ ~Due(Next1))
      BY <2>9 DEF SkipSection
    <3>2. QED
      BY <2>2, <2>3, <2>4, <2>5, <3>1
  <2>10. QED
    BY <1>3, <2>7, <2>8, <2>9
<1>4. CASE UNCHANGED vars
  <2>1. \A s : Due(s)' = Due(s)
    BY <1>4, Stays DEF vars
  <2>2. QED
    BY <1>4, <2>1 DEF vars, OrderInv, DueNoGap, DueSoFar, Sections
<1>5. QED
  BY <1>1, <1>2, <1>3, <1>4 DEF Next

LEMMA PageInductive == Spec => [](PageInv /\ OrderInv /\ DueNoGap)
<1>1. Init => PageInv /\ OrderInv /\ DueNoGap
  <2>1. <<>> \in Seq({}) /\ DOMAIN <<>> = {} /\ <<>> \in Seq(SectionNames)
        /\ <<>> \in Seq(Rows) /\ Len(<<>>) = 0
    OBVIOUS
  <2>2. QED
    BY <2>1, ReportAssumption DEF Init, PageInv, OrderInv, DueNoGap
<1>2. QED
  BY <1>1, PageStep, OrderStep, PTL DEF Spec

-----------------------------------------------------------------------------
(* The medians.                                                            *)

\* A number is shown exactly where there is one.
LEMMA ShownIffPositive ==
  ASSUME PageInv, NEW rt \in Runtimes, NEW field \in Fields, NEW i \in DOMAIN results
  PROVE  /\ results[i].of[rt][field] \in Nat \cap Numbers
         /\ Shown(results[i].of[rt], field) <=> results[i].of[rt][field] > 0
<1>1. results[i] \in Rows
  BY DEF PageInv
<1>2. results[i].of[rt] \in Measured
  BY <1>1 DEF Rows
<1>3. PICK any \in Names : results[i].of[rt] \in Measurement(any)
  BY <1>2 DEF Measured
<1>4. results[i].of[rt].failed => results[i].of[rt][field] = 0
  <2>1. Zeros[field] = 0
    BY DEF Zeros, Fields
  <2>2. QED
    BY <1>3, <2>1, ReportAssumption
<1>5. results[i].of[rt][field] \in Nat
  BY <1>3, ReportAssumption
<1>6. results[i].of[rt][field] \in Numbers
  BY <1>2 DEF Numbers
<1>7. QED
  BY <1>4, <1>5, <1>6 DEF Shown

LEMMA NumbersAreNat == Numbers \subseteq Nat
<1> SUFFICES ASSUME NEW n \in Numbers PROVE n \in Nat
  OBVIOUS
<1>1. PICK m \in Measured, field \in Fields : n = m[field]
  BY DEF Numbers
<1>2. PICK rt \in Names : m \in Measurement(rt)
  BY <1>1 DEF Measured
<1>3. QED
  BY <1>1, <1>2, ReportAssumption

\* t lists the numbers of these rows.
ListsRows(t, rows, field, rt) ==
  /\ t \in Seq(Numbers) /\ Len(t) \in 0..MaxRows
  /\ Len(t) = Cardinality(rows)
  /\ \A D : Cardinality(Hits(t, D))
              = Cardinality({r \in rows : results[r].of[rt][field] \in D})

\* The summary's numbers are those of the rows that show one.
LEMMA ValuesOfRows ==
  ASSUME PageInv, NEW cats, NEW rt \in Runtimes, NEW field \in Fields
  PROVE  ListsRows(Values(cats, field, rt), With(rt, field, cats), field, rt)
<1> DEFINE s    == Readings(field, rt)
           n    == Len(results)
           keep == {i \in DOMAIN results : results[i].cat \in cats /\ Shown(results[i].of[rt], field)}
           t    == Values(cats, field, rt)
           all  == With(rt, field, cats)
<1>1. n \in 0..MaxRows /\ DOMAIN results = 1..n
  BY ReportAssumption DEF PageInv
<1>2. keep = all
  BY ShownIffPositive DEF With
<1>3. \A k \in 1..n : s[k] = results[k].of[rt][field] /\ s[k] \in Numbers
  BY <1>1, ShownIffPositive DEF Readings
<1>4. t = Kept(s, n, keep)
  BY DEF Values
<1>5. all \subseteq 1..n
  BY <1>1 DEF With
<1> HIDE DEF s, n, keep, t, all
<1>6. t \in Seq(Numbers)
  <2>1. n \in Nat
    BY <1>1
  <2>2. QED
    BY <1>3, <1>4, <2>1, KeptType
<1>7. ASSUME NEW D
      PROVE  Cardinality(Hits(t, D)) = Cardinality({r \in all : results[r].of[rt][field] \in D})
  <2>1. KeptHits(s, n, keep, D) = {r \in all : results[r].of[rt][field] \in D}
    BY <1>2, <1>3, <1>5 DEF KeptHits
  <2>2. n \in Nat
    BY <1>1
  <2>3. Cardinality(Hits(Kept(s, n, keep), D)) = Cardinality(KeptHits(s, n, keep, D))
    BY <2>2, KeptCount
  <2>4. QED
    BY <1>4, <2>1, <2>3
<1>8. Len(t) = Cardinality(all)
  <2>1. Hits(t, Numbers) = 1..Len(t)
    BY <1>6 DEF Hits
  <2>2. {r \in all : results[r].of[rt][field] \in Numbers} = all
    BY <1>3, <1>5
  <2>3. Cardinality(1..Len(t)) = Len(t)
    BY <1>6, FirstN
  <2>4. QED
    BY <1>7, <2>1, <2>2, <2>3
<1>9. Len(t) \in 0..MaxRows
  <2>1. IsFiniteSet(1..n) /\ Cardinality(1..n) = n
    BY <1>1, FirstN
  <2>2. Cardinality(all) <= Cardinality(1..n)
    BY <1>5, <2>1, FS_Subset
  <2>3. Len(t) \in Nat /\ MaxRows \in Nat
    BY <1>6, ReportAssumption
  <2>4. QED
    BY <1>1, <1>8, <2>1, <2>2, <2>3
<1>10. QED
  <2>1. ListsRows(t, all, field, rt)
    BY <1>6, <1>7, <1>8, <1>9 DEF ListsRows
  <2>2. QED
    BY <2>1 DEF t, all

LEMMA MedianOfRows ==
  ASSUME PageInv, NEW cats, NEW rt \in Runtimes, NEW field \in Fields
  PROVE  LET v     == Summary(cats, field, rt)
             all   == With(rt, field, cats)
             upTo  == {r \in all : results[r].of[rt][field] <= v}
             under == {r \in all : results[r].of[rt][field] < v}
         IN  /\ v \in Nat
             /\ v > 0 <=> all # {}
             /\ v > 0 => /\ 2 * Cardinality(upTo) >= Cardinality(all)
                         /\ 2 * Cardinality(under) < Cardinality(all)
<1> DEFINE t     == Values(cats, field, rt)
           u     == Sort(t)
           v     == Summary(cats, field, rt)
           all   == With(rt, field, cats)
           upTo  == {r \in all : results[r].of[rt][field] <= v}
           under == {r \in all : results[r].of[rt][field] < v}
<1>a. ListsRows(t, all, field, rt)
  BY ValuesOfRows
<1>1. /\ t \in Seq(Numbers) /\ Len(t) \in 0..MaxRows
      /\ Len(t) = Cardinality(all)
  BY <1>a DEF ListsRows
<1>b. \A i \in DOMAIN t : t[i] \in Nat
  <2>1. \A i \in DOMAIN t : t[i] \in Numbers
    BY <1>1
  <2>2. QED
    BY <2>1, NumbersAreNat
<1>2. IsSorting(t, u, Numbers)
  <2> HIDE DEF t
  <2>1. t \in [1..Len(t) -> Numbers]
    BY <1>1
  <2>2. QED
    BY <1>1, <2>1, ReportAssumption
<1>3. u \in [1..Len(t) -> Numbers] /\ \A i, j \in 1..Len(t) : i <= j => u[i] <= u[j]
  <2> HIDE DEF t, u
  <2>1. DOMAIN t = 1..Len(t)
    BY <1>1
  <2>2. QED
    BY <1>2, <2>1 DEF IsSorting
<1>4. v = Percentile(u, Half)
  BY DEF Summary
<1>5. IsFiniteSet(all)
  <2>1. all \subseteq 1..Len(results) /\ Len(results) \in Nat
    BY DEF With, PageInv
  <2>2. QED
    BY <2>1, FirstN, FS_Subset
<1>6. \A r \in all : results[r].of[rt][field] \in Nat /\ results[r].of[rt][field] > 0
  BY ShownIffPositive DEF With
<1> HIDE DEF t, u, v, all
<1>7. CASE Len(t) = 0
  <2>1. all = {}
    BY <1>1, <1>5, <1>7, FS_EmptySet
  <2>2. u = <<>>
    BY <1>3, <1>7
  <2>3. v = 0
    BY <1>4, <2>2 DEF Percentile
  <2>4. QED
    BY <2>1, <2>3 DEF v, all
<1>8. CASE Len(t) # 0
  <2>1. all # {}
    BY <1>1, <1>5, <1>8, FS_EmptySet
  <2>2. Len(t) \in Nat \ {0} /\ u \in [1..Len(t) -> Nat]
    <3>1. \A i \in 1..Len(t) : u[i] \in Numbers
      BY <1>3
    <3>2. \A i \in 1..Len(t) : u[i] \in Nat
      BY <3>1, NumbersAreNat
    <3>3. QED
      BY <1>1, <1>3, <1>8, <3>2
  <2>3. Half \in Quantiles /\ Half.num = 1 /\ Half.den = 2
    BY DEF Half, Quantiles
  <2>4. u # <<>> /\ Len(u) = Len(t)
    BY <1>1, <1>3, <1>8
  <2>5. Rank(Half, Len(t)) \in 0..(Len(t) - 1)
    BY <2>2, <2>3, RankExact
  <2>6. v = u[Rank(Half, Len(t)) + 1] /\ v \in Numbers /\ v \in Nat
    <3>1. v = u[Rank(Half, Len(t)) + 1]
      BY <1>4, <2>4 DEF Percentile
    <3>2. PICK k \in 1..Len(t) : k = Rank(Half, Len(t)) + 1
      BY <2>2, <2>5
    <3>3. u[k] \in Numbers
      BY <1>3
    <3>4. QED
      BY <3>1, <3>2, <3>3, NumbersAreNat
  <2>7. /\ 2 * Cardinality(AtMost(u, v)) >= 1 * Len(t)
        /\ 2 * Cardinality(Under(u, v)) < 1 * Len(t)
    <3>1. LET p == u[Rank(Half, Len(t)) + 1]
          IN  /\ Half.den * Cardinality(AtMost(u, p)) >= Half.num * Len(t)
              /\ Half.den * Cardinality(Under(u, p)) < Half.num * Len(t)
      BY <1>3, <2>2, <2>3, PercentileOfSorted
    <3>2. QED
      BY <2>3, <2>6, <3>1
  <2>8. /\ Cardinality(AtMost(u, v)) = Cardinality(AtMost(t, v))
        /\ Cardinality(Under(u, v)) = Cardinality(Under(t, v))
    BY <1>2, <2>6 DEF IsSorting
  <2>9. Cardinality(AtMost(t, v)) = Cardinality(upTo)
    <3> DEFINE D == {x \in Nat : x <= v}
    <3>1. \A i \in DOMAIN t : t[i] \in Nat
      BY <1>b
    <3>2. /\ \A i \in DOMAIN t : t[i] <= v <=> t[i] \in D
          /\ \A r \in all : results[r].of[rt][field] <= v <=> results[r].of[rt][field] \in D
      BY <1>6, <3>1
    <3> HIDE DEF D
    <3>3. /\ AtMost(t, v) = Hits(t, D)
          /\ upTo = {r \in all : results[r].of[rt][field] \in D}
      BY <3>2 DEF AtMost, Hits
    <3>4. Cardinality(Hits(t, D)) = Cardinality({r \in all : results[r].of[rt][field] \in D})
      BY <1>a, Zenon DEF ListsRows
    <3>5. QED
      BY <3>3, <3>4
  <2>10. Cardinality(Under(t, v)) = Cardinality(under)
    <3> DEFINE D == {x \in Nat : x < v}
    <3>1. \A i \in DOMAIN t : t[i] \in Nat
      BY <1>b
    <3>2. /\ \A i \in DOMAIN t : t[i] < v <=> t[i] \in D
          /\ \A r \in all : results[r].of[rt][field] < v <=> results[r].of[rt][field] \in D
      BY <1>6, <3>1
    <3> HIDE DEF D
    <3>3. /\ Under(t, v) = Hits(t, D)
          /\ under = {r \in all : results[r].of[rt][field] \in D}
      BY <3>2 DEF Under, Hits
    <3>4. Cardinality(Hits(t, D)) = Cardinality({r \in all : results[r].of[rt][field] \in D})
      BY <1>a, Zenon DEF ListsRows
    <3>5. QED
      BY <3>3, <3>4
  <2>11. v > 0
    <3>1. upTo # {}
      <4>1. Cardinality(upTo) # 0
        BY <1>1, <1>8, <2>7, <2>8, <2>9
      <4>2. QED
        BY <4>1, FS_EmptySet
    <3>2. QED
      BY <1>6, <2>6, <3>1
  <2>12. /\ 2 * Cardinality(upTo) >= Cardinality(all)
         /\ 2 * Cardinality(under) < Cardinality(all)
    BY <1>1, <2>7, <2>8, <2>9, <2>10
  <2>13. QED
    BY <2>1, <2>6, <2>11, <2>12 DEF v, all
<1>9. QED
  BY <1>7, <1>8

LEMMA ListedHere ==
  ASSUME PageInv, NEW cats, NEW field \in Fields
  PROVE  Listed(cats, field) = {rt \in Runtimes : With(rt, field, cats) # {}}
<1>1. ASSUME NEW rt \in Runtimes
      PROVE  (\E i \in DOMAIN results : results[i].cat \in cats /\ Shown(results[i].of[rt], field))
               <=> With(rt, field, cats) # {}
  BY ShownIffPositive DEF With
<1>2. QED
  BY <1>1 DEF Listed

\* A line of a column is the median of the rows it covers; the mark is on one of
\* the least medians, and not on a zero.
LEMMA ColumnCovers ==
  ASSUME PageInv, NEW cats, NEW field \in Fields, NEW who, who \subseteq Runtimes,
         NEW rt \in who,
         NEW column, IsColumn(column, cats, field, who)
  PROVE  Covers(column, rt, field, cats)
<1>1. PICK w \in Winners(cats, field) \cup {"nobody"} : column = Column(cats, field, who, w)
  BY DEF IsColumn
<1>2. column[rt].shows = Summary(cats, field, rt) /\ column[rt].mark = (rt = w)
  BY <1>1 DEF Column
<1>3. ASSUME column[rt].mark
      PROVE  /\ With(rt, field, cats) # {}
             /\ \A any \in Listed(cats, field) :
                  Summary(cats, field, rt) <= Summary(cats, field, any)
  <2>1. rt = w
    BY <1>2, <1>3
  <2>2. rt # "nobody"
    BY LiveNames DEF PageInv
  <2>3. /\ rt \in Listed(cats, field)
        /\ \A any \in Listed(cats, field) :
             Summary(cats, field, rt) <= Summary(cats, field, any)
    BY <2>1, <2>2 DEF Winners
  <2>4. QED
    BY <2>3, ListedHere
<1>a. ASSUME NEW any \in DOMAIN column, column[any].shows > 0
      PROVE  any \in Listed(cats, field) /\ column[any].shows = Summary(cats, field, any)
  <2>1. any \in Runtimes /\ column[any].shows = Summary(cats, field, any)
    BY <1>1 DEF Column
  <2>2. With(any, field, cats) # {}
    BY <1>a, <2>1, MedianOfRows
  <2>3. QED
    BY <2>1, <2>2, ListedHere
<1> DEFINE n     == Summary(cats, field, rt)
           all   == With(rt, field, cats)
           upTo  == {r \in all : results[r].of[rt][field] <= n}
           under == {r \in all : results[r].of[rt][field] < n}
<1>4. /\ n > 0 <=> all # {}
      /\ n > 0 => /\ 2 * Cardinality(upTo) >= Cardinality(all)
                  /\ 2 * Cardinality(under) < Cardinality(all)
  BY MedianOfRows
<1>5. column[rt].shows = n
  BY <1>2
<1>6. column[rt].mark =>
        all # {} /\ \A any \in DOMAIN column : column[any].shows > 0 => n <= column[any].shows
  BY <1>3, <1>a
<1> HIDE DEF n, all
<1>7. QED
  BY <1>4, <1>5, <1>6 DEF Covers, all

LEMMA PageMedians == PageInv => SummariesAreMedians
<1> SUFFICES ASSUME PageInv, NEW i \in DOMAIN page
             PROVE
    /\ page[i].name = "startup" =>
         /\ DOMAIN page[i].columns.wall =
              {rt \in Runtimes : With(rt, "wall", AtStartup) # {}}
         /\ \A field \in {"wall", "memory"}, rt \in DOMAIN page[i].columns.wall :
              Covers(page[i].columns[field], rt, field, AtStartup)
    /\ page[i].name = "size" =>
         /\ DOMAIN page[i].columns.size =
              {rt \in Runtimes : With(rt, "size", Categories) # {}}
         /\ \A rt \in DOMAIN page[i].columns.size :
              Covers(page[i].columns.size, rt, "size", Categories)
  BY DEF SummariesAreMedians
<1>1. Fits(page[i])
  BY DEF PageInv
<1>2. "wall" \in Fields /\ "memory" \in Fields /\ "size" \in Fields
  BY DEF Fields
<1>3. \A column, cats, field, who : IsColumn(column, cats, field, who) => DOMAIN column = who
  BY DEF IsColumn, Column
<1>4. \A cats, field : Listed(cats, field) \subseteq Runtimes
  BY DEF Listed
<1>5. ASSUME page[i].name = "startup"
      PROVE  /\ DOMAIN page[i].columns.wall = {rt \in Runtimes : With(rt, "wall", AtStartup) # {}}
             /\ \A field \in {"wall", "memory"}, rt \in DOMAIN page[i].columns.wall :
                  Covers(page[i].columns[field], rt, field, AtStartup)
  <2> DEFINE who == Listed(AtStartup, "wall")
  <2>1. /\ IsColumn(page[i].columns.wall, AtStartup, "wall", who)
        /\ IsColumn(page[i].columns.memory, AtStartup, "memory", who)
    BY <1>1, <1>5 DEF Fits
  <2>2. DOMAIN page[i].columns.wall = who /\ who \subseteq Runtimes
    BY <1>3, <1>4, <2>1
  <2>3. who = {rt \in Runtimes : With(rt, "wall", AtStartup) # {}}
    BY <1>2, ListedHere
  <2> HIDE DEF who
  <2>4. ASSUME NEW rt \in who
        PROVE  /\ Covers(page[i].columns.wall, rt, "wall", AtStartup)
               /\ Covers(page[i].columns.memory, rt, "memory", AtStartup)
    BY <1>2, <2>1, <2>2, ColumnCovers
  <2>5. QED
    BY <2>2, <2>3, <2>4
<1>6. ASSUME page[i].name = "size"
      PROVE  /\ DOMAIN page[i].columns.size = {rt \in Runtimes : With(rt, "size", Categories) # {}}
             /\ \A rt \in DOMAIN page[i].columns.size :
                  Covers(page[i].columns.size, rt, "size", Categories)
  <2> DEFINE who == Listed(Categories, "size")
  <2>1. IsColumn(page[i].columns.size, Categories, "size", who)
    BY <1>1, <1>6 DEF Fits
  <2>2. DOMAIN page[i].columns.size = who /\ who \subseteq Runtimes
    BY <1>3, <1>4, <2>1
  <2>3. who = {rt \in Runtimes : With(rt, "size", Categories) # {}}
    BY <1>2, ListedHere
  <2> HIDE DEF who
  <2>4. ASSUME NEW rt \in who PROVE Covers(page[i].columns.size, rt, "size", Categories)
    BY <1>2, <2>1, <2>2, ColumnCovers
  <2>5. QED
    BY <2>2, <2>3, <2>4
<1>7. QED
  BY <1>5, <1>6

-----------------------------------------------------------------------------
(* The sections the results call for are the ones the code finds due.      *)

LEMMA ComputeCalled == PageInv => (AnyHas("compute") <=> Has("compute", Categories))
<1> SUFFICES ASSUME PageInv PROVE AnyHas("compute") <=> Has("compute", Categories)
  OBVIOUS
<1>1. \A i \in DOMAIN results : results[i].cat \in Categories
  <2>1. \A i \in DOMAIN results : results[i] \in Rows
    BY DEF PageInv
  <2>2. QED
    BY <2>1 DEF Rows
<1>2. AnyHas("compute")
        <=> \E i \in DOMAIN results : \E rt \in Runtimes : Shown(results[i].of[rt], "compute")
  BY DEF AnyHas, Have, Runtimes
<1>3. \A i \in DOMAIN results, rt \in Runtimes :
        Shown(results[i].of[rt], "compute") <=> results[i].of[rt]["compute"] > 0
  BY ShownIffPositive DEF Fields
<1>4. QED
  BY <1>1, <1>2, <1>3 DEF Has, With

LEMMA CompileCalled == PageInv => (TwoPhase # {} <=> Has("compile", Categories))
<1> SUFFICES ASSUME PageInv PROVE TwoPhase # {} <=> Has("compile", Categories)
  OBVIOUS
<1>1. \A i \in DOMAIN results : results[i].cat \in Categories
  <2>1. \A i \in DOMAIN results : results[i] \in Rows
    BY DEF PageInv
  <2>2. QED
    BY <2>1 DEF Rows
<1>2. \A i, rt : results[i].of[rt].compile = results[i].of[rt]["compile"]
  OBVIOUS
<1>3. QED
  BY <1>1, <1>2 DEF TwoPhase, Has, With

LEMMA ListedCalled ==
  ASSUME PageInv, NEW cats, NEW field \in Fields
  PROVE  Listed(cats, field) # {} <=> Has(field, cats)
BY ListedHere DEF Has

\* A row that counts is one where bento and another have a number.
LEMMA ComparedCalled ==
  ASSUME PageInv, Bento \in Runtimes, NEW field \in Fields
  PROVE  Compared(field) # {}
           <=> \E rt \in Runtimes \ {Bento} :
                 With(Bento, field, Categories) \cap With(rt, field, Categories) # {}
<1>1. \A i \in DOMAIN results : results[i].cat \in Categories /\ DOMAIN results[i].of = Runtimes
  <2>1. \A i \in DOMAIN results : results[i] \in Rows
    BY DEF PageInv
  <2>2. QED
    BY <2>1 DEF Rows
<1>2. \A i \in DOMAIN results, rt \in Runtimes :
        Shown(results[i].of[rt], field) <=> results[i].of[rt][field] > 0
  BY ShownIffPositive
<1>3. Compared(field) # {}
        <=> \E i \in DOMAIN results :
              Shown(results[i].of[Bento], field) /\ Others(results[i], field) # {}
  BY <1>1 DEF Compared, Counted
<1>4. \A i \in DOMAIN results :
        /\ Shown(results[i].of[Bento], field) <=> i \in With(Bento, field, Categories)
        /\ Others(results[i], field) # {}
             <=> \E rt \in Runtimes \ {Bento} : i \in With(rt, field, Categories)
  BY <1>1, <1>2 DEF With, Others
<1>5. With(Bento, field, Categories) \subseteq DOMAIN results
  BY DEF With
<1>6. QED
  BY <1>3, <1>4, <1>5

LEMMA DueIsCalledFor == PageInv => \A s \in SectionNames : Due(s) <=> CalledFor(s)
<1> SUFFICES ASSUME PageInv, NEW s \in SectionNames PROVE Due(s) <=> CalledFor(s)
  OBVIOUS
<1>1. \A c \in Comparisons :
        c \notin {"wall", "memory", "compute", "startup", "compile", "size"}
  BY DEF Comparisons
<1>2. CASE s \in {"wall", "memory"}
  BY <1>2 DEF Due, CalledFor
<1>3. CASE s = "compute"
  <2>1. Due(s) <=> AnyHas("compute")
    BY <1>3 DEF Due, Comparisons
  <2>2. CalledFor(s) <=> Has("compute", Categories)
    BY <1>3 DEF CalledFor, Comparisons
  <2>3. QED
    BY <2>1, <2>2, ComputeCalled
<1>4. CASE s = "compile"
  <2>1. Due(s) <=> TwoPhase # {}
    BY <1>4 DEF Due, Comparisons
  <2>2. CalledFor(s) <=> Has("compile", Categories)
    BY <1>4 DEF CalledFor, Comparisons
  <2>3. QED
    BY <2>1, <2>2, CompileCalled
<1>5. CASE s = "startup"
  <2>1. Due(s) <=> Listed(AtStartup, "wall") # {}
    BY <1>5 DEF Due, Comparisons
  <2>2. CalledFor(s) <=> Has("wall", AtStartup)
    BY <1>5 DEF CalledFor, Comparisons
  <2>3. QED
    BY <2>1, <2>2, ListedCalled DEF Fields
<1>6. CASE s = "size"
  <2>1. Due(s) <=> Listed(Categories, "size") # {}
    BY <1>6 DEF Due, Comparisons
  <2>2. CalledFor(s) <=> Has("size", Categories)
    BY <1>6 DEF CalledFor, Comparisons
  <2>3. QED
    BY <2>1, <2>2, ListedCalled DEF Fields
<1>7. CASE s \in Comparisons
  <2> DEFINE field == FieldOf(s)
  <2>1. field \in Fields
    BY DEF FieldOf, Fields
  <2>2. Due(s) <=> /\ Bento \in Runtimes
                   /\ s = "speedup compute" => AnyHas("compute")
                   /\ Compared(field) # {}
    BY <1>1, <1>7, Zenon DEF Due
  <2>3. CalledFor(s) <=>
          /\ Bento \in Runtimes
          /\ \E rt \in Runtimes \ {Bento} :
               With(Bento, field, Categories) \cap With(rt, field, Categories) # {}
    BY <1>1, <1>7, Zenon DEF CalledFor
  <2>4. ASSUME Bento \in Runtimes, s = "speedup compute", Compared(field) # {}
        PROVE  AnyHas("compute")
    <3>1. field = "compute"
      BY <2>4 DEF FieldOf
    <3>2. With(Bento, "compute", Categories) # {}
      BY <2>1, <2>4, <3>1, ComparedCalled
    <3>3. QED
      BY <2>4, <3>2, ComputeCalled DEF Has
  <2> HIDE DEF field
  <2>5. QED
    BY <2>1, <2>2, <2>3, <2>4, ComparedCalled
<1>8. QED
  BY <1>2, <1>3, <1>4, <1>5, <1>6, <1>7 DEF SectionNames, Comparisons

LEMMA NoGap == PageInv /\ DueNoGap => PageHasNoGap
<1> SUFFICES ASSUME PageInv, DueNoGap, target # "none" PROVE PageHasNoGap
  BY DEF PageHasNoGap
<1> DEFINE all == Sections(target)
<1>1. \A k \in DOMAIN all : all[k] \in SectionNames
  BY SectionsType
<1>2. {k \in DOMAIN all : CalledFor(all[k])} = {k \in DOMAIN all : Due(all[k])}
  BY <1>1, DueIsCalledFor
<1>3. DueSoFar = Kept(all, Len(all) - Len(todo), {k \in DOMAIN all : CalledFor(all[k])})
  BY <1>2 DEF DueSoFar
<1>4. QED
  BY <1>3 DEF DueNoGap, PageHasNoGap

-----------------------------------------------------------------------------
(* The comparison by category.                                             *)

\* f and g have numbers at the indexes of J, and zero elsewhere.
Parts(f, g, n, J) ==
  /\ J \subseteq 1..n
  /\ \A i \in 1..n : f[i] \in Nat /\ g[i] \in Nat /\ (i \notin J => f[i] = 0 /\ g[i] = 0)

\* The parts of f are to those of g at most as d is to k, and less than that.
Scaled(f, g, J, k, d) == \A i \in J : k * f[i] <= d * g[i]

Below(f, g, J, k, d) == \A i \in J : k * f[i] < d * g[i]

\* A sum is to another as its parts are.
LEMMA PartsSwap ==
  ASSUME NEW f, NEW g, NEW n, NEW J, Parts(f, g, n, J)
  PROVE  Parts(g, f, n, J)
BY DEF Parts

LEMMA SumScaled ==
  ASSUME NEW n \in Nat, NEW J, NEW f, NEW g, Parts(f, g, n, J),
         NEW k \in Int, NEW d \in Int, Scaled(f, g, J, k, d)
  PROVE  k * Total(f, n) <= d * Total(g, n)
<1>1. \A i \in 1..n : f[i] \in Int /\ g[i] \in Int /\ k * f[i] <= d * g[i]
  <2> SUFFICES ASSUME NEW i \in 1..n PROVE f[i] \in Int /\ g[i] \in Int /\ k * f[i] <= d * g[i]
    OBVIOUS
  <2>1. i \notin J => f[i] = 0 /\ g[i] = 0
    BY DEF Parts
  <2>2. i \in J => k * f[i] <= d * g[i]
    BY DEF Scaled
  <2>3. f[i] \in Nat /\ g[i] \in Nat
    BY DEF Parts
  <2>4. QED
    BY <2>1, <2>2, <2>3
<1>2. QED
  BY <1>1, TotalScaled

LEMMA SumBelow ==
  ASSUME NEW n \in Nat, NEW J, NEW f, NEW g, Parts(f, g, n, J), J # {},
         NEW k \in Int, NEW d \in Int, Below(f, g, J, k, d)
  PROVE  k * Total(f, n) < d * Total(g, n)
<1>1. \A i \in 1..n : f[i] \in Int /\ g[i] \in Int /\ k * f[i] <= d * g[i]
  <2> SUFFICES ASSUME NEW i \in 1..n PROVE f[i] \in Int /\ g[i] \in Int /\ k * f[i] <= d * g[i]
    OBVIOUS
  <2>1. i \notin J => f[i] = 0 /\ g[i] = 0
    BY DEF Parts
  <2>2. i \in J => k * f[i] < d * g[i]
    BY DEF Below
  <2>3. f[i] \in Nat /\ g[i] \in Nat
    BY DEF Parts
  <2>4. QED
    BY <2>1, <2>2, <2>3
<1>2. PICK j \in 1..n : k * f[j] < d * g[j]
  BY DEF Below, Parts
<1>3. QED
  BY <1>1, <1>2, TotalStrict

LEMMA PrintedAtLeast ==
  ASSUME NEW b \in Nat, NEW a \in Nat \ {0}, NEW p \in Int
  PROVE  Printed(b, a) \in Int /\ (p <= Printed(b, a) <=> (2 * a) * p <= 200 * b + a)
<1>1. PICK m \in Nat \ {0}, x \in Nat : m = 2 * a /\ x = 200 * b + a
  OBVIOUS
<1>2. PICK q \in Int : q = x \div m
  BY <1>1
<1>3. m * q <= x /\ x < m * (q + 1)
  BY <1>2
<1>4. p <= q <=> m * p <= x
  <2>1. ASSUME p <= q PROVE m * p <= x
    <3>1. m * p <= m * q
      BY <2>1
    <3>2. QED
      BY <1>3, <3>1
  <2>2. ASSUME p >= q + 1 PROVE ~(m * p <= x)
    <3>1. m * p >= m * (q + 1)
      BY <2>2
    <3>2. QED
      BY <1>3, <3>1
  <2>3. QED
    BY <2>1, <2>2
<1>5. Printed(b, a) = q
  BY <1>1, <1>2 DEF Printed
<1>6. QED
  BY <1>1, <1>4, <1>5

\* The ratio of two sums lies between the ratios of their parts.
LEMMA RatioOfSums ==
  ASSUME NEW n \in Nat, NEW J, NEW f, NEW g, Parts(f, g, n, J), J # {},
         \A i \in J : f[i] > 0 /\ g[i] > 0
  PROVE  /\ Total(f, n) \in Nat \ {0} /\ Total(g, n) \in Nat \ {0}
         /\ \E lo \in J : Printed(f[lo], g[lo]) <= Printed(Total(f, n), Total(g, n))
         /\ \E hi \in J : Printed(Total(f, n), Total(g, n)) <= Printed(f[hi], g[hi])
         /\ (\A i \in J : f[i] <= g[i]) => Total(f, n) <= Total(g, n)
         /\ (\A i \in J : g[i] <= f[i]) => Total(g, n) <= Total(f, n)
<1>1. Total(f, n) \in Int /\ Total(g, n) \in Int
  <2>1. (\A i \in 1..n : f[i] \in Int) /\ (\A i \in 1..n : g[i] \in Int)
    BY DEF Parts
  <2>2. QED
    BY <2>1, TotalStep
<1>2. \A i \in J : f[i] \in Nat \ {0} /\ g[i] \in Nat \ {0}
  BY DEF Parts
<1>3. Parts(g, f, n, J)
  BY PartsSwap
<1>4. PICK z \in Int, u \in Int, v \in Int : z = 0 /\ u = 1 /\ v = 200
  OBVIOUS
<1>5. 0 < Total(f, n) /\ 0 < Total(g, n)
  <2>1. Below(f, g, J, z, u) /\ Below(g, f, J, z, u)
    BY <1>2, <1>4 DEF Below
  <2>2. z * Total(f, n) < u * Total(g, n) /\ z * Total(g, n) < u * Total(f, n)
    BY <1>3, <2>1, SumBelow
  <2>3. QED
    BY <1>1, <1>4, <2>2
<1>6. PICK B \in Nat \ {0}, A \in Nat \ {0} : B = Total(f, n) /\ A = Total(g, n)
  BY <1>1, <1>5
<1>7. PICK p \in Int : p = Printed(B, A)
  BY PrintedAtLeast
<1>8. \E lo \in J : Printed(f[lo], g[lo]) <= p
  <2> SUFFICES ASSUME \A i \in J : ~(Printed(f[i], g[i]) <= p) PROVE FALSE
    OBVIOUS
  <2>1. PICK k \in Int, q \in Int : k = 2 * p + 1 /\ q = p + 1
    BY <1>7
  <2>2. ASSUME NEW i \in J PROVE k * g[i] <= v * f[i]
    <3>1. PICK b \in Nat, a \in Nat \ {0} : b = f[i] /\ a = g[i]
      BY <1>2
    <3>2. Printed(b, a) \in Int /\ ~(Printed(b, a) <= p)
      BY <1>7, <3>1, PrintedAtLeast
    <3>3. q <= Printed(b, a)
      BY <1>7, <2>1, <3>2
    <3>4. (2 * a) * q <= 200 * b + a
      BY <2>1, <3>3, PrintedAtLeast
    <3>5. (2 * a) * q = k * a + a
      BY <1>7, <2>1
    <3>6. k * a <= 200 * b
      BY <2>1, <3>4, <3>5
    <3>7. QED
      BY <1>4, <3>1, <3>6
  <2>3. k * Total(g, n) <= v * Total(f, n)
    <3>1. Scaled(g, f, J, k, v)
      BY <2>2 DEF Scaled
    <3>2. QED
      BY <1>3, <1>4, <2>1, <3>1, SumScaled
  <2>4. k * A <= 200 * B
    BY <1>4, <1>6, <2>3
  <2>5. (2 * A) * q = k * A + A
    BY <1>7, <2>1
  <2>6. (2 * A) * q <= 200 * B + A
    BY <2>1, <2>4, <2>5
  <2>7. q <= Printed(B, A)
    BY <2>1, <2>6, PrintedAtLeast
  <2>8. QED
    BY <1>7, <2>1, <2>7
<1>9. \E hi \in J : p <= Printed(f[hi], g[hi])
  <2> SUFFICES ASSUME \A i \in J : ~(p <= Printed(f[i], g[i])) PROVE FALSE
    OBVIOUS
  <2>1. PICK k \in Int : k = 2 * p - 1
    BY <1>7
  <2>2. ASSUME NEW i \in J PROVE v * f[i] < k * g[i]
    <3>1. PICK b \in Nat, a \in Nat \ {0} : b = f[i] /\ a = g[i]
      BY <1>2
    <3>2. ~(p <= Printed(b, a))
      BY <3>1
    <3>3. ~((2 * a) * p <= 200 * b + a)
      BY <1>7, <3>2, PrintedAtLeast
    <3>4. (2 * a) * p = k * a + a
      BY <1>7, <2>1
    <3>5. 200 * b < k * a
      BY <2>1, <3>3, <3>4
    <3>6. QED
      BY <1>4, <3>1, <3>5
  <2>3. v * Total(f, n) < k * Total(g, n)
    <3>1. Below(f, g, J, v, k)
      BY <2>2 DEF Below
    <3>2. QED
      BY <1>4, <2>1, <3>1, SumBelow
  <2>4. 200 * B < k * A
    BY <1>4, <1>6, <2>3
  <2>5. (2 * A) * p = k * A + A
    BY <1>7, <2>1
  <2>6. ~((2 * A) * p <= 200 * B + A)
    BY <2>1, <2>4, <2>5
  <2>7. ~(p <= Printed(B, A))
    BY <1>7, <2>6, PrintedAtLeast
  <2>8. QED
    BY <1>7, <2>7
<1>10. ASSUME \A i \in J : f[i] <= g[i] PROVE B <= A
  <2>1. Scaled(f, g, J, u, u)
    BY <1>2, <1>4, <1>10 DEF Scaled
  <2>2. u * Total(f, n) <= u * Total(g, n)
    BY <1>4, <2>1, SumScaled
  <2>3. QED
    BY <1>4, <1>6, <2>2
<1>11. ASSUME \A i \in J : g[i] <= f[i] PROVE A <= B
  <2>1. Scaled(g, f, J, u, u)
    BY <1>2, <1>4, <1>11 DEF Scaled
  <2>2. u * Total(g, n) <= u * Total(f, n)
    BY <1>3, <1>4, <2>1, SumScaled
  <2>3. QED
    BY <1>4, <1>6, <2>2
<1>12. QED
  BY <1>6, <1>7, <1>8, <1>9, <1>10, <1>11

\* What the ratio of two sums reads as.
LEMMA ReadingIs ==
  ASSUME NEW b \in Nat \ {0}, NEW a \in Nat \ {0}
  PROVE  \/ 100 * b <= 105 * a /\ Reading(b, a) = "on par or faster"
         \/ 100 * b > 105 * a /\ b <= 2 * a /\ Reading(b, a) = "within 2x"
         \/ b > 2 * a /\ Reading(b, a) = "slower"
<1>1. CASE 100 * b <= 105 * a
  <2>1. ~(100 * b > 105 * a /\ b <= 2 * a) /\ ~(b > 2 * a)
    BY <1>1
  <2>2. Reading(b, a) = "on par or faster"
    BY <1>1, <2>1, Zenon DEF Reading
  <2>3. QED
    BY <1>1, <2>2
<1>2. CASE 100 * b > 105 * a /\ b <= 2 * a
  <2>1. ~(100 * b <= 105 * a) /\ ~(b > 2 * a)
    BY <1>2
  <2>2. Reading(b, a) = "within 2x"
    BY <1>2, <2>1, Zenon DEF Reading
  <2>3. QED
    BY <1>2, <2>2
<1>3. CASE b > 2 * a
  <2>1. ~(100 * b <= 105 * a) /\ ~(100 * b > 105 * a /\ b <= 2 * a)
    BY <1>3
  <2>2. Reading(b, a) = "slower"
    BY <1>3, <2>1, Zenon DEF Reading
  <2>3. QED
    BY <1>3, <2>2
<1>4. 100 * b <= 105 * a \/ (100 * b > 105 * a /\ b <= 2 * a) \/ b > 2 * a
  OBVIOUS
<1>5. QED
  BY <1>1, <1>2, <1>3, <1>4, Zenon

LEMMA ComputeReadingIs ==
  ASSUME NEW b \in Nat \ {0}, NEW a \in Nat \ {0}
  PROVE  \/ 2 * b <= a /\ ComputeReading(b, a) = "goal met"
         \/ 2 * b > a /\ b < a /\ ComputeReading(b, a) = "not yet 2x"
         \/ a <= b /\ 100 * b <= 105 * a /\ ComputeReading(b, a) = "on par"
         \/ 100 * b > 105 * a /\ ComputeReading(b, a) = "slower"
<1>1. CASE 2 * b <= a
  <2>1. ~(2 * b > a /\ b < a) /\ ~(a <= b /\ 100 * b <= 105 * a) /\ ~(100 * b > 105 * a)
    BY <1>1
  <2>2. ComputeReading(b, a) = "goal met"
    BY <1>1, <2>1, Zenon DEF ComputeReading
  <2>3. QED
    BY <1>1, <2>2
<1>2. CASE 2 * b > a /\ b < a
  <2>1. ~(2 * b <= a) /\ ~(a <= b /\ 100 * b <= 105 * a) /\ ~(100 * b > 105 * a)
    BY <1>2
  <2>2. ComputeReading(b, a) = "not yet 2x"
    BY <1>2, <2>1, Zenon DEF ComputeReading
  <2>3. QED
    BY <1>2, <2>2
<1>3. CASE a <= b /\ 100 * b <= 105 * a
  <2>1. ~(2 * b <= a) /\ ~(2 * b > a /\ b < a) /\ ~(100 * b > 105 * a)
    BY <1>3
  <2>2. ComputeReading(b, a) = "on par"
    BY <1>3, <2>1, Zenon DEF ComputeReading
  <2>3. QED
    BY <1>3, <2>2
<1>4. CASE 100 * b > 105 * a
  <2>1. ~(2 * b <= a) /\ ~(2 * b > a /\ b < a) /\ ~(a <= b /\ 100 * b <= 105 * a)
    BY <1>4
  <2>2. ComputeReading(b, a) = "slower"
    BY <1>4, <2>1, Zenon DEF ComputeReading
  <2>3. QED
    BY <1>4, <2>2
<1>5. 2 * b <= a \/ (2 * b > a /\ b < a) \/ (a <= b /\ 100 * b <= 105 * a) \/ 100 * b > 105 * a
  OBVIOUS
<1>6. QED
  BY <1>1, <1>2, <1>3, <1>4, <1>5, Zenon

\* The reading is that of the ratio that is printed, but at its threshold.
LEMMA Verdicts ==
  ASSUME NEW b \in Nat \ {0}, NEW a \in Nat \ {0}
  PROVE  /\ Printed(b, a) \in Band(Reading(b, a))
         /\ Printed(b, a) \in Band(ComputeReading(b, a))
         /\ b <= a => /\ Printed(b, a) <= 100
                      /\ Reading(b, a) # "slower" /\ ComputeReading(b, a) # "slower"
         /\ a <= b => Printed(b, a) >= 100
<1>1. PICK r \in Int : r = Printed(b, a)
  BY PrintedAtLeast
<1>2. \A q \in Int : q <= r <=> (2 * a) * q <= 200 * b + a
  BY <1>1, PrintedAtLeast
<1>3. /\ 0 <= r
      /\ (51 <= r <=> 102 * a <= 200 * b + a) /\ (50 <= r <=> 100 * a <= 200 * b + a)
      /\ (100 <= r <=> 200 * a <= 200 * b + a) /\ (101 <= r <=> 202 * a <= 200 * b + a)
      /\ (105 <= r <=> 210 * a <= 200 * b + a) /\ (106 <= r <=> 212 * a <= 200 * b + a)
      /\ (200 <= r <=> 400 * a <= 200 * b + a) /\ (201 <= r <=> 402 * a <= 200 * b + a)
  BY <1>2
<1>4. r \in Band(Reading(b, a))
  <2>1. CASE 100 * b <= 105 * a /\ Reading(b, a) = "on par or faster"
    <3>1. 100 * b <= 105 * a
      BY <2>1
    <3>2. r \in 0..105
      BY <1>1, <1>3, <3>1
    <3>3. QED
      BY <2>1, <3>2 DEF Band
  <2>2. CASE 100 * b > 105 * a /\ b <= 2 * a /\ Reading(b, a) = "within 2x"
    <3>1. 100 * b > 105 * a /\ b <= 2 * a
      BY <2>2
    <3>2. r \in 105..200
      BY <1>1, <1>3, <3>1
    <3>3. QED
      BY <2>2, <3>2 DEF Band
  <2>3. CASE b > 2 * a /\ Reading(b, a) = "slower"
    <3>1. b > 2 * a
      BY <2>3
    <3>2. r \in Nat /\ r >= 105
      BY <1>1, <1>3, <3>1
    <3>3. QED
      BY <2>3, <3>2 DEF Band
  <2>4. QED
    BY ReadingIs, <2>1, <2>2, <2>3
<1>5. r \in Band(ComputeReading(b, a))
  <2>1. CASE 2 * b <= a /\ ComputeReading(b, a) = "goal met"
    <3>1. 2 * b <= a
      BY <2>1
    <3>2. r \in 0..50
      BY <1>1, <1>3, <3>1
    <3>3. QED
      BY <2>1, <3>2 DEF Band
  <2>2. CASE 2 * b > a /\ b < a /\ ComputeReading(b, a) = "not yet 2x"
    <3>1. 2 * b > a /\ b < a
      BY <2>2
    <3>2. r \in 50..100
      BY <1>1, <1>3, <3>1
    <3>3. QED
      BY <2>2, <3>2 DEF Band
  <2>3. CASE a <= b /\ 100 * b <= 105 * a /\ ComputeReading(b, a) = "on par"
    <3>1. a <= b /\ 100 * b <= 105 * a
      BY <2>3
    <3>2. r \in 100..105
      BY <1>1, <1>3, <3>1
    <3>3. QED
      BY <2>3, <3>2 DEF Band
  <2>4. CASE 100 * b > 105 * a /\ ComputeReading(b, a) = "slower"
    <3>1. 100 * b > 105 * a
      BY <2>4
    <3>2. r \in Nat /\ r >= 105
      BY <1>1, <1>3, <3>1
    <3>3. QED
      BY <2>4, <3>2 DEF Band
  <2>5. QED
    BY ComputeReadingIs, <2>1, <2>2, <2>3, <2>4
<1>6. ASSUME b <= a
      PROVE  r <= 100 /\ Reading(b, a) # "slower" /\ ComputeReading(b, a) # "slower"
  <2>1. r <= 100
    BY <1>1, <1>3, <1>6
  <2>2. ~(b > 2 * a) /\ ~(100 * b > 105 * a)
    BY <1>6
  <2>3. QED
    BY <2>1, <2>2, ReadingIs, ComputeReadingIs
<1>7. a <= b => r >= 100
  BY <1>3
<1>8. QED
  BY <1>1, <1>4, <1>5, <1>6, <1>7

\* A row has a measurement of bento if the sweep found it.
LEMMA HasBento ==
  ASSUME PageInv, NEW i \in DOMAIN results
  PROVE  DOMAIN results[i].of = Runtimes
<1>1. results[i] \in Rows
  BY DEF PageInv
<1>2. QED
  BY <1>1 DEF Rows

\* What a row has to count for, on either side.
Bentos(c, field) ==
  [i \in DOMAIN results |->
     IF i \in Counted(c, field) THEN results[i].of[Bento][field] ELSE 0]

Bests(c, field) ==
  [i \in DOMAIN results |->
     IF i \in Counted(c, field) THEN BestOther(results[i], field) ELSE 0]

LEMMA BestOtherIsLeast ==
  ASSUME PageInv, NEW field \in Fields, NEW i \in DOMAIN results, Others(results[i], field) # {}
  PROVE  /\ BestOther(results[i], field) \in Nat \ {0}
         /\ \E rt \in Others(results[i], field) : BestOther(results[i], field) = results[i].of[rt][field]
         /\ \A rt \in Others(results[i], field) : BestOther(results[i], field) <= results[i].of[rt][field]
<1> DEFINE who == Others(results[i], field)
           S   == {results[i].of[rt][field] : rt \in who}
<1>1. \A rt \in who : results[i].of[rt][field] \in Nat /\ results[i].of[rt][field] > 0
  BY ShownIffPositive DEF Others
<1>2. S \subseteq Nat /\ S # {}
  BY <1>1
<1>3. BestOther(results[i], field) = Min(S)
  BY DEF BestOther
<1> HIDE DEF who
<1>4. Min(S) \in S /\ \A y \in S : Min(S) <= y
  <2> HIDE DEF S
  <2>1. QED
    BY <1>2, MinIsLeast
<1>5. PICK rt \in who : Min(S) = results[i].of[rt][field]
  BY <1>4
<1>6. \A any \in who : Min(S) <= results[i].of[any][field]
  BY <1>4
<1> HIDE DEF S
<1>7. QED
  BY <1>1, <1>3, <1>5, <1>6 DEF who

LEMMA RowsThatCount ==
  ASSUME PageInv, NEW c, NEW field \in Fields
  PROVE  /\ Len(results) \in Nat
         /\ Parts(Bentos(c, field), Bests(c, field), Len(results), Counted(c, field))
         /\ BentoSum(c, field) = Total(Bentos(c, field), Len(results))
         /\ BestSum(c, field) = Total(Bests(c, field), Len(results))
         /\ \A i \in Counted(c, field) :
              /\ i \in DOMAIN results
              /\ Bentos(c, field)[i] = results[i].of[Bento][field] /\ Bentos(c, field)[i] > 0
              /\ Bests(c, field)[i] = BestOther(results[i], field) /\ Bests(c, field)[i] > 0
<1> DEFINE J == Counted(c, field)
<1>1. DOMAIN results = 1..Len(results) /\ Len(results) \in Nat
  BY DEF PageInv
<1>2. J \subseteq DOMAIN results
  BY DEF Counted
<1>3. ASSUME NEW i \in J
      PROVE  /\ results[i].of[Bento][field] \in Nat /\ results[i].of[Bento][field] > 0
             /\ BestOther(results[i], field) \in Nat \ {0}
  <2>1. /\ i \in DOMAIN results /\ Bento \in Runtimes
        /\ Shown(results[i].of[Bento], field) /\ Others(results[i], field) # {}
    BY HasBento DEF Counted
  <2>2. QED
    BY <2>1, BestOtherIsLeast, ShownIffPositive
<1>4. Parts(Bentos(c, field), Bests(c, field), Len(results), J)
  <2> HIDE DEF J
  <2>1. \A i \in DOMAIN results :
          /\ Bentos(c, field)[i] = IF i \in J THEN results[i].of[Bento][field] ELSE 0
          /\ Bests(c, field)[i] = IF i \in J THEN BestOther(results[i], field) ELSE 0
    BY DEF Bentos, Bests, J
  <2>2. QED
    BY <1>1, <1>2, <1>3, <2>1 DEF Parts
<1>5. BentoSum(c, field) = Total(Bentos(c, field), Len(results))
  BY DEF BentoSum, Bentos
<1>6. BestSum(c, field) = Total(Bests(c, field), Len(results))
  BY DEF BestSum, Bests
<1>7. \A i \in J : /\ Bentos(c, field)[i] = results[i].of[Bento][field]
                  /\ Bests(c, field)[i] = BestOther(results[i], field)
  BY <1>2 DEF Bentos, Bests
<1>8. QED
  BY <1>1, <1>2, <1>3, <1>4, <1>5, <1>6, <1>7

\* The line of a category.
LEMMA LineOfCategory ==
  ASSUME PageInv, NEW c, NEW field \in Fields, Counted(c, field) # {}
  PROVE  LET J == Counted(c, field)
             B == BentoSum(c, field)
             A == BestSum(c, field)
             Own(i)  == results[i].of[Bento][field]
             Best(i) == BestOther(results[i], field)
         IN  /\ B \in Nat \ {0} /\ A \in Nat \ {0}
             /\ \E lo \in J : Printed(Own(lo), Best(lo)) <= Printed(B, A)
             /\ \E hi \in J : Printed(B, A) <= Printed(Own(hi), Best(hi))
             /\ (\A i \in J : Own(i) <= Best(i)) => B <= A
             /\ (\A i \in J : Best(i) <= Own(i)) => A <= B
<1> DEFINE J == Counted(c, field)
           f == Bentos(c, field)
           g == Bests(c, field)
           n == Len(results)
<1>1. /\ n \in Nat /\ Parts(f, g, n, J) /\ J # {}
      /\ \A i \in J : f[i] > 0 /\ g[i] > 0
      /\ \A i \in J : f[i] = results[i].of[Bento][field] /\ g[i] = BestOther(results[i], field)
      /\ BentoSum(c, field) = Total(f, n) /\ BestSum(c, field) = Total(g, n)
  BY RowsThatCount
<1> HIDE DEF J, f, g, n
<1>2. /\ Total(f, n) \in Nat \ {0} /\ Total(g, n) \in Nat \ {0}
      /\ \E lo \in J : Printed(f[lo], g[lo]) <= Printed(Total(f, n), Total(g, n))
      /\ \E hi \in J : Printed(Total(f, n), Total(g, n)) <= Printed(f[hi], g[hi])
      /\ (\A i \in J : f[i] <= g[i]) => Total(f, n) <= Total(g, n)
      /\ (\A i \in J : g[i] <= f[i]) => Total(g, n) <= Total(f, n)
  BY <1>1, RatioOfSums
<1>3. QED
  BY <1>1, <1>2 DEF J

\* Each line of a comparison is between the ratios of its rows.
BetweenRows(rows, field) ==
  LET Theirs(r) == {results[r].of[rt][field] : rt \in Runtimes \ {Bento}} \ {0}
      Own(c) == {r \in DOMAIN results :
                   /\ results[r].cat = c
                   /\ Bento \in Runtimes /\ results[r].of[Bento][field] > 0
                   /\ Theirs(r) # {}}
      Ratio(r) == Printed(results[r].of[Bento][field], Min(Theirs(r)))
  IN  /\ DOMAIN rows = {c \in Categories : Own(c) # {}}
      /\ \A c \in DOMAIN rows :
           \E lo, hi \in Own(c) : Ratio(lo) <= rows[c].ratio /\ rows[c].ratio <= Ratio(hi)

LEMMA RatiosBetween ==
  ASSUME PageInv, NEW field \in Fields, NEW rows,
         DOMAIN rows = Compared(field),
         \A c \in Compared(field) :
           rows[c].ratio = Printed(BentoSum(c, field), BestSum(c, field))
  PROVE  BetweenRows(rows, field)
<1> DEFINE Theirs(r) == {results[r].of[rt][field] : rt \in Runtimes \ {Bento}} \ {0}
           Own(c) == {r \in DOMAIN results :
                        /\ results[r].cat = c
                        /\ Bento \in Runtimes /\ results[r].of[Bento][field] > 0
                        /\ Theirs(r) # {}}
           Ratio(r) == Printed(results[r].of[Bento][field], Min(Theirs(r)))
<1>1. ASSUME NEW r \in DOMAIN results
      PROVE  /\ Theirs(r) = {results[r].of[rt][field] : rt \in Others(results[r], field)}
             /\ Theirs(r) # {} <=> Others(results[r], field) # {}
  <2>1. \A rt \in Runtimes :
          /\ results[r].of[rt][field] \in Nat
          /\ Shown(results[r].of[rt], field) <=> results[r].of[rt][field] > 0
    BY ShownIffPositive
  <2>2. Theirs(r) = {results[r].of[rt][field] : rt \in Others(results[r], field)}
    BY <2>1 DEF Others
  <2> HIDE DEF Theirs
  <2>3. QED
    BY <2>2
<1>2. ASSUME NEW c PROVE Own(c) = Counted(c, field)
  <2>1. \A r \in DOMAIN results :
          /\ DOMAIN results[r].of = Runtimes
          /\ Bento \in Runtimes =>
               (Shown(results[r].of[Bento], field) <=> results[r].of[Bento][field] > 0)
    BY HasBento, ShownIffPositive
  <2> HIDE DEF Theirs
  <2>2. QED
    BY <1>1, <2>1 DEF Counted
<1>3. \A r \in DOMAIN results : Ratio(r) = Printed(results[r].of[Bento][field], BestOther(results[r], field))
  BY <1>1 DEF BestOther
<1>4. \A c : Own(c) \subseteq DOMAIN results
  OBVIOUS
<1> HIDE DEF Own, Ratio
<1>5. Compared(field) = {c \in Categories : Own(c) # {}}
  BY <1>2 DEF Compared
<1>6. ASSUME NEW c \in Compared(field)
      PROVE  \E lo, hi \in Own(c) :
               Ratio(lo) <= rows[c].ratio /\ rows[c].ratio <= Ratio(hi)
  <2>1. Counted(c, field) # {}
    BY DEF Compared
  <2>2. PICK lo \in Counted(c, field) :
          Printed(results[lo].of[Bento][field], BestOther(results[lo], field))
            <= Printed(BentoSum(c, field), BestSum(c, field))
    BY <2>1, LineOfCategory
  <2>3. PICK hi \in Counted(c, field) :
          Printed(BentoSum(c, field), BestSum(c, field))
            <= Printed(results[hi].of[Bento][field], BestOther(results[hi], field))
    BY <2>1, LineOfCategory
  <2>4. lo \in Own(c) /\ hi \in Own(c) /\ lo \in DOMAIN results /\ hi \in DOMAIN results
    BY <1>2, <1>4
  <2>5. QED
    BY <1>3, <2>2, <2>3, <2>4
<1>7. DOMAIN rows = {c \in Categories : Own(c) # {}}
  BY <1>5
<1>8. \A c \in DOMAIN rows :
        \E lo, hi \in Own(c) : Ratio(lo) <= rows[c].ratio /\ rows[c].ratio <= Ratio(hi)
  BY <1>6
<1>9. QED
  BY <1>7, <1>8, Zenon DEF BetweenRows, Own, Ratio

LEMMA PageRatios == PageInv => RatioBetweenRows
<1> SUFFICES ASSUME PageInv, NEW i \in DOMAIN page, page[i].name \in Comparisons
             PROVE  BetweenRows(page[i].rows, FieldOf(page[i].name))
  BY DEF RatioBetweenRows, BetweenRows
<1> DEFINE field == FieldOf(page[i].name)
<1>1. field \in Fields
  BY DEF FieldOf, Fields
<1>2. page[i] = SpeedupSection(page[i].name)
  BY DEF PageInv, Fits
<1>3. /\ DOMAIN page[i].rows = Compared(field)
      /\ \A c \in Compared(field) :
           page[i].rows[c].ratio = Printed(BentoSum(c, field), BestSum(c, field))
  BY <1>2 DEF SpeedupSection
<1> HIDE DEF field
<1>4. BetweenRows(page[i].rows, field)
  BY <1>1, <1>3, RatiosBetween
<1>5. QED
  BY <1>4 DEF field

\* bento has the mark of a row where no other is faster, and no other is faster
\* than the one that has it.
LEMMA MarkTells ==
  ASSUME PageInv, NEW field \in Fields, NEW r \in DOMAIN results, Bento \in Runtimes,
         Shown(results[r].of[Bento], field), Others(results[r], field) # {}
  PROVE  /\ IsBest(results[r], field, Bento) =>
              results[r].of[Bento][field] <= BestOther(results[r], field)
         /\ ~IsBest(results[r], field, Bento) =>
              BestOther(results[r], field) <= results[r].of[Bento][field]
<1> DEFINE row == results[r]
<1>1. \A rt \in Runtimes : row.of[rt][field] \in Nat
  BY ShownIffPositive
<1>2. PICK b \in DOMAIN live : live[b] = Bento
  BY DEF Runtimes
<1>3. b \in Have(row, field)
  BY <1>2 DEF Have
<1>4. PICK k \in Least(row, field) : \A rt : IsBest(row, field, rt) <=> rt = live[k]
  BY <1>1, <1>3, OneBest DEF PageInv
<1>5. /\ k \in Have(row, field)
      /\ \A j \in Have(row, field) : row.of[live[k]][field] <= row.of[live[j]][field]
  BY DEF Least
<1>6. k \in DOMAIN live /\ Shown(row.of[live[k]], field) /\ live[k] \in Runtimes
  BY <1>5 DEF Have, Runtimes
<1>7. BestOther(row, field) \in Nat
  BY BestOtherIsLeast
<1>8. CASE live[k] = Bento
  <2>1. PICK rt \in Others(row, field) : BestOther(row, field) = row.of[rt][field]
    BY BestOtherIsLeast
  <2>2. PICK j \in DOMAIN live : rt = live[j]
    BY DEF Others, Runtimes
  <2>3. j \in Have(row, field)
    BY <2>2 DEF Others, Have
  <2>4. row.of[Bento][field] <= row.of[rt][field]
    BY <1>5, <1>8, <2>2, <2>3
  <2>5. QED
    BY <1>4, <1>8, <2>1, <2>4
<1>9. CASE live[k] # Bento
  <2>1. live[k] \in Others(row, field)
    BY <1>6, <1>9 DEF Others
  <2>2. BestOther(row, field) <= row.of[live[k]][field]
    BY <2>1, BestOtherIsLeast
  <2>3. row.of[live[k]][field] <= row.of[Bento][field]
    BY <1>2, <1>3, <1>5
  <2>4. BestOther(row, field) <= row.of[Bento][field]
    BY <1>1, <1>6, <1>7, <2>2, <2>3
  <2>5. QED
    BY <1>4, <1>9, <2>4
<1>10. QED
  BY <1>8, <1>9

\* The line of a category says what the cells of its rows do.
FollowsMarks(cells, c, line) ==
  LET rows == {r \in DOMAIN results :
                 /\ results[r].cat = c /\ cells[r][Bento].shows > 0
                 /\ \E rt \in Runtimes \ {Bento} : cells[r][rt].shows > 0}
  IN  /\ (\A r \in rows : cells[r][Bento].mark) =>
           line.ratio <= 100 /\ line.reading # "slower"
      /\ (\A r \in rows : ~cells[r][Bento].mark) => line.ratio >= 100
      /\ line.ratio \in Band(line.reading)

LEMMA LineFollows ==
  ASSUME PageInv, NEW field \in Fields, NEW c, Counted(c, field) # {}, NEW line,
         line.ratio = Printed(BentoSum(c, field), BestSum(c, field)),
         line.reading \in {Reading(BentoSum(c, field), BestSum(c, field)),
                           ComputeReading(BentoSum(c, field), BestSum(c, field))}
  PROVE  FollowsMarks(Table(field).cells, c, line)
<1> DEFINE cells == Table(field).cells
           rows  == {r \in DOMAIN results :
                       /\ results[r].cat = c /\ cells[r][Bento].shows > 0
                       /\ \E rt \in Runtimes \ {Bento} : cells[r][rt].shows > 0}
<1>1. ASSUME NEW r \in DOMAIN results, NEW rt \in Runtimes
      PROVE  /\ cells[r][rt].shows > 0 <=> Shown(results[r].of[rt], field)
             /\ cells[r][rt].mark = IsBest(results[r], field, rt)
  <2>1. cells[r] = [any \in Runtimes |-> Cell(results[r], field, any)]
    BY DEF Table
  <2>2. cells[r][rt] = Cell(results[r], field, rt)
    BY <2>1
  <2>3. results[r].of[rt][field] \in Nat
    BY ShownIffPositive
  <2>4. QED
    BY <2>2, <2>3 DEF Cell, Shown, Fail
<1> HIDE DEF cells
<1>2. Bento \in Runtimes
  BY HasBento DEF Counted
<1>3. rows = Counted(c, field)
  <2>1. ASSUME NEW r \in DOMAIN results
        PROVE  /\ cells[r][Bento].shows > 0 <=> Shown(results[r].of[Bento], field)
               /\ (\E rt \in Runtimes \ {Bento} : cells[r][rt].shows > 0)
                    <=> Others(results[r], field) # {}
    <3>1. cells[r][Bento].shows > 0 <=> Shown(results[r].of[Bento], field)
      BY <1>1, <1>2
    <3>2. (\E rt \in Runtimes \ {Bento} : cells[r][rt].shows > 0)
            <=> Others(results[r], field) # {}
      BY <1>1 DEF Others
    <3>3. QED
      BY <3>1, <3>2
  <2>2. QED
    BY <1>2, <2>1, HasBento DEF Counted
<1> HIDE DEF rows
<1>4. \A r \in rows :
        /\ r \in DOMAIN results /\ Shown(results[r].of[Bento], field)
        /\ Others(results[r], field) # {}
  BY <1>3 DEF Counted
<1>5. \A r \in rows :
        /\ cells[r][Bento].mark => results[r].of[Bento][field] <= BestOther(results[r], field)
        /\ ~cells[r][Bento].mark => BestOther(results[r], field) <= results[r].of[Bento][field]
  BY <1>1, <1>2, <1>4, MarkTells
<1>6. PICK B \in Nat \ {0}, A \in Nat \ {0} :
        /\ B = BentoSum(c, field) /\ A = BestSum(c, field)
        /\ (\A r \in rows : results[r].of[Bento][field] <= BestOther(results[r], field)) => B <= A
        /\ (\A r \in rows : BestOther(results[r], field) <= results[r].of[Bento][field]) => A <= B
  BY <1>3, LineOfCategory
<1>7. line.ratio = Printed(B, A) /\ line.reading \in {Reading(B, A), ComputeReading(B, A)}
  BY <1>6
<1>8. (\A r \in rows : cells[r][Bento].mark) => line.ratio <= 100 /\ line.reading # "slower"
  BY <1>5, <1>6, <1>7, Verdicts
<1>9. (\A r \in rows : ~cells[r][Bento].mark) => line.ratio >= 100
  BY <1>5, <1>6, <1>7, Verdicts
<1>10. line.ratio \in Band(line.reading)
  BY <1>7, Verdicts
<1>11. QED
  BY <1>8, <1>9, <1>10, Zenon DEF FollowsMarks, rows, cells

LEMMA PageVerdicts == PageInv => VerdictFollowsMarks
<1> SUFFICES ASSUME PageInv, NEW i \in DOMAIN page, NEW j \in DOMAIN page,
                    page[j].name \in Comparisons, page[i].name = FieldOf(page[j].name),
                    NEW c \in DOMAIN page[j].rows
             PROVE  FollowsMarks(page[i].cells, c, page[j].rows[c])
  BY DEF VerdictFollowsMarks, FollowsMarks
<1> DEFINE field == FieldOf(page[j].name)
           line  == page[j].rows[c]
<1>1. field \in Fields /\ field \in Marked
  BY DEF FieldOf, Fields, Marked
<1>2. page[j] = SpeedupSection(page[j].name) /\ page[i] = Table(field)
  BY <1>1 DEF PageInv, Fits
<1>3. /\ c \in Compared(field)
      /\ line.ratio = Printed(BentoSum(c, field), BestSum(c, field))
      /\ line.reading \in {Reading(BentoSum(c, field), BestSum(c, field)),
                           ComputeReading(BentoSum(c, field), BestSum(c, field))}
  BY <1>2 DEF SpeedupSection
<1>4. Counted(c, field) # {}
  BY <1>3 DEF Compared
<1> HIDE DEF field, line
<1>5. FollowsMarks(Table(field).cells, c, line)
  BY <1>1, <1>3, <1>4, LineFollows
<1>6. QED
  BY <1>2, <1>5 DEF line

-----------------------------------------------------------------------------
(* The theorems.                                                           *)

\* In every row one cell is marked when any shows a number, and no number of the
\* row is better (report.go:59-72, 179-224).
THEOREM TheMarksAreEarned == Spec => []MarksAreEarned
BY PageInductive, PageMarks, PTL

\* "fail" in one table of a page is "fail" in all that have a column for the
\* runtime, and a size on the page has a compile time on it
\* (report.go:87-137, 705-716).
THEOREM TheTablesAgree == Spec => []TablesAgree
BY PageInductive, PageAgrees, PTL

\* A page has no gap: its sections are those its results call for, in order, up
\* to the one that a failed write cut, with bento among the runtimes or without it
\* (report.go:12-31, 324, 456, 509, 813).
THEOREM ThePageHasNoGap == Spec => []PageHasNoGap
BY PageInductive, NoGap, PTL

\* A summary line is there for exactly the runtimes that succeeded in a row it
\* covers, is the median of those rows, and has the mark only if none is less
\* (report.go:365-394, 650-673, 735-783).
THEOREM TheSummariesAreMedians == Spec => []SummariesAreMedians
BY PageInductive, PageMedians, PTL

\* A category's ratio lies between the ratios of its rows (report.go:508-541,
\* 812-845).
THEOREM TheRatioIsBetweenRows == Spec => []RatioBetweenRows
BY PageInductive, PageRatios, PTL

\* The comparison agrees with the marks above it on the page, and its reading
\* with the ratio beside it (report.go:559-578, 859-876).
THEOREM TheVerdictFollowsMarks == Spec => []VerdictFollowsMarks
BY PageInductive, PageVerdicts, PTL
=============================================================================

------------------------------- MODULE Report -------------------------------
(***************************************************************************)
(* The report (pkg/bench/report.go): the text tables on stdout, then the   *)
(* Markdown summary, made of the results of one sweep.  A page is printed  *)
(* section by section through the printer, which drops everything after    *)
(* its first error.  Widths, headings and the wording of a value are left  *)
(* out: a cell is the number it shows.                                     *)
(*                                                                         *)
(* Summaries pass through Go maps, whose iteration order is arbitrary; a   *)
(* loop over one that keeps the least leaves any of the least.             *)
(***************************************************************************)
EXTENDS Slices, FiniteSetsExt

CONSTANTS
  Lists,         \* what the sweep may find: lists of runtimes, in its order
  Bento,         \* the runtime the others are compared with
  Categories,    \* the areas the workloads fall into
  Startup,       \* the category of the smallest programs
  Measurement(_),\* what measure may return for a runtime
  MaxRows,       \* bound: the rows of the results
  Sort(_)        \* slices.Sort

VARIABLES
  live,     \* the runtimes found by the sweep, those of every row
  results,  \* [cat, of]: a row and its measurements, by runtime
  target,   \* the page being printed: "none", "text" or "markdown"
  todo,     \* the sections of it that are still to come
  page,     \* what was printed of it
  err       \* printer.err

vars == <<live, results, target, todo, page, err>>

Names == UNION {{list[k] : k \in DOMAIN list} : list \in Lists}

\* runtimeOrder: bento is among them only if the sweep found it.
Runtimes == {live[k] : k \in DOMAIN live}

\* Zero is a number the run did not give: no rusage, no marker, no compile step.
\* A failed measurement has none (runner.go:270).
Fields == {"wall", "compute", "memory", "compile", "size"}

Zeros == [failed |-> TRUE, wall |-> 0, compute |-> 0, memory |-> 0,
          compile |-> 0, size |-> 0]

Measured == UNION {Measurement(rt) : rt \in Names}

Numbers == {m[field] : m \in Measured, field \in Fields}

ASSUME ReportAssumption ==
  /\ \A list \in Lists :
       /\ list \in Seq(Names)
       /\ \A i, j \in DOMAIN list : list[i] = list[j] => i = j
  /\ "nobody" \notin Names
  /\ Startup \in Categories
  /\ MaxRows \in Nat
  /\ \A rt \in Names : \A m \in Measurement(rt) :
       /\ \A field \in Fields : m[field] \in Nat
       /\ m.failed => m = Zeros
       /\ ~m.failed => m.wall > 0
       /\ m.size > 0 => m.compile > 0
  /\ \A n \in 0..MaxRows : \A s \in [1..n -> Numbers] : IsSorting(s, Sort(s), Numbers)

-----------------------------------------------------------------------------
(* The winner of a row.                                                    *)

Shown(m, field) == ~m.failed /\ m[field] > 0

Have(row, field) == {k \in DOMAIN live : Shown(row.of[live[k]], field)}

\* Mutant: a reading that is missing takes part.
LeastZeros(row, field) ==
  {k \in DOMAIN live : ~row.of[live[k]].failed /\
     \A j \in DOMAIN live :
       row.of[live[j]].failed \/ row.of[live[k]][field] <= row.of[live[j]][field]}

Least(row, field) ==
  {k \in Have(row, field) :
     \A j \in Have(row, field) : row.of[live[k]][field] <= row.of[live[j]][field]}

\* fastest, leanest and fastestCompute: the first of the least, if there is one.
IsBest(row, field, rt) ==
  /\ Least(row, field) # {}
  /\ rt = live[Min(Least(row, field))]

Fail == -1
None == 0   \* "n/a", and "-" in the compile table

Cell(row, field, rt) ==
  [shows |-> IF row.of[rt].failed THEN Fail ELSE row.of[rt][field],
   mark  |-> IsBest(row, field, rt)]

\* Mutant: only the first row is looked at.
AnyHasFirst(field) == results # <<>> /\ Have(results[1], field) # {}

AnyHas(field) == \E i \in DOMAIN results : Have(results[i], field) # {}

Table(field) ==
  [name  |-> field,
   cells |-> [i \in DOMAIN results |-> [rt \in Runtimes |-> Cell(results[i], field, rt)]]]

MemoryTable == Table("memory")

ComputeTable == Table("compute")

-----------------------------------------------------------------------------
(* A runtime's summary over several rows.                                  *)

\* The categories a summary ranges over: every one, or the startup workloads.
AtStartup == {Startup}

\* A runtime's numbers, by row.
Readings(field, rt) == [i \in DOMAIN results |-> results[i].of[rt][field]]

\* Mutant: the zeros of a failed run are readings.
ValuesAll(cats, field, rt) ==
  Kept(Readings(field, rt), Len(results), {i \in DOMAIN results : results[i].cat \in cats})

Values(cats, field, rt) ==
  Kept(Readings(field, rt), Len(results),
       {i \in DOMAIN results : results[i].cat \in cats /\ Shown(results[i].of[rt], field)})

Summary(cats, field, rt) == Percentile(Sort(Values(cats, field, rt)), Half)

\* The runtimes with a value to sum up.
Listed(cats, field) ==
  {rt \in Runtimes : \E i \in DOMAIN results :
     results[i].cat \in cats /\ Shown(results[i].of[rt], field)}

\* Mutant: whichever comes last.
WinnersAny(cats, field) ==
  IF Listed(cats, field) = {} THEN {"nobody"} ELSE Listed(cats, field)

\* What ranging over the map of summaries may leave as the least.
Winners(cats, field) ==
  LET least == {rt \in Listed(cats, field) : \A other \in Listed(cats, field) :
                  Summary(cats, field, rt) <= Summary(cats, field, other)}
  IN  IF least = {} THEN {"nobody"} ELSE least

Column(cats, field, who, winner) ==
  [rt \in who |-> [shows |-> Summary(cats, field, rt), mark |-> rt = winner]]

\* The text page marks no startup cost and no binary.
Mark(w) == IF target = "text" THEN "nobody" ELSE w

StartupSection(fast, lean) ==
  LET who == Listed(AtStartup, "wall")
  IN  [name    |-> "startup",
       columns |-> [wall   |-> Column(AtStartup, "wall", who, Mark(fast)),
                    memory |-> Column(AtStartup, "memory", who, Mark(lean))]]

SizeSection(smallest) ==
  [name    |-> "size",
   columns |-> [size |-> Column(Categories, "size", Listed(Categories, "size"), Mark(smallest))]]

\* The runtimes with a compile time in some row.
TwoPhase == {rt \in Runtimes : \E i \in DOMAIN results : results[i].of[rt].compile > 0}

\* Mutant: the cell of a failed measurement is left open.
CompileTextNoFail(m) == m.compile

\* "fail" wherever the measurement failed, in the compile or after it.
CompileText(m) == IF m.failed THEN Fail ELSE m.compile

CompileSection ==
  [name  |-> "compile",
   cells |-> [i \in DOMAIN results |-> [rt \in TwoPhase |->
                [shows |-> CompileText(results[i].of[rt]), mark |-> FALSE]]]]

-----------------------------------------------------------------------------
(* bento against the fastest other runtime, by category.                   *)

Others(row, field) == {rt \in Runtimes \ {Bento} : Shown(row.of[rt], field)}

\* Mutant: the slowest of the others.
BestOtherSlowest(row, field) == Max({row.of[rt][field] : rt \in Others(row, field)})

BestOther(row, field) == Min({row.of[rt][field] : rt \in Others(row, field)})

\* The rows with a measurement of bento that shows a number, and one beside it.
Counted(cat, field) ==
  {i \in DOMAIN results :
     /\ results[i].cat = cat
     /\ Bento \in DOMAIN results[i].of
     /\ Shown(results[i].of[Bento], field)
     /\ Others(results[i], field) # {}}

Compared(field) == {c \in Categories : Counted(c, field) # {}}

\* Mutant: bento's time is added before the row is known to count.
BentoSumAll(cat, field) ==
  Total([i \in DOMAIN results |->
           IF results[i].cat = cat THEN results[i].of[Bento][field] ELSE 0], Len(results))

BentoSum(cat, field) ==
  Total([i \in DOMAIN results |->
           IF i \in Counted(cat, field) THEN results[i].of[Bento][field] ELSE 0], Len(results))

BestSum(cat, field) ==
  Total([i \in DOMAIN results |->
           IF i \in Counted(cat, field) THEN BestOther(results[i], field) ELSE 0], Len(results))

\* %.2f, in hundredths.
Printed(b, a) == (200 * b + a) \div (2 * a)

\* The thresholds are those of the rationals.
Reading(b, a) ==
  CASE 100 * b <= 105 * a -> "on par or faster"
    [] 100 * b > 105 * a /\ b <= 2 * a -> "within 2x"
    [] b > 2 * a -> "slower"

ComputeReading(b, a) ==
  CASE 2 * b <= a -> "goal met"
    [] 2 * b > a /\ b < a -> "not yet 2x"
    [] a <= b /\ 100 * b <= 105 * a -> "on par"
    [] 100 * b > 105 * a -> "slower"

FieldOf(s) == IF s = "speedup wall" THEN "wall" ELSE "compute"

SpeedupSection(s) ==
  LET field == FieldOf(s)
      Line(b, a) ==
        [ratio   |-> Printed(b, a),
         reading |-> IF field = "wall" THEN Reading(b, a) ELSE ComputeReading(b, a)]
  IN  [name |-> s,
       rows |-> [c \in Compared(field) |-> Line(BentoSum(c, field), BestSum(c, field))]]

-----------------------------------------------------------------------------
(* The pages.                                                              *)

Sections(t) ==
  IF t = "text"
    THEN <<"wall", "memory", "compute", "startup", "size">>
    ELSE <<"wall", "compute", "memory", "startup", "compile", "size",
           "speedup wall", "speedup compute">>

Comparisons == {"speedup wall", "speedup compute"}

\* The sections that are there whatever the results are, or whose condition holds.
Due(s) ==
  CASE s \in {"wall", "memory"} -> TRUE
    [] s = "compute" -> AnyHas("compute")
    [] s = "startup" -> Listed(AtStartup, "wall") # {}
    [] s = "compile" -> TwoPhase # {}
    [] s = "size" -> Listed(Categories, "size") # {}
    [] s \in Comparisons ->
         /\ Bento \in Runtimes
         /\ s = "speedup compute" => AnyHas("compute")
         /\ Compared(FieldOf(s)) # {}

StartupTexts ==
  {StartupSection(fast, lean) :
     fast \in Winners(AtStartup, "wall"), lean \in Winners(AtStartup, "memory")}

SizeTexts == {SizeSection(w) : w \in Winners(Categories, "size")}

\* What a section may say.
Texts(s) ==
  CASE s = "wall" -> {Table("wall")}
    [] s = "memory" -> {MemoryTable}
    [] s = "compute" -> {ComputeTable}
    [] s = "startup" -> StartupTexts
    [] s = "compile" -> {CompileSection}
    [] s = "size" -> SizeTexts
    [] s \in Comparisons -> {SpeedupSection(s)}

Init ==
  /\ live \in Lists
  /\ results = <<>>
  /\ target = "none"
  /\ todo = <<>>
  /\ page = <<>>
  /\ err = FALSE

\* Run appends the row of a workload: a measurement of every runtime it found.
AddRow ==
  /\ target = "none" /\ Len(results) < MaxRows
  /\ \E c \in Categories, of \in [Runtimes -> Measured] :
       /\ \A rt \in Runtimes : of[rt] \in Measurement(rt)
       /\ results' = Append(results, [cat |-> c, of |-> of])
  /\ UNCHANGED <<live, target, todo, page, err>>

Begin(t) ==
  /\ target' = t
  /\ todo' = Sections(t)
  /\ page' = <<>>
  /\ err' = FALSE
  /\ UNCHANGED <<live, results>>

\* main calls WriteReport when Run returns, with a row for every workload.
WriteReport == target = "none" /\ results # <<>> /\ Begin("text")

\* and WriteMarkdown when the report is out.
WriteMarkdown == target = "text" /\ todo = <<>> /\ ~err /\ Begin("markdown")

Next1 == Head(todo)

\* Mutant: a line is written although one before it was not.
PrintOn ==
  /\ todo # <<>> /\ Due(Next1)
  /\ \E text \in Texts(Next1) : page' = Append(page, text)
  /\ todo' = Tail(todo)
  /\ UNCHANGED <<live, results, target, err>>

\* Every line of the next section is written.
PrintSection ==
  /\ todo # <<>> /\ ~err /\ Due(Next1)
  /\ \E text \in Texts(Next1) : page' = Append(page, text)
  /\ todo' = Tail(todo)
  /\ UNCHANGED <<live, results, target, err>>

\* The writer fails on one of its lines.
WriteFails ==
  /\ todo # <<>> /\ ~err /\ Due(Next1)
  /\ page' = Append(page, [name |-> "cut"])
  /\ err' = TRUE
  /\ todo' = Tail(todo)
  /\ UNCHANGED <<live, results, target>>

\* The section is left out, or the printer remembers an error.
SkipSection ==
  /\ todo # <<>> /\ (err \/ ~Due(Next1))
  /\ todo' = Tail(todo)
  /\ UNCHANGED <<live, results, target, page, err>>

Next ==
  \/ AddRow \/ WriteReport \/ WriteMarkdown
  \/ PrintSection \/ WriteFails \/ SkipSection

Spec == Init /\ [][Next]_vars

-----------------------------------------------------------------------------
(* Properties.                                                             *)

With(rt, field, cats) ==
  {r \in DOMAIN results : results[r].cat \in cats /\ results[r].of[rt][field] > 0}

Has(field, cats) == \E rt \in Runtimes : With(rt, field, cats) # {}

\* What the results call for: the two tables that are always there, any other
\* table or summary once there is a number for it, and a comparison once bento is
\* there and has a number in a row where another runtime has one.
CalledFor(s) ==
  CASE s \in {"wall", "memory"} -> TRUE
    [] s = "startup" -> Has("wall", AtStartup)
    [] s \in {"compute", "compile", "size"} -> Has(s, Categories)
    [] s \in Comparisons ->
         /\ Bento \in Runtimes
         /\ \E rt \in Runtimes \ {Bento} :
              With(Bento, FieldOf(s), Categories) \cap With(rt, FieldOf(s), Categories) # {}

\* A page holds the sections its results call for, in order and whole, up to the
\* one a failed write cut; after that nothing more is printed, and the error is
\* kept for main. Without bento, skipped or not installed, it has no comparison,
\* and all else (report.go:12-31, 324, 456, 509, 813).
PageHasNoGap ==
  target # "none" =>
    LET all == Sections(target)
        due == Kept(all, Len(all) - Len(todo), {k \in DOMAIN all : CalledFor(all[k])})
    IN  /\ Len(page) <= Len(due)
        /\ ~err => Len(page) = Len(due)
        /\ \A i \in DOMAIN page :
             page[i].name = (IF err /\ i = Len(page) THEN "cut" ELSE due[i])

\* In every row of every table one cell is marked when any shows a number, and
\* none in a row without numbers; the mark is on a number, and no number of the
\* row is better (report.go:59-72, 179-224).
MarksAreEarned ==
  \A i \in DOMAIN page : page[i].name \in {"wall", "compute", "memory"} =>
    \A r \in DOMAIN results :
      LET cells   == page[i].cells[r]
          numbers == {rt \in Runtimes : cells[rt].shows > 0}
          marked  == {rt \in Runtimes : cells[rt].mark}
      IN  /\ Cardinality(marked) = IF numbers = {} THEN 0 ELSE 1
          /\ marked \subseteq numbers
          /\ \A w \in marked, rt \in numbers : cells[w].shows <= cells[rt].shows

\* The tables of a page tell one story: where a runtime has "fail" in one of them
\* it has it in all that have a column for it, and a runtime whose binary has a
\* size has its compile time shown. So the compile table says "fail" also when the
\* compile was good and the run after it was not (runner.go:253, report.go:705-716).
TablesAgree ==
  \A i, j \in DOMAIN page :
    /\ {page[i].name, page[j].name} \subseteq {"wall", "compute", "memory", "compile"} =>
         \A r \in DOMAIN results :
           \A rt \in DOMAIN page[i].cells[r] \cap DOMAIN page[j].cells[r] :
             page[i].cells[r][rt].shows = Fail <=> page[j].cells[r][rt].shows = Fail
    /\ page[i].name = "compile" /\ page[j].name = "size" =>
         \A rt \in DOMAIN page[j].columns.size : \E r \in DOMAIN results :
           rt \in DOMAIN page[i].cells[r] /\ page[i].cells[r][rt].shows > 0

Covers(column, rt, field, cats) ==
  LET n == column[rt].shows
      all == With(rt, field, cats)
      upTo == {r \in all : results[r].of[rt][field] <= n}
      under == {r \in all : results[r].of[rt][field] < n}
  IN  /\ n > 0 <=> all # {}
      /\ n > 0 => /\ 2 * Cardinality(upTo) >= Cardinality(all)
                  /\ 2 * Cardinality(under) < Cardinality(all)
      /\ column[rt].mark =>
           n > 0 /\ \A any \in DOMAIN column : column[any].shows > 0 => n <= column[any].shows

\* A summary line is there for exactly the runtimes that succeeded in a row it
\* covers; it is the nearest-rank median of the numbers of those rows, and a failed
\* run or a missing number has no part in it. The mark is on one of the least of
\* the medians, in whatever order the map is ranged over, and never on a missing
\* number (report.go:365-394, 650-673, 735-783).
SummariesAreMedians ==
  \A i \in DOMAIN page :
    /\ page[i].name = "startup" =>
         /\ DOMAIN page[i].columns.wall =
              {rt \in Runtimes : With(rt, "wall", AtStartup) # {}}
         /\ \A field \in {"wall", "memory"}, rt \in DOMAIN page[i].columns.wall :
              Covers(page[i].columns[field], rt, field, AtStartup)
    /\ page[i].name = "size" =>
         /\ DOMAIN page[i].columns.size =
              {rt \in Runtimes : With(rt, "size", Categories) # {}}
         /\ \A rt \in DOMAIN page[i].columns.size :
              Covers(page[i].columns.size, rt, "size", Categories)

\* A category's ratio lies between the ratios of its rows, each against the
\* fastest other runtime of that row: no row where one side has no number bends
\* it, and every category with a comparable row has a line
\* (report.go:508-541, 812-845).
RatioBetweenRows ==
  \A i \in DOMAIN page : page[i].name \in Comparisons =>
    LET field == FieldOf(page[i].name)
        Theirs(r) == {results[r].of[rt][field] : rt \in Runtimes \ {Bento}} \ {0}
        Rows(c) == {r \in DOMAIN results :
                      /\ results[r].cat = c
                      /\ Bento \in Runtimes /\ results[r].of[Bento][field] > 0
                      /\ Theirs(r) # {}}
        Ratio(r) == Printed(results[r].of[Bento][field], Min(Theirs(r)))
    IN  /\ DOMAIN page[i].rows = {c \in Categories : Rows(c) # {}}
        /\ \A c \in DOMAIN page[i].rows :
             \E lo, hi \in Rows(c) :
               Ratio(lo) <= page[i].rows[c].ratio /\ page[i].rows[c].ratio <= Ratio(hi)

\* The ratios, as printed, that a reading may stand beside: neighbours share their
\* bound, as a ratio is rounded for print and not for its reading.
Band(reading) ==
  CASE reading = "goal met" -> 0..50
    [] reading = "not yet 2x" -> 50..100
    [] reading = "on par" -> 100..105
    [] reading = "on par or faster" -> 0..105
    [] reading = "within 2x" -> 105..200
    [] reading = "slower" -> {n \in Nat : n >= 105}

\* The comparison agrees with the marks above it on the page: where bento has
\* the mark in every row that counts its ratio is at most 1.00x and it is not
\* called slower, and where it has none the ratio is at least 1.00x. The reading
\* is that of the printed ratio but at the threshold itself (report.go:559-578,
\* 859-876).
VerdictFollowsMarks ==
  \A i, j \in DOMAIN page :
    page[j].name \in Comparisons /\ page[i].name = FieldOf(page[j].name) =>
      \A c \in DOMAIN page[j].rows :
        LET cells == page[i].cells
            rows  == {r \in DOMAIN results :
                        /\ results[r].cat = c /\ cells[r][Bento].shows > 0
                        /\ \E rt \in Runtimes \ {Bento} : cells[r][rt].shows > 0}
            line  == page[j].rows[c]
        IN  /\ (\A r \in rows : cells[r][Bento].mark) =>
                 line.ratio <= 100 /\ line.reading # "slower"
            /\ (\A r \in rows : ~cells[r][Bento].mark) => line.ratio >= 100
            /\ line.ratio \in Band(line.reading)
=============================================================================

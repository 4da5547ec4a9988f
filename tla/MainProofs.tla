----------------------------- MODULE MainProofs -----------------------------
(***************************************************************************)
(* The exit code and the two files, for any paths and any number of starts *)
(* and kills.                                                              *)
(***************************************************************************)
EXTENDS Main, TLAPS

-----------------------------------------------------------------------------
(* The inductive invariant, part by part.                                  *)

AskedJSON == flags.json # NoPath
AskedMD == flags.md # NoPath

\* Nothing of this start is on the disk before the report is out.
EarlyInv ==
  /\ pc \in {"flags", "discover", "goldens", "run", "report"} =>
       file = before /\ report = "none"
  /\ pc \in {"json", "json write", "json close", "md", "md write", "md close"} =>
       report = "all"
  /\ file # before => report = "all"

\* The results of a start have its number, so those on the disk are older.
OlderInv ==
  /\ starts = 0 => pc = "off" /\ \A p \in Paths : file[p] = Absent
  /\ starts > 0 => \A p \in Paths : before[p].of < starts
  /\ \A p \in Paths : file[p].of <= starts
  /\ pc \in {"json", "json write", "json close", "md"} =>
       \A p \in Paths : file[p] # Own("markdown")

\* What is asked for is there as soon as the step that writes it is over.
WrittenInv ==
  /\ pc \in {"json write", "json close"} => AskedJSON
  /\ pc = "json close" => file[flags.json] = Own("json")
  /\ pc = "md" /\ AskedJSON /\ ~lost => file[flags.json] = Own("json")
  /\ pc \in {"md write", "md close"} =>
       /\ AskedMD
       /\ AskedJSON /\ ~lost /\ ~SamePath => file[flags.json] = Own("json")
  /\ pc = "md close" => file[flags.md] = Own("markdown")
  /\ pc \in Steps => code = 0

IInv ==
  /\ TypeOK /\ EarlyInv /\ OlderInv /\ WrittenInv
  /\ ExitZeroMeansWritten /\ SummaryHasItsRecord

-----------------------------------------------------------------------------
(* The steps.                                                              *)

LEMMA ContentsAre ==
  /\ Absent \in Contents /\ Absent.of = 0
  /\ Torn \in Contents /\ Torn.of = 0
  /\ \A c \in Contents : c.of \in Nat
  /\ starts \in 0..MaxStarts =>
       /\ Own("json").of = starts /\ Own("markdown").of = starts
       /\ starts > 0 => Own("json") \in Contents /\ Own("markdown") \in Contents
  /\ Torn # Own("json") /\ Torn # Own("markdown") /\ Own("json") # Own("markdown")
<1>1. Absent \in Contents /\ Torn \in Contents
  BY DEF Contents
<1>2. Absent.of = 0 /\ Torn.of = 0
  BY DEF Absent, Torn
<1>3. \A c \in Contents : c.of \in Nat
  <2>1. \A c \in [kind : {"json", "markdown"}, of : 1..MaxStarts] : c.of \in Nat
    BY MainAssumption
  <2>2. QED
    BY <1>2, <2>1 DEF Contents
<1>4. ASSUME starts \in 0..MaxStarts
      PROVE  /\ Own("json").of = starts /\ Own("markdown").of = starts
             /\ starts > 0 => Own("json") \in Contents /\ Own("markdown") \in Contents
  BY <1>4, MainAssumption DEF Own, Contents
<1>5. Torn # Own("json") /\ Torn # Own("markdown") /\ Own("json") # Own("markdown")
  <2>1. /\ Torn.kind = "torn"
        /\ Own("json").kind = "json"
        /\ Own("markdown").kind = "markdown"
    BY DEF Torn, Own
  <2>2. QED
    BY <2>1
<1>6. QED
  BY <1>1, <1>2, <1>3, <1>4, <1>5

LEMMA MainInit == Init => IInv
<1> SUFFICES ASSUME Init PROVE IInv
  OBVIOUS
<1>1. TypeOK
  <2>1. flags \in Flags
    BY DEF Init, Flags
  <2>2. file \in [Paths -> Contents] /\ before \in [Paths -> Contents]
    BY ContentsAre DEF Init
  <2>3. starts \in 0..MaxStarts
    BY MainAssumption DEF Init
  <2>4. QED
    BY <2>1, <2>2, <2>3 DEF Init, TypeOK
<1>2. EarlyInv /\ WrittenInv
  BY DEF Init, EarlyInv, WrittenInv, Steps
<1>3. OlderInv
  BY ContentsAre DEF Init, OlderInv
<1>4. ExitZeroMeansWritten /\ SummaryHasItsRecord
  BY DEF Init, ExitZeroMeansWritten, SummaryHasItsRecord
<1>5. QED
  BY <1>1, <1>2, <1>3, <1>4 DEF IInv

LEMMA TypeStep == IInv /\ [Next]_vars => TypeOK'
<1> SUFFICES ASSUME IInv, [Next]_vars PROVE TypeOK'
  OBVIOUS
<1> USE MainAssumption
<1>1. CASE Start
  <2>1. starts' \in 0..MaxStarts
    BY <1>1 DEF Start, IInv, TypeOK
  <2>2. QED
    BY <1>1, <2>1 DEF Start, IInv, TypeOK, Steps
<1>2. CASE ParseFlags \/ Discover \/ RefreshGoldens \/ RunSweep
  BY <1>2 DEF ParseFlags, Discover, RefreshGoldens, RunSweep, Goto, Exit, session,
              IInv, TypeOK, Steps
<1>3. CASE WriteReport
  BY <1>3 DEF WriteReport, Goto, Exit, session, IInv, TypeOK, Steps
<1>a. /\ Torn \in Contents
      /\ starts > 0 => Own("json") \in Contents /\ Own("markdown") \in Contents
  BY ContentsAre DEF IInv, TypeOK
<1>b. pc # "off" => starts > 0
  <2>1. starts \in Nat
    BY DEF IInv, TypeOK
  <2>2. starts = 0 => pc = "off"
    BY DEF IInv, OlderInv
  <2>3. QED
    BY <2>1, <2>2
<1>4. CASE CreateJSON
  BY <1>4, <1>a DEF CreateJSON, Goto, Exit, session, IInv, TypeOK, Steps
<1>5. CASE EncodeJSON
  BY <1>5, <1>a, <1>b DEF EncodeJSON, Goto, Exit, session, IInv, TypeOK, Steps
<1>6. CASE CloseJSON
  BY <1>6, <1>a DEF CloseJSON, Goto, session, IInv, TypeOK, Steps
<1>7. CASE CreateMarkdown
  BY <1>7, <1>a DEF CreateMarkdown, Goto, Exit, session, IInv, TypeOK, Steps
<1>8. CASE WriteMarkdown
  BY <1>8, <1>a, <1>b DEF WriteMarkdown, Goto, Exit, session, IInv, TypeOK, Steps
<1>9. CASE CloseMarkdown
  BY <1>9, <1>a DEF CloseMarkdown, Exit, session, IInv, TypeOK, Steps
<1>10. CASE Kill
  BY <1>10 DEF Kill, session, IInv, TypeOK, Steps
<1>11. CASE UNCHANGED vars
  BY <1>11 DEF vars, IInv, TypeOK
<1>12. QED
  BY <1>1, <1>2, <1>3, <1>4, <1>5, <1>6, <1>7, <1>8, <1>9, <1>10, <1>11 DEF Next, Step

\* What the parts say together, and what they are about.
MainInv == EarlyInv /\ OlderInv /\ WrittenInv /\ ExitZeroMeansWritten /\ SummaryHasItsRecord

LEMMA MainStep == IInv /\ [Next]_vars => MainInv'
<1> SUFFICES ASSUME IInv, [Next]_vars PROVE MainInv'
  OBVIOUS
<1> USE MainAssumption
<1>a. TypeOK /\ TypeOK' /\ MainInv
  BY TypeStep DEF IInv, MainInv
<1>b. \A p \in Paths : file[p].of \in Nat /\ before[p].of \in Nat
  BY <1>a, ContentsAre DEF TypeOK
<1>c. /\ Torn # Own("json") /\ Torn # Own("markdown") /\ Own("json") # Own("markdown")
      /\ Own("json").of = starts /\ Own("markdown").of = starts /\ Torn.of = 0
      /\ starts \in Nat /\ flags \in Flags
  BY <1>a, ContentsAre DEF TypeOK
<1>1. CASE Start
  <2>1. EarlyInv' /\ WrittenInv'
    BY <1>1 DEF Start, EarlyInv, WrittenInv, Steps
  <2>2. /\ starts' = starts + 1 /\ file' = file /\ before' = file /\ pc' = "flags"
        /\ starts' \in Nat
    BY <1>1, <1>c DEF Start
  <2>3. OlderInv'
    <3>1. \A p \in Paths : file[p].of <= starts /\ file[p].of \in Nat
      BY <1>a, <1>b DEF MainInv, OlderInv
    <3>2. \A p \in Paths : file[p].of < starts + 1
      BY <3>1, <1>c
    <3>3. \A p \in Paths : file'[p].of <= starts' /\ before'[p].of < starts'
      BY <2>2, <3>1, <3>2, <1>c
    <3>4. starts' # 0
      BY <2>2, <1>c
    <3>5. QED
      BY <2>2, <3>3, <3>4 DEF OlderInv
  <2>4. ExitZeroMeansWritten'
    BY <2>2 DEF ExitZeroMeansWritten
  <2>5. SummaryHasItsRecord'
    <3>1. Own("markdown")'.of = starts + 1
      BY <2>2 DEF Own
    <3>2. \A p \in Paths : file'[p] # Own("markdown")'
      <4>1. \A p \in Paths : file[p].of <= starts /\ file[p].of \in Nat
        BY <1>a, <1>b DEF MainInv, OlderInv
      <4>2. \A p \in Paths : file[p].of # starts + 1
        BY <4>1, <1>c
      <4>3. QED
        BY <2>2, <3>1, <4>2
    <3>3. QED
      BY <3>2, <1>a DEF SummaryHasItsRecord, TypeOK, Flags
  <2>6. QED
    BY <2>1, <2>3, <2>4, <2>5 DEF MainInv
<1>2. CASE ParseFlags \/ Discover \/ RefreshGoldens \/ RunSweep \/ WriteReport
  <2>1. EarlyInv' /\ WrittenInv'
    BY <1>2, <1>a DEF MainInv, ParseFlags, Discover, RefreshGoldens, RunSweep, WriteReport,
       Goto, Exit, session, EarlyInv, WrittenInv, Steps
  <2>2. UNCHANGED <<file, starts, before, flags, lost>> /\ pc # "off"
    BY <1>2 DEF ParseFlags, Discover, RefreshGoldens, RunSweep, WriteReport, session
  <2>3. OlderInv'
    <3>1. pc' = "json" => \A p \in Paths : file[p] # Own("markdown")
      BY <1>2, <1>a, <1>b, <1>c DEF MainInv, ParseFlags, Discover, RefreshGoldens, RunSweep,
         WriteReport, Goto, Exit, EarlyInv, OlderInv
    <3>2. pc' \notin {"json write", "json close", "md", "off"}
      BY <1>2 DEF ParseFlags, Discover, RefreshGoldens, RunSweep, WriteReport, Goto, Exit
    <3>3. QED
      BY <2>2, <3>1, <3>2, <1>a DEF MainInv, OlderInv, Own
  <2>4. ExitZeroMeansWritten' /\ SummaryHasItsRecord'
    BY <1>2, <2>2, <1>a DEF MainInv, ParseFlags, Discover, RefreshGoldens, RunSweep,
       WriteReport, Goto, Exit, ExitZeroMeansWritten, SummaryHasItsRecord, SamePath, Own
  <2>5. QED
    BY <2>1, <2>3, <2>4 DEF MainInv
<1>d. ASSUME UNCHANGED session
      PROVE  /\ flags' = flags /\ starts' = starts /\ before' = before
             /\ Own("json")' = Own("json") /\ Own("markdown")' = Own("markdown")
  BY <1>d DEF session, Own
<1>e. flags.json \in Paths \cup {NoPath} /\ flags.md \in Paths \cup {NoPath}
  BY <1>c DEF Flags
<1>f. starts = 0 => pc = "off"
  BY <1>a DEF MainInv, OlderInv
<1>g. /\ \A p \in Paths : file[p].of <= starts
      /\ starts > 0 => \A p \in Paths : before[p].of < starts
  BY <1>a DEF MainInv, OlderInv
<1>h. pc \in {"json", "json write", "json close", "md"} =>
        \A p \in Paths : file[p] # Own("markdown")
  BY <1>a DEF MainInv, OlderInv
<1>3. CASE CreateJSON
  <2>1. UNCHANGED <<session, report>> /\ pc # "off" /\ pc' # "off"
    BY <1>3 DEF CreateJSON, Goto, Exit
  <2>2. /\ flags' = flags /\ starts' = starts /\ before' = before
        /\ Own("json")' = Own("json") /\ Own("markdown")' = Own("markdown")
    BY <1>d, <2>1
  <2>3. \/ file' = file
        \/ \A p \in Paths : file'[p] = IF p = flags.json THEN Torn ELSE file[p]
    BY <1>3, <1>a DEF CreateJSON, TypeOK
  <2>4. EarlyInv'
    BY <1>3, <1>a, <2>1 DEF MainInv, CreateJSON, Goto, Exit, session, EarlyInv
  <2>5. OlderInv'
    <3>1. \A p \in Paths : file'[p].of <= starts
      BY <1>c, <1>g, <2>3
    <3>2. pc' \in {"json", "json write", "json close", "md"} =>
            \A p \in Paths : file'[p] # Own("markdown")
      BY <1>3, <1>c, <1>h, <2>3 DEF CreateJSON, Goto, Exit
    <3>3. QED
      BY <1>f, <1>g, <2>1, <2>2, <3>1, <3>2 DEF OlderInv
  <2>6. WrittenInv'
    BY <1>3, <1>a, <1>c, <1>e, <2>2 DEF MainInv, CreateJSON, Goto, Exit, TypeOK, WrittenInv,
       AskedJSON, AskedMD, SamePath, Steps
  <2>7. ExitZeroMeansWritten'
    BY <1>3 DEF CreateJSON, Goto, Exit, ExitZeroMeansWritten
  <2>8. SummaryHasItsRecord'
    BY <1>3, <1>a, <1>c, <1>e, <1>f, <1>h, <2>2, <2>3 DEF MainInv, CreateJSON, Goto, Exit,
       WrittenInv, AskedJSON, AskedMD, SamePath, SummaryHasItsRecord
  <2>9. QED
    BY <2>4, <2>5, <2>6, <2>7, <2>8 DEF MainInv
<1>4. CASE EncodeJSON
  <2>1. UNCHANGED <<session, report>> /\ pc # "off" /\ pc' # "off"
    BY <1>4 DEF EncodeJSON, Goto, Exit
  <2>2. /\ flags' = flags /\ starts' = starts /\ before' = before
        /\ Own("json")' = Own("json") /\ Own("markdown")' = Own("markdown")
    BY <1>d, <2>1
  <2>3. \/ file' = file
        \/ \A p \in Paths : file'[p] = IF p = flags.json THEN Own("json") ELSE file[p]
    BY <1>4, <1>a DEF EncodeJSON, TypeOK
  <2>4. EarlyInv'
    BY <1>4, <1>a, <2>1 DEF MainInv, EncodeJSON, Goto, Exit, session, EarlyInv
  <2>5. OlderInv'
    <3>1. \A p \in Paths : file'[p].of <= starts
      BY <1>c, <1>g, <2>3
    <3>2. pc' \in {"json", "json write", "json close", "md"} =>
            \A p \in Paths : file'[p] # Own("markdown")
      BY <1>4, <1>c, <1>h, <2>3 DEF EncodeJSON, Goto, Exit
    <3>3. QED
      BY <1>f, <1>g, <2>1, <2>2, <3>1, <3>2 DEF OlderInv
  <2>6. WrittenInv'
    BY <1>4, <1>a, <1>c, <1>e, <2>2 DEF MainInv, EncodeJSON, Goto, Exit, TypeOK, WrittenInv,
       AskedJSON, AskedMD, SamePath, Steps
  <2>7. ExitZeroMeansWritten'
    <3>1. pc' # "exited" \/ code' = 2
      BY <1>4 DEF EncodeJSON, Goto, Exit
    <3>2. QED
      BY <3>1 DEF ExitZeroMeansWritten
  <2>8. SummaryHasItsRecord'
    BY <1>4, <1>a, <1>c, <1>e, <1>f, <1>h, <2>2, <2>3 DEF MainInv, EncodeJSON, Goto, Exit,
       WrittenInv, AskedJSON, AskedMD, SamePath, SummaryHasItsRecord
  <2>9. QED
    BY <2>4, <2>5, <2>6, <2>7, <2>8 DEF MainInv
<1>5. CASE CloseJSON
  <2>1. UNCHANGED <<session, report>> /\ pc # "off" /\ pc' # "off"
    BY <1>5 DEF CloseJSON, Goto
  <2>2. /\ flags' = flags /\ starts' = starts /\ before' = before
        /\ Own("json")' = Own("json") /\ Own("markdown")' = Own("markdown")
    BY <1>d, <2>1
  <2>3. \/ file' = file
        \/ \A p \in Paths : file'[p] = IF p = flags.json THEN Torn ELSE file[p]
    BY <1>5, <1>a DEF CloseJSON, TypeOK
  <2>4. EarlyInv'
    BY <1>5, <1>a, <2>1 DEF MainInv, CloseJSON, Goto, session, EarlyInv
  <2>5. OlderInv'
    <3>1. \A p \in Paths : file'[p].of <= starts
      BY <1>c, <1>g, <2>3
    <3>2. pc' \in {"json", "json write", "json close", "md"} =>
            \A p \in Paths : file'[p] # Own("markdown")
      BY <1>5, <1>c, <1>h, <2>3 DEF CloseJSON, Goto
    <3>3. QED
      BY <1>f, <1>g, <2>1, <2>2, <3>1, <3>2 DEF OlderInv
  <2>6. WrittenInv'
    BY <1>5, <1>a, <1>c, <1>e, <2>2 DEF MainInv, CloseJSON, Goto, TypeOK, WrittenInv,
       AskedJSON, AskedMD, SamePath, Steps
  <2>7. ExitZeroMeansWritten'
    BY <1>5 DEF CloseJSON, Goto, ExitZeroMeansWritten
  <2>8. SummaryHasItsRecord'
    BY <1>5, <1>a, <1>c, <1>e, <1>f, <1>h, <2>2, <2>3 DEF MainInv, CloseJSON, Goto,
       WrittenInv, AskedJSON, AskedMD, SamePath, SummaryHasItsRecord
  <2>9. QED
    BY <2>4, <2>5, <2>6, <2>7, <2>8 DEF MainInv
<1>6. CASE CreateMarkdown
  <2>1. UNCHANGED <<session, report>> /\ pc # "off" /\ pc' # "off"
    BY <1>6 DEF CreateMarkdown, Goto, Exit
  <2>2. /\ flags' = flags /\ starts' = starts /\ before' = before
        /\ Own("json")' = Own("json") /\ Own("markdown")' = Own("markdown")
    BY <1>d, <2>1
  <2>3. \/ file' = file
        \/ \A p \in Paths : file'[p] = IF p = flags.md THEN Torn ELSE file[p]
    BY <1>6, <1>a DEF CreateMarkdown, TypeOK
  <2>4. EarlyInv'
    BY <1>6, <1>a, <2>1 DEF MainInv, CreateMarkdown, Goto, Exit, session, EarlyInv
  <2>5. OlderInv'
    <3>1. \A p \in Paths : file'[p].of <= starts
      BY <1>c, <1>g, <2>3
    <3>2. pc' \in {"json", "json write", "json close", "md"} =>
            \A p \in Paths : file'[p] # Own("markdown")
      BY <1>6, <1>c, <1>h, <2>3 DEF CreateMarkdown, Goto, Exit
    <3>3. QED
      BY <1>f, <1>g, <2>1, <2>2, <3>1, <3>2 DEF OlderInv
  <2>6. WrittenInv'
    BY <1>6, <1>a, <1>c, <1>e, <2>2 DEF MainInv, CreateMarkdown, Goto, Exit, TypeOK, WrittenInv,
       AskedJSON, AskedMD, SamePath, Steps
  <2>7. ExitZeroMeansWritten'
    BY <1>6, <1>a, <1>e, <2>1, <2>2 DEF MainInv, CreateMarkdown, Goto, Exit, EarlyInv, WrittenInv,
       AskedJSON, SamePath, ExitZeroMeansWritten
  <2>8. SummaryHasItsRecord'
    BY <1>6, <1>a, <1>c, <1>e, <1>f, <1>h, <2>2, <2>3 DEF MainInv, CreateMarkdown, Goto, Exit,
       WrittenInv, AskedJSON, AskedMD, SamePath, SummaryHasItsRecord
  <2>9. QED
    BY <2>4, <2>5, <2>6, <2>7, <2>8 DEF MainInv
<1>7. CASE WriteMarkdown
  <2>1. UNCHANGED <<session, report>> /\ pc # "off" /\ pc' # "off"
    BY <1>7 DEF WriteMarkdown, Goto, Exit
  <2>2. /\ flags' = flags /\ starts' = starts /\ before' = before
        /\ Own("json")' = Own("json") /\ Own("markdown")' = Own("markdown")
    BY <1>d, <2>1
  <2>3. \/ file' = file
        \/ \A p \in Paths : file'[p] = IF p = flags.md THEN Own("markdown") ELSE file[p]
    BY <1>7, <1>a DEF WriteMarkdown, TypeOK
  <2>4. EarlyInv'
    BY <1>7, <1>a, <2>1 DEF MainInv, WriteMarkdown, Goto, Exit, session, EarlyInv
  <2>5. OlderInv'
    <3>1. \A p \in Paths : file'[p].of <= starts
      BY <1>c, <1>g, <2>3
    <3>2. pc' \in {"json", "json write", "json close", "md"} =>
            \A p \in Paths : file'[p] # Own("markdown")
      BY <1>7, <1>c, <1>h, <2>3 DEF WriteMarkdown, Goto, Exit
    <3>3. QED
      BY <1>f, <1>g, <2>1, <2>2, <3>1, <3>2 DEF OlderInv
  <2>6. WrittenInv'
    BY <1>7, <1>a, <1>c, <1>e, <2>2 DEF MainInv, WriteMarkdown, Goto, Exit, TypeOK, WrittenInv,
       AskedJSON, AskedMD, SamePath, Steps
  <2>7. ExitZeroMeansWritten'
    <3>1. pc' # "exited" \/ code' = 2
      BY <1>7 DEF WriteMarkdown, Goto, Exit
    <3>2. QED
      BY <3>1 DEF ExitZeroMeansWritten
  <2>8. SummaryHasItsRecord'
    BY <1>7, <1>a, <1>c, <1>e, <1>f, <1>h, <2>2, <2>3 DEF MainInv, WriteMarkdown, Goto, Exit,
       WrittenInv, AskedJSON, AskedMD, SamePath, SummaryHasItsRecord
  <2>9. QED
    BY <2>4, <2>5, <2>6, <2>7, <2>8 DEF MainInv
<1>8. CASE CloseMarkdown
  <2>1. UNCHANGED <<session, report>> /\ pc # "off" /\ pc' # "off"
    BY <1>8 DEF CloseMarkdown, Exit
  <2>2. /\ flags' = flags /\ starts' = starts /\ before' = before
        /\ Own("json")' = Own("json") /\ Own("markdown")' = Own("markdown")
    BY <1>d, <2>1
  <2>3. \/ file' = file
        \/ \A p \in Paths : file'[p] = IF p = flags.md THEN Torn ELSE file[p]
    BY <1>8, <1>a DEF CloseMarkdown, TypeOK
  <2>4. EarlyInv'
    BY <1>8, <1>a, <2>1 DEF MainInv, CloseMarkdown, Exit, session, EarlyInv
  <2>5. OlderInv'
    <3>1. \A p \in Paths : file'[p].of <= starts
      BY <1>c, <1>g, <2>3
    <3>2. pc' \in {"json", "json write", "json close", "md"} =>
            \A p \in Paths : file'[p] # Own("markdown")
      BY <1>8, <1>c, <1>h, <2>3 DEF CloseMarkdown, Exit
    <3>3. QED
      BY <1>f, <1>g, <2>1, <2>2, <3>1, <3>2 DEF OlderInv
  <2>6. WrittenInv'
    BY <1>8, <1>a, <1>c, <1>e, <2>2 DEF MainInv, CloseMarkdown, Exit, TypeOK, WrittenInv,
       AskedJSON, AskedMD, SamePath, Steps
  <2>7. ExitZeroMeansWritten'
    <3>1. /\ AskedMD /\ report = "all" /\ file[flags.md] = Own("markdown")
          /\ AskedJSON /\ ~lost /\ ~SamePath => file[flags.json] = Own("json")
      BY <1>8, <1>a DEF CloseMarkdown, MainInv, EarlyInv, WrittenInv
    <3>2. lost' = lost /\ report' = report
      BY <1>8 DEF CloseMarkdown
    <3>3. code' = 2 \/ file' = file
      BY <1>8 DEF CloseMarkdown, Exit
    <3>4. QED
      BY <2>2, <3>1, <3>2, <3>3 DEF AskedJSON, AskedMD, SamePath, ExitZeroMeansWritten
  <2>8. SummaryHasItsRecord'
    BY <1>8, <1>a, <1>c, <1>e, <1>f, <1>h, <2>2, <2>3 DEF MainInv, CloseMarkdown, Exit,
       WrittenInv, AskedJSON, AskedMD, SamePath, SummaryHasItsRecord
  <2>9. QED
    BY <2>4, <2>5, <2>6, <2>7, <2>8 DEF MainInv
<1>9. CASE Kill
  BY <1>9, <1>a DEF MainInv, Kill, session, EarlyInv, OlderInv, WrittenInv, Steps, Own,
     ExitZeroMeansWritten, SummaryHasItsRecord, SamePath
<1>10. CASE UNCHANGED vars
  BY <1>10, <1>a DEF vars, MainInv, EarlyInv, OlderInv, WrittenInv, Own, AskedJSON, AskedMD,
     ExitZeroMeansWritten, SummaryHasItsRecord, SamePath
<1>11. QED
  BY <1>1, <1>2, <1>3, <1>4, <1>5, <1>6, <1>7, <1>8, <1>9, <1>10 DEF Next, Step

-----------------------------------------------------------------------------
(* The theorems.                                                           *)

LEMMA MainInductive == Spec => []IInv
<1>1. Init => IInv
  BY MainInit
<1>2. IInv /\ [Next]_vars => IInv'
  BY TypeStep, MainStep DEF IInv, MainInv
<1>3. QED
  BY <1>1, <1>2, PTL DEF Spec

\* What a file lacks while the step that is to fill it may still fail.
ReasonInv ==
  /\ pc = "json" => file = before
  /\ pc = "json write" => file[flags.json] = Torn
  /\ pc = "md write" => file[flags.md] = Torn
  /\ ExitTwoHasAReason

LEMMA ReasonStep == IInv /\ ReasonInv /\ [Next]_vars => ReasonInv'
<1> SUFFICES ASSUME IInv, ReasonInv, [Next]_vars PROVE ReasonInv'
  OBVIOUS
<1>a. /\ Torn # Own("json") /\ Torn # Own("markdown")
      /\ Own("json").of = starts /\ starts \in Nat
      /\ flags.json \in Paths \cup {NoPath} /\ flags.md \in Paths \cup {NoPath}
      /\ file \in [Paths -> Contents] /\ before \in [Paths -> Contents]
  BY ContentsAre, MainAssumption DEF IInv, TypeOK, Flags
<1>b. \A p \in Paths : before[p].of \in Nat
  BY <1>a, ContentsAre
<1>c. ASSUME UNCHANGED session
      PROVE  /\ flags' = flags /\ before' = before
             /\ Own("json")' = Own("json") /\ Own("markdown")' = Own("markdown")
  BY <1>c DEF session, Own
<1>1. CASE Start
  BY <1>1 DEF Start, ReasonInv, ExitTwoHasAReason
<1>2. CASE ParseFlags \/ Discover \/ RefreshGoldens \/ RunSweep \/ WriteReport
  <2>1. file = before
    BY <1>2 DEF ParseFlags, Discover, RefreshGoldens, RunSweep, WriteReport, IInv, EarlyInv
  <2>2. pc' = "exited" => report' # "all"
    BY <1>2 DEF ParseFlags, Discover, RefreshGoldens, RunSweep, WriteReport, Goto, Exit,
       IInv, EarlyInv
  <2>3. UNCHANGED <<file, before>> /\ pc' \notin {"json write", "md write"}
    BY <1>2 DEF ParseFlags, Discover, RefreshGoldens, RunSweep, WriteReport, Goto, Exit, session
  <2>4. QED
    BY <2>1, <2>2, <2>3 DEF ReasonInv, ExitTwoHasAReason
<1>3. CASE CreateJSON
  <2>1. pc' \in {"md", "json write", "exited"} /\ UNCHANGED session
    BY <1>3 DEF CreateJSON, Goto, Exit
  <2>2. pc' = "json write" => flags.json \in Paths /\ file'[flags.json] = Torn
    BY <1>3, <1>a DEF CreateJSON, Goto, Exit
  <2>3. pc' = "exited" => flags.json \in Paths /\ file' = before /\ flags.json # NoPath
    BY <1>3, <1>a DEF CreateJSON, Goto, Exit, ReasonInv
  <2>4. \A p \in Paths : before[p] # Own("json")
    <3>0. starts # 0
      BY <1>3 DEF CreateJSON, IInv, OlderInv
    <3>1. starts > 0
      BY <1>a, <3>0
    <3>2. \A p \in Paths : before[p].of < starts
      BY <3>1 DEF IInv, OlderInv
    <3>3. \A p \in Paths : before[p].of # starts
      BY <1>a, <1>b, <3>2
    <3>4. QED
      BY <1>a, <3>3
  <2>5. QED
    BY <1>c, <2>1, <2>2, <2>3, <2>4 DEF ReasonInv, ExitTwoHasAReason
<1>4. CASE EncodeJSON
  <2>1. pc' \in {"json close", "exited"} /\ UNCHANGED session
    BY <1>4 DEF EncodeJSON, Goto, Exit
  <2>2. pc' = "exited" => file'[flags.json] = Torn /\ flags.json # NoPath
    BY <1>4 DEF EncodeJSON, Goto, Exit, ReasonInv, IInv, WrittenInv, AskedJSON
  <2>3. QED
    BY <1>a, <1>c, <2>1, <2>2 DEF ReasonInv, ExitTwoHasAReason
<1>5. CASE CloseJSON
  BY <1>5 DEF CloseJSON, Goto, ReasonInv, ExitTwoHasAReason
<1>6. CASE CreateMarkdown
  <2>1. pc' \in {"md write", "exited"} /\ UNCHANGED session
    BY <1>6 DEF CreateMarkdown, Goto, Exit
  <2>2. pc' = "md write" => file'[flags.md] = Torn
    BY <1>6, <1>a DEF CreateMarkdown, Goto, Exit
  <2>3. pc' = "exited" /\ code' = 2 => flags.md \in Paths /\ flags.md # NoPath /\ file' = file
    BY <1>6, <1>a DEF CreateMarkdown, Goto, Exit
  <2>4. \A p \in Paths : file[p] # Own("markdown")
    BY <1>6 DEF CreateMarkdown, IInv, OlderInv
  <2>5. QED
    BY <1>c, <2>1, <2>2, <2>3, <2>4 DEF ReasonInv, ExitTwoHasAReason
<1>7. CASE WriteMarkdown
  <2>1. pc' \in {"md close", "exited"} /\ UNCHANGED session
    BY <1>7 DEF WriteMarkdown, Goto, Exit
  <2>2. pc' = "exited" => file'[flags.md] = Torn /\ flags.md # NoPath
    BY <1>7 DEF WriteMarkdown, Goto, Exit, ReasonInv, IInv, WrittenInv, AskedMD
  <2>3. QED
    BY <1>a, <1>c, <2>1, <2>2 DEF ReasonInv, ExitTwoHasAReason
<1>8. CASE CloseMarkdown
  <2>1. pc' = "exited" /\ UNCHANGED session /\ flags.md # NoPath
    BY <1>8 DEF CloseMarkdown, Exit, IInv, WrittenInv, AskedMD
  <2>2. code' = 2 => file'[flags.md] = Torn
    <3>1. flags.md \in Paths
      BY <1>a, <2>1
    <3>2. CASE Exit(0)
      BY <3>2 DEF Exit
    <3>3. CASE file' = [file EXCEPT ![flags.md] = Torn]
      BY <1>a, <3>1, <3>3
    <3>4. QED
      BY <1>8, <3>2, <3>3 DEF CloseMarkdown
  <2>3. QED
    BY <1>a, <1>c, <2>1, <2>2 DEF ReasonInv, ExitTwoHasAReason
<1>9. CASE Kill
  BY <1>9 DEF Kill, ReasonInv, ExitTwoHasAReason
<1>10. CASE UNCHANGED vars
  BY <1>10 DEF vars, ReasonInv, ExitTwoHasAReason, Own
<1>11. QED
  BY <1>1, <1>2, <1>3, <1>4, <1>5, <1>6, <1>7, <1>8, <1>9, <1>10 DEF Next, Step

\* Exit code 2 is no false alarm: something that was asked for is missing.
THEOREM ExitTwoIsTrue == Spec => []ExitTwoHasAReason
<1>1. Init => ReasonInv
  BY DEF Init, ReasonInv, ExitTwoHasAReason
<1>2. IInv /\ ReasonInv /\ [Next]_vars => ReasonInv'
  BY ReasonStep
<1>3. ReasonInv => ExitTwoHasAReason
  BY DEF ReasonInv
<1>4. QED
  BY <1>1, <1>2, <1>3, MainInductive, PTL DEF Spec

\* The command's variables keep their types.
THEOREM MainTypeCorrect == Spec => []TypeOK
<1>1. IInv => TypeOK
  BY DEF IInv
<1>2. QED
  BY <1>1, MainInductive, PTL

\* Exit code 0 means that all that was asked for is there (main.go:58-74).
THEOREM ExitZeroIsTrue == Spec => []ExitZeroMeansWritten
<1>1. IInv => ExitZeroMeansWritten
  BY DEF IInv
<1>2. QED
  BY <1>1, MainInductive, PTL

\* What an earlier run recorded stays until this run has its results.
THEOREM RecordsKept == Spec => []RecordsKeptUntilMeasured
<1>1. IInv => RecordsKeptUntilMeasured
  BY DEF IInv, EarlyInv, RecordsKeptUntilMeasured
<1>2. QED
  BY <1>1, MainInductive, PTL

\* A summary has its record next to it, also after a kill.
THEOREM SummaryNotAlone == Spec => []SummaryHasItsRecord
<1>1. IInv => SummaryHasItsRecord
  BY DEF IInv
<1>2. QED
  BY <1>1, MainInductive, PTL
=============================================================================

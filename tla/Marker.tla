------------------------------- MODULE Marker -------------------------------
(***************************************************************************)
(* parseComputeMS (pkg/bench/runner.go:165-180) over what a program, its   *)
(* runtime and its children write to stderr.  The text is a sequence of    *)
(* tokens; a figure is what strconv.ParseFloat takes: whole milliseconds   *)
(* here, NaN, or more than a time.Duration holds, an infinity for one.     *)
(***************************************************************************)
EXTENDS Integers, SequencesExt

CONSTANTS
  Numbers,      \* what a marker may carry, negative figures too
  NaN, Beyond,  \* and what no Duration can hold
  MaxDuration,  \* math.MaxInt64, in the unit of Numbers
  MaxTokens     \* bound: the length of stderr, in tokens

Figures == Numbers \cup {NaN, Beyond}

ASSUME MarkerAssumption ==
  /\ MaxDuration \in Nat
  /\ \A v \in Numbers : v \in Int /\ v < MaxDuration
  /\ NaN \notin Numbers /\ Beyond \notin Numbers /\ NaN # Beyond
  /\ MaxTokens \in Nat

VARIABLE stderr

Newline == [kind |-> "newline"]
Space   == [kind |-> "space"]       \* blanks, and the \r of a \r\n
Text    == [kind |-> "text"]        \* anything that is neither marker nor number
Mark    == [kind |-> "mark"]        \* compute_ms=
Number(v) == [kind |-> "number", value |-> v]

Tokens == {Newline, Space, Text, Mark} \cup {Number(v) : v \in Figures}

\* What console.error("compute_ms=" + ms) writes, on Unix and on Windows.
Markers(v) == {<<Mark, Number(v), Newline>>, <<Mark, Number(v), Space, Newline>>}

\* What else may come: warnings, their line ends, a marker with no figure.
Noise == {<<Text>>, <<Text, Newline>>, <<Space>>, <<Newline>>, <<Mark, Text, Newline>>}

MarkerInit == stderr = <<>>

Write(piece) ==
  /\ Len(stderr) + Len(piece) <= MaxTokens
  /\ stderr' = stderr \o piece

PrintMarker == \E v \in Figures : \E piece \in Markers(v) : Write(piece)

PrintNoise == \E piece \in Noise : Write(piece)

MarkerNext == PrintMarker \/ PrintNoise

MarkerSpec == MarkerInit /\ [][MarkerNext]_stderr

-----------------------------------------------------------------------------
(* parseComputeMS.                                                         *)

\* Mutant: strings.Index.
FirstMark(s) == Min({i \in DOMAIN s : s[i] = Mark} \cup {Len(s) + 1})

\* strings.LastIndex; 0 when there is none.
LastMark(s) == Max({i \in DOMAIN s : s[i] = Mark} \cup {0})

\* Mutant: the rest of the text, over the end of the line.
RestToEnd(s) == SubSeq(s, LastMark(s) + 1, Len(s))

\* What follows the last marker on its line.
Rest(s) ==
  LET ends == {i \in DOMAIN s : i > LastMark(s) /\ s[i] = Newline}
  IN  SubSeq(s, LastMark(s) + 1, Min(ends \cup {Len(s) + 1}) - 1)

\* strings.TrimSpace
TrimSpace(s) ==
  LET solid == {i \in DOMAIN s : s[i] \notin {Space, Newline}}
  IN  IF solid = {} THEN <<>> ELSE SubSeq(s, Min(solid), Max(solid))

\* time.Duration(ms * float64(time.Millisecond)). Go leaves open what becomes of a
\* figure that does not fit: amd64 takes the least integer, arm64 zero for NaN and
\* the largest integer otherwise.
Convert(v) ==
  CASE v = NaN -> {-MaxDuration - 1, 0}
    [] v = Beyond -> {-MaxDuration - 1, MaxDuration}
    [] v \notin {NaN, Beyond} -> {v}

\* One figure and nothing else parses, and a negative one is not trusted; NaN is
\* not less than zero.
Value(s) ==
  LET parses == Len(s) = 1 /\ s[1] \in {Number(v) : v \in Figures}
  IN  IF ~parses THEN {0}
      ELSE IF s[1].value \in {v \in Numbers : v < 0} THEN {0}
      ELSE Convert(s[1].value)

\* What a build may read.
ParseComputeMS(s) == IF LastMark(s) = 0 THEN {0} ELSE Value(TrimSpace(Rest(s)))

-----------------------------------------------------------------------------
(* Properties.                                                             *)

\* Once its line is closed a figure stays: nothing that prints no marker, before
\* the exit or from a child that shares the pipe, changes the reading.
NoiseChangesNothing ==
  [][stderr # <<>> /\ stderr[Len(stderr)] = Newline
       /\ (\A i \in (Len(stderr) + 1)..Len(stderr') : stderr'[i] # Mark)
       => ParseComputeMS(stderr') = ParseComputeMS(stderr)]_stderr
=============================================================================

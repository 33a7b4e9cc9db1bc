------------------------------ MODULE ProbeLog ------------------------------
(* appendActivityProbeLog of scripts/lib/activity/probe-log.js: a log file    *)
(* with a size limit, cut down to its newest lines before a line is added.    *)
(* Each run of the fetcher adds one line, one run after the other; a step is  *)
(* one file operation.  The run itself is in Fetcher.                         *)
EXTENDS Integers, Sequences, SequencesExt

VARIABLES
    file,           \* the lines of the file
    run,            \* the run under way: its pc, line, limit and kept tail
    added           \* history: all lines that were added readable

logVars == <<file, run, added>>

Bytes(lines) ==
    LET sum[n \in 0..Len(lines)] ==
            IF n = 0 THEN 0 ELSE sum[n - 1] + lines[n].size
    IN  sum[Len(lines)]

\* stat decides whether the file has to be cut.
Stat ==
    /\ run.pc = "stat"
    /\ run' = [run EXCEPT !.pc =
                  IF Bytes(file) + run.line.size <= run.limit THEN "append"
                  ELSE IF run.line.size >= run.limit THEN "clear" ELSE "read"]
    /\ UNCHANGED <<file, added>>

\* Every kept line gets its line end.
Ended(line) ==
    IF line.ended THEN line ELSE [line EXCEPT !.ended = TRUE, !.size = @ + 1]

\* What is kept when the next line has been looked at.
WithLine(kept, line, budget) ==
    IF kept.full \/ line.size > budget THEN kept
    ELSE IF Bytes(kept.lines) + line.size > budget THEN [kept EXCEPT !.full = TRUE]
    ELSE [kept EXCEPT !.lines = <<line>> \o @]

OldestTail(lines, budget) ==                \* mutant: from the wrong end
    LET kept[n \in 0..Len(lines)] ==
            IF n = 0 THEN [lines |-> <<>>, full |-> FALSE]
            ELSE WithLine(kept[n - 1], Ended(lines[n]), budget)
    IN  Reverse(kept[Len(lines)].lines)

\* takeNewestJsonlTail: from the end, lines that fit; one that is larger than
\* the whole budget is passed over.
NewestTail(lines, budget) ==
    LET kept[n \in 0..Len(lines)] ==
            IF n = 0 THEN [lines |-> <<>>, full |-> FALSE]
            ELSE WithLine(kept[n - 1], Ended(lines[Len(lines) + 1 - n]), budget)
    IN  kept[Len(lines)].lines

WholeBudget == run.limit                 \* mutant: no room for the new line
Budget == run.limit - run.line.size

Read ==
    /\ run.pc = "read"
    /\ run' = [run EXCEPT !.pc = "clear", !.tail = NewestTail(file, Budget)]
    /\ UNCHANGED <<file, added>>

\* writeFile empties the file ...
Clear ==
    /\ run.pc = "clear"
    /\ file' = <<>>
    /\ run' = [run EXCEPT !.pc = "fill"]
    /\ UNCHANGED added

\* ... and writes what is kept.
Fill ==
    /\ run.pc = "fill"
    /\ file' = run.tail
    /\ run' = [run EXCEPT !.pc = "append"]
    /\ UNCHANGED added

\* What is appended behind a line that has no end becomes a part of it.
Joins == file # <<>> /\ ~Last(file).ended

Appended(line) ==
    IF Joins
    THEN Append(Front(file),
                [line EXCEPT !.size = @ + Last(file).size, !.whole = FALSE])
    ELSE Append(file, line)

AppendLine ==
    /\ run.pc = "append"
    /\ file' = Appended(run.line)
    /\ added' = IF Joins THEN added ELSE Append(added, run.line)
    /\ run' = [run EXCEPT !.pc = "summary"]

\* The disk takes only a part of the line (external): appendFile fails.
Fragment ==
    [id |-> 0, size |-> 1, at |-> 0, entries |-> <<>>, whole |-> FALSE, ended |-> FALSE]

AppendCut ==
    /\ run.pc = "append"
    /\ file' = Appended(Fragment)
    /\ UNCHANGED added
=============================================================================

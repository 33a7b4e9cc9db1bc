------------------------------- MODULE Fetcher -------------------------------
(* fetchActivityKpis of scripts/lib/activity, as scripts/fetch-activity.js    *)
(* runs it: ask the endpoints in order until one has something to tell, fall  *)
(* back on the worker's log, add a line to the probe log, and report the      *)
(* failure streaks found in it.  Runs follow each other; one may be killed,   *)
(* or lose a file operation, at any step, and the log it leaves is what the   *)
(* next ones report from.                                                     *)
EXTENDS ProbeLog, ProbeSummary

CONSTANTS
    Templates,      \* endpoint templates, configured now or before
    Settings,       \* configurations and bounds; one is chosen at the start
    Windowed,       \* endpoint templates with the requested hours in them
    Lookback        \* lookbackHours of the summary

VARIABLES
    setting,
    report          \* what the last run wrote to its standard output

vars == <<file, run, added, setting, report>>

Endpoints == [template : Templates, hours : Nat]
Statuses == {"ok", "http_fail", "network_fail", "skipped", "missing_api_key"}
Lines ==
    [id : Nat, size : Nat \ {0}, at : Nat, whole : BOOLEAN, ended : BOOLEAN,
     entries : Seq([endpoint : Endpoints, status : Statuses])]

\* A run starts with a log that earlier ones, perhaps of another
\* configuration, have left.
FetcherAssumption ==
    /\ Lookback \in Nat
    /\ \A s \in Settings :
        /\ s.endpoints \in Seq(Templates) \ {<<>>}
        /\ s.answers \subseteq {"useful", "empty", "garbled", "refused", "down"}
        /\ s.hours \cup s.times \subseteq Nat
        /\ s.limit \in Nat
        /\ s.file \in Seq(Lines)
        /\ Bytes(s.file) <= s.limit \/ Len(s.file) = 1
        /\ \A i \in DOMAIN s.file :
              s.file[i].id = i /\ s.file[i].whole /\ s.file[i].ended
ASSUME FetcherAssumption

Idle == [pc |-> "idle"]
NoReport == [source |-> "none"]

Init ==
    /\ setting \in Settings
    /\ file = setting.file
    /\ added = setting.file
    /\ run = Idle
    /\ report = NoReport

-----------------------------------------------------------------------------
(* Asking the endpoints *)

\* An endpoint is its template and the hours put into it.
Endpoint(template, hours) ==
    [template |-> template,
     hours |-> IF template \in Windowed THEN hours ELSE 0]

Entry(endpoint, status) == [endpoint |-> endpoint, status |-> status]

\* What one answer leaves in the list of statuses.  "garbled" is a payload the
\* summary stumbles over: the endpoint was noted as ok and is noted again.
Noted(endpoint, answer) ==
    CASE answer \in {"useful", "empty"} -> <<Entry(endpoint, "ok")>>
      [] answer = "garbled" -> <<Entry(endpoint, "ok"), Entry(endpoint, "network_fail")>>
      [] answer = "refused" -> <<Entry(endpoint, "http_fail")>>
      [] answer = "down"    -> <<Entry(endpoint, "network_fail")>>

\* hasUsefulSignal of the summary of the answer.
Useful(answers) == {i \in DOMAIN answers : answers[i] = "useful"}

\* probeActivityApi: the statuses of the endpoints that were asked ...
Asked(answers, hours) ==
    LET reached == Min(Useful(answers) \cup {Len(answers)})
        noted[n \in 0..reached] ==
            IF n = 0 THEN <<>>
            ELSE noted[n - 1] \o Noted(Endpoint(setting.endpoints[n], hours), answers[n])
    IN  noted[reached]

\* ... and of all, with the hours of their templates, if none is.
NotAsked(why) ==
    [i \in DOMAIN setting.endpoints |-> Entry(Endpoint(setting.endpoints[i], 1), why)]

Run(entries, now, source) ==
    [pc |-> IF source = "replay" THEN "replay" ELSE "stat",
     line |-> [id |-> Len(added) + 1, size |-> Len(entries) + 1, at |-> now,
               entries |-> entries, whole |-> TRUE, ended |-> TRUE],
     limit |-> setting.limit, tail |-> <<>>, source |-> source]

MayRun == run = Idle /\ Len(added) < setting.runs
Begins(next) == run' = next /\ report' = NoReport /\ UNCHANGED <<file, added, setting>>

ProbeApi ==
    \E answers \in [DOMAIN setting.endpoints -> setting.answers],
       hours \in setting.hours, now \in setting.times :
        /\ MayRun
        /\ Begins(Run(Asked(answers, hours), now,
                      IF Useful(answers) = {} THEN "replay" ELSE "api"))

\* --skip-api, or no key.
ProbeNothing ==
    \E why \in {"skipped", "missing_api_key"} \cap setting.modes, now \in setting.times :
        /\ MayRun
        /\ Begins(Run(NotAsked(why), now, "replay"))

-----------------------------------------------------------------------------
(* The rest of a run *)

\* summarizeFromLocalReplay: a missing log counts as an empty one.
ReadReplay ==
    /\ run.pc = "replay"
    /\ run' = [run EXCEPT !.pc = "stat"]
    /\ UNCHANGED <<file, added, setting, report>>

WriteLog ==
    /\ Stat \/ Read \/ Clear \/ Fill \/ AppendLine
    /\ UNCHANGED <<setting, report>>

\* buildActivityProbeSummary: a log it cannot read counts as empty.
Summarise ==
    \E readable \in BOOLEAN :
        /\ run.pc = "summary"
        /\ report' =
              [source |-> run.source, line |-> run.line, readable |-> readable,
               endpoints |-> IF ~readable THEN {}
                             ELSE Streaks(Events(file, run.line.at - Lookback,
                                                 run.line.at,
                                                 ToSet(setting.endpoints)))]
        /\ run' = Idle
        /\ UNCHANGED <<file, added, setting>>

\* The replay log or a file operation on the probe log fails: main() writes
\* makeErrorFallbackPayload.
Error == [source |-> "error"]

Fail ==
    /\ run.pc \in {"replay", "stat", "read", "clear", "fill", "append"}
    /\ run' = Idle
    /\ report' = Error
    /\ UNCHANGED <<file, added, setting>>

FailHalfWritten ==
    /\ Cardinality({i \in DOMAIN file : ~file[i].whole}) < setting.cuts
    /\ AppendCut
    /\ run' = Idle
    /\ report' = Error
    /\ UNCHANGED setting

Kill ==
    /\ run # Idle
    /\ run' = Idle
    /\ UNCHANGED <<file, added, setting, report>>

Next ==
    \/ ProbeApi \/ ProbeNothing
    \/ ReadReplay \/ WriteLog \/ Summarise
    \/ Fail \/ FailHalfWritten \/ Kill

Spec == Init /\ [][Next]_vars

-----------------------------------------------------------------------------
(* Properties *)

\* "resulting growth is bounded" (comment): the file is within its limit, but
\* for a single line that is itself as large.
SizeBounded == Bytes(file) <= setting.limit \/ Len(file) = 1

\* No line, of this configuration or an earlier one, takes more than half of
\* the limit; by default it is 256 KiB, and a line below one.
LargestLine ==
    1 + Len(setting.endpoints) * IF "garbled" \in setting.answers THEN 2 ELSE 1
Roomy ==
    /\ 2 * LargestLine <= setting.limit
    /\ \A i \in DOMAIN setting.file : 2 * setting.file[i].size <= setting.limit

Whole(lines) == {i \in DOMAIN lines : lines[i].whole}

\* "keep only newest complete JSONL tail within configured byte budget"
\* (docs/DECISIONS.md): the readable lines are in the order they were added
\* in and, with room, none is lost while an older one is kept.
KeepsNewest ==
    /\ \A i, j \in Whole(file) : i < j => file[i].id < file[j].id
    /\ Roomy =>
          \A l \in ToSet(added) \ ToSet(file) :
              \A i \in Whole(file) : l.id < file[i].id

Reports == report.source \in {"api", "replay"}

\* A report shows the run it belongs to: each endpoint it asked is there with
\* the status it gave last, and with a streak of failures unless that is ok.
\* It holds whatever clock the runs go by, whatever was cut off or lost
\* before; but not for a record that was written behind half a line.
ReportShowsRun ==
    Reports /\ report.readable /\ report.line \in ToSet(added) =>
        \A i \in DOMAIN report.line.entries :
            LET entry == report.line.entries[i]
                again == \E j \in DOMAIN report.line.entries :
                            j > i /\ report.line.entries[j].endpoint = entry.endpoint
            IN  again \/ \E shown \in report.endpoints :
                            /\ shown.endpoint = entry.endpoint
                            /\ shown.last = entry.status
                            /\ shown.streak = 0 <=> entry.status = "ok"

\* "per-endpoint trailing consecutive non-ok streak" (docs/DECISIONS.md): what
\* a report calls a streak are failures the endpoint had one after the other,
\* up to its last answer.  Cutting the log, its window and lost records make
\* a streak shorter, never longer, if the clock does not go back.
AnswersOf(endpoint) ==                       \* places in the history
    UNION {{<<i, j>> : j \in {j \in DOMAIN added[i].entries :
                                added[i].entries[j].endpoint = endpoint}}
             : i \in DOMAIN added}
StatusAt(p) == added[p[1]].entries[p[2]].status
Later(p, q) == p[1] > q[1] \/ (p[1] = q[1] /\ p[2] > q[2])
FailedSinceOk(endpoint) ==
    {p \in AnswersOf(endpoint) :
        \A q \in AnswersOf(endpoint) : StatusAt(q) = "ok" => Later(p, q)}

Steady ==
    /\ \A i, j \in DOMAIN added : i < j => added[i].at <= added[j].at
    /\ \A i \in DOMAIN added : added[i].at <= report.line.at

StreakIsReal ==
    Reports /\ Roomy /\ Steady =>
        \A shown \in report.endpoints :
            shown.streak <= Cardinality(FailedSinceOk(shown.endpoint))
=============================================================================

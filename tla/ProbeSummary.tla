---------------------------- MODULE ProbeSummary ----------------------------
(* The failure streaks of scripts/lib/activity/probe-summary.js, computed     *)
(* from the lines of the probe log.  A line is a record with the time `at` of *)
(* its run and its `entries`, or is no readable record (~whole); an entry is  *)
(* [endpoint, status] with one of the five statuses of the log, "ok" one of   *)
(* them: what the log writes, toCompactEndpointStatus leaves as it is.        *)
EXTENDS Integers, Sequences, FiniteSets

NewestFirst(a, b) ==                         \* mutant: ties in the wrong order
    \/ a.at < b.at
    \/ a.at = b.at /\ a.line > b.line
    \/ a.at = b.at /\ a.line = b.line /\ a.index < b.index

\* The order of the events: by time, then by their place in the file.
Before(a, b) ==
    \/ a.at < b.at
    \/ a.at = b.at /\ a.line < b.line
    \/ a.at = b.at /\ a.line = b.line /\ a.index < b.index

\* The lines that count: readable, and of the window, both ends included.
InWindow(line, since, now) == line.whole /\ since <= line.at /\ line.at <= now

Event(lines, i, j) ==
    [at |-> lines[i].at, line |-> i, index |-> j,
     endpoint |-> lines[i].entries[j].endpoint,
     status |-> lines[i].entries[j].status]

\* Of the endpoints made from one of the templates.
EventsOf(lines, i, templates) ==
    {Event(lines, i, j) : j \in {j \in DOMAIN lines[i].entries :
                            lines[i].entries[j].endpoint.template \in templates}}

\* extractEndpointEvents; its sequence is this set in the order of Before.
Events(lines, since, now, templates) ==
    UNION {EventsOf(lines, i, templates) :
             i \in {i \in DOMAIN lines : InWindow(lines[i], since, now)}}

Own(endpoint, events) == {e \in events : e.endpoint = endpoint}

AllFailures(own) ==                          \* mutant: does not stop at an ok
    Cardinality({e \in own : e.status # "ok"})

\* The failures that come after every ok.
TrailingFailures(own) ==
    Cardinality({e \in own : \A o \in own : o.status = "ok" => Before(o, e)})

LastOf(own) == CHOOSE e \in own : \A o \in own : o = e \/ Before(o, e)

\* summarizeEndpointFailureStreaks.
Streaks(events) ==
    {[endpoint |-> endpoint,
      streak |-> TrailingFailures(Own(endpoint, events)),
      last |-> LastOf(Own(endpoint, events)).status]
        : endpoint \in {e.endpoint : e \in events}}
=============================================================================

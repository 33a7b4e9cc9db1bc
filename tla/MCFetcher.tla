------------------------------ MODULE MCFetcher ------------------------------
EXTENDS Fetcher

\* A line of an endpoint that is not configured (any more).
Noise ==
    [id |-> 1, size |-> 2, at |-> 1, whole |-> TRUE, ended |-> TRUE,
     entries |-> <<Entry(Endpoint("other", 1), "http_fail")>>]

\* Two endpoints, one with hours; few runs, some of them before the window of the next.
Wide ==
    [endpoints |-> <<"recent", "status">>, answers |-> {"useful", "empty", "refused"},
     modes |-> {"skipped"}, hours |-> {1, 2}, times |-> {0, 2}, runs |-> 3,
     limit |-> 6, file |-> <<>>, cuts |-> 0]

\* One endpoint, more runs; the disk may cut a line short.
Long ==
    [endpoints |-> <<"status">>, answers |-> {"useful", "garbled", "down"},
     modes |-> {"missing_api_key"}, hours |-> {1}, times |-> 0..2, runs |-> 4,
     limit |-> 8, file |-> <<Noise>>, cuts |-> 1]

\* Lines as large as the limit.
Tight ==
    [endpoints |-> <<"status">>, answers |-> {"useful", "garbled", "down"},
     modes |-> {}, hours |-> {1}, times |-> {1}, runs |-> 4,
     limit |-> 3, file |-> <<>>, cuts |-> 1]

MCSettings == {Wide, Long, Tight}
=============================================================================

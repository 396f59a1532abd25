-------------------------- MODULE MCEnrichLedger --------------------------
(* Small instances of EnrichLedger: one or two chunks of one document.     *)
EXTENDS EnrichLedger

CONSTANTS c1, c2, a, b

All == {"f03", "f35", "f38"}

(* No more than n of each named fault or request. *)
Budget(pairs) ==
    [k \in Kind |-> IF \E p \in pairs : p[1] = k
                    THEN (CHOOSE p \in pairs : p[1] = k)[2] ELSE 0]

Both == {<<TRUE, FALSE>>, <<FALSE, TRUE>>}   \* audit, or reset
Full == {<<TRUE, TRUE>>}                     \* one request that does both

Load(start, chunks, chain, fail, pairs) ==
    [start |-> start, chunks |-> chunks, chain |-> chain, up |-> chain, full |-> TRUE,
     skip |-> {}, fail |-> fail, ops |-> Full, callers |-> {a}, max |-> Budget(pairs)]

One(start, fail, pairs) == Load(start, {c1}, All, fail, pairs)

MCConfigs == {
    \* deliveries that die in every place, until the row is given up on
    One("ingested", {{"f35"}}, {<<"crash", 3>>, <<"throw", 1>>}),
    \* a reset during a delivery, and another request beside it
    [Load("ingested", {c1}, {"f03"}, {{"f03"}}, {<<"request", 2>>})
        EXCEPT !.ops = Both, !.callers = {a, b}],
    \* a request beside the last delivery of a row whose deliveries died
    Load("ingested", {c1}, {"f03"}, {{"f03"}}, {<<"crash", 3>>, <<"request", 1>>}),
    \* failed writes, a failed commit, and a task that ran into its timeout
    One("ingested", {{"f35", "f38"}}, {<<"persist", 1>>, <<"commit", 1>>, <<"cron", 1>>}),
    Load("ingested", {c1}, {"f35"}, {{"f35"}}, {<<"persist", 2>>, <<"request", 1>>}),
    \* the task's row: store faults, a cancel, a lost final write
    One("ingested", {{"f38"}}, {<<"store", 1>>, <<"final", 1>>, <<"cancel", 1>>, <<"crash", 1>>}),
    \* the sweep's own faults beside a request
    Load("ingested", {c1}, {"f03"}, {{"f03"}}, {<<"sweep", 1>>, <<"request", 1>>}),
    \* a purge during a delivery
    Load("ingested", {c1}, {"f38"}, {{"f38"}}, {<<"delete", 1>>, <<"request", 1>>}),
    \* chunks the ledger does not know, and a label lost at ingest
    Load("legacy", {c1}, {"f35"}, {{}}, {<<"request", 1>>, <<"audit", 1>>, <<"crash", 1>>}),
    [Load("unlabelled", {c1}, {"f35"}, {{}}, {<<"request", 2>>, <<"persist", 1>>})
        EXCEPT !.callers = {a, b}],
    \* an excluded label, and a document below the full level
    [One("excluded", {{}}, {<<"request", 1>>}) EXCEPT !.skip = {c1}],
    [One("ingested", {{"f35", "f38"}}, {<<"request", 1>>}) EXCEPT !.full = FALSE],
    \* a member that is configured but not available
    [One("legacy", {{}}, {<<"request", 1>>}) EXCEPT !.up = {"f03"}],
    \* two chunks in one delivery, one of them marked skip-index
    [Load("ingested", {c1, c2}, {"f35", "f38"}, {{"f35"}, {"f38"}},
          {<<"persist", 1>>}) EXCEPT !.skip = {c2}]}
=============================================================================

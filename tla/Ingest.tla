------------------------------- MODULE Ingest -------------------------------
(***************************************************************************)
(* Runs of the pipeline (src/src/pipeline/run.js) over one transport: each *)
(* follows its plan step by step and page by page, lands what it is given, *)
(* drops what an earlier run already held, and projects the rest.          *)
(***************************************************************************)
EXTENDS Transport, Stages, FiniteSets

CONSTANTS
  Content(_),       \* the rows of a body
  NextPage(_),      \* the URL of the page a body promises, or NoUrl
  PlansOf(_),       \* the plans each caller may have: of steps [source, url, market], url NoUrl if it is not fetchable
  Markets, ValidAt,
  MaxPages

\* What is planned, and what a page points to, is a URL or none.
ASSUME UrlAssumption ==
  /\ \A r \in Callers : \A plan \in PlansOf(r) : \A i \in 1..Len(plan) : plan[i].url \in Urls \cup {NoUrl}
  /\ \A u \in Urls, v \in 1..MaxVersion : NextPage(Body(u, v)) \in Urls \cup {NoUrl}

VARIABLES
  runs,
  archive,          \* hashes of what ended runs landed, for a later run to skip
  clock,            \* transaction time: the number of runs begun
  outcome           \* the last run to end, whose artifact follows from what was fresh to it

vars == <<transport, runs, archive, clock, outcome>>

NotRun == [pc |-> "new", plan |-> <<>>, step |-> 1, pages |-> <<>>, landed |-> <<>>,
           failed |-> {}, known |-> {}, at |-> 0]
NoOutcome == [fresh |-> <<>>, at |-> 0, aborted |-> FALSE]

Init ==
  /\ TransportInit
  /\ runs = [r \in Callers |-> NotRun]
  /\ archive = {} /\ clock = 0 /\ outcome = NoOutcome

\* A caller runs once: a bound.
Begin(r) ==
  /\ runs[r].pc = "new"
  /\ clock' = clock + 1
  /\ \E plan \in PlansOf(r), known \in {{}, archive} :
       runs' = [runs EXCEPT ![r] = [NotRun EXCEPT !.pc = "running", !.plan = plan,
                                                  !.known = known, !.at = clock + 1]]
  /\ UNCHANGED <<transport, archive, outcome>>

StepOf(r) == runs[r].plan[runs[r].step]
Working(r) == runs[r].pc = "running" /\ runs[r].step <= Len(runs[r].plan)

NextUrl(r) ==
  LET pages == runs[r].pages IN IF pages = <<>> THEN StepOf(r).url ELSE NextPage(pages[Len(pages)])

AfterStep(run) == [run EXCEPT !.step = @ + 1, !.pages = <<>>]

\* A step that cannot be fetched, or fails on any of its pages, is reported and passed over.
Fails(r) == runs' = [runs EXCEPT ![r] = AfterStep([runs[r] EXCEPT !.failed = @ \cup {runs[r].step}])]

Unfetchable(r) ==
  /\ Working(r) /\ StepOf(r).url = NoUrl
  /\ Fails(r)
  /\ UNCHANGED <<transport, archive, clock, outcome>>

Ask(r) ==
  /\ Working(r) /\ StepOf(r).url # NoUrl
  /\ Request(r, NextUrl(r))
  /\ UNCHANGED <<runs, archive, clock, outcome>>

LastPage(pages) == Len(pages) = MaxPages \/ NextPage(pages[Len(pages)]) = NoUrl

\* mergePages
Merged(pages) ==
  IF Len(pages) = 1 THEN Content(pages[1])
  ELSE FlattenSeq([i \in 1..Len(pages) |-> Content(pages[i])])

Landing(run, pages) ==
  [source |-> run.plan[run.step].source, market |-> run.plan[run.step].market, payload |-> Merged(pages)]

\* The page a run waited for: the last one is landed with those before it.
Page(r) ==
  LET call == calls[r]
      pages == Append(runs[r].pages, call.reply)
  IN /\ Working(r) /\ call.pc = "answered"
     /\ \/ /\ call.answer \notin {"ok", "not-modified"}
           /\ Fails(r)
        \/ /\ call.answer \in {"ok", "not-modified"} /\ ~LastPage(pages)
           /\ runs' = [runs EXCEPT ![r].pages = pages]
        \/ /\ call.answer \in {"ok", "not-modified"} /\ LastPage(pages)
           /\ runs' = [runs EXCEPT ![r] =
                AfterStep([runs[r] EXCEPT !.landed = Append(@, Landing(runs[r], pages))])]
     /\ calls' = [calls EXCEPT ![r] = Resting]
     /\ UNCHANGED <<served, breaker, cache, sentAge, streak, archive, clock, outcome>>

\* dedupeLanded: the hash is of the payload alone.
Fresh(landed, known) ==
  LET firsts == SelectSeq([i \in 1..Len(landed) |-> i],
                  LAMBDA i : /\ landed[i].payload \notin known
                             /\ \A j \in 1..i - 1 : landed[j].payload # landed[i].payload)
  IN [k \in 1..Len(firsts) |-> landed[firsts[k]]]

Artifact(landed, at) ==
  LET layer == Canonicalize(Batches(landed), at)
  IN [m \in Markets |-> ProjectMarket(layer, m, ValidAt, at)]

\* What follows the last step runs to its end without a wait.
Finish(r) ==
  LET run == runs[r]
      fresh == Fresh(run.landed, run.known)
      aborted == Throws(fresh)
  IN /\ run.pc = "running" /\ run.step > Len(run.plan)
     /\ outcome' = [fresh |-> fresh, at |-> run.at, aborted |-> aborted]
     /\ archive' = IF aborted THEN archive
                   ELSE archive \cup {run.landed[i].payload : i \in 1..Len(run.landed)}
     /\ runs' = [runs EXCEPT ![r] = [NotRun EXCEPT !.pc = "over"]]
     /\ UNCHANGED <<transport, clock>>

RunStep(r) == Unfetchable(r) \/ Ask(r) \/ Page(r) \/ Finish(r)
Pipeline == <<runs, archive, clock, outcome>>
Transporting(r) == CallStep(r) /\ UNCHANGED Pipeline
Passing == Tick /\ UNCHANGED Pipeline

\* What no run under way is after changes unnoticed, and is left to change later.
Wanted(u) ==
  \E r \in Callers : \E i \in 1..Len(runs[r].plan) :
    runs[r].plan[i].url # NoUrl /\ HostOf(u) = HostOf(runs[r].plan[i].url)

Next ==
  \/ \E r \in Callers : Begin(r) \/ RunStep(r) \/ Transporting(r)
  \/ \E u \in Urls : Wanted(u) /\ Publish(u) /\ UNCHANGED Pipeline
  \/ Passing

Spec == Init /\ [][Next]_vars

\* What a run does by itself or its timer forces: a host that sends no headers is
\* timed out, and one that does not end its body is not.
Goes(r) == RunStep(r) \/ (calls[r].pc # "body" /\ Transporting(r))

\* The passage of time and the runs' own steps; of the hosts nothing.
LiveSpec ==
  /\ Spec
  /\ WF_vars(Passing)
  /\ \A r \in Callers : WF_vars(Goes(r))
-----------------------------------------------------------------------------
Rows(landed, source) ==
  UNION {ToSet(landed[i].payload) : i \in {j \in 1..Len(landed) : /\ landed[j].source = source
                                                                 /\ landed[j].payload # Unusable}}

Projected == ~outcome.aborted /\ outcome.fresh # <<>>
Shown == Artifact(outcome.fresh, outcome.at)

\* A feature is shown as sourced only with a figure the run was given: a population
\* counted, a rate some parcel is charged, a count some station made, a growth
\* between two months that were both reported.
SourcedIsObserved ==
  Projected => LET artifact == Shown IN \A m \in Markets :
    LET shown == artifact[m]
        months == {r \in Rows(outcome.fresh, "employment") : r.month # Null /\ r.value # Null}
    IN /\ shown["population"] # Null =>
            \E r \in Rows(outcome.fresh, "census") : r.population = shown["population"] /\ MarketOfGeo(r.geo) = m
       /\ shown["effectiveTaxRate"] # Null =>
            \E r \in Rows(outcome.fresh, "roll") : r.rate = shown["effectiveTaxRate"]
       /\ shown["trafficCount"] # Null =>
            \E r \in Rows(outcome.fresh, "traffic") : r.aadt = shown["trafficCount"]
       /\ shown["employmentGrowth"] # Null =>
            \E r, s \in months : r.month = s.month + 12

\* The same but for a month the source names and withholds.
SourcedIsObservedWhereReported ==
  (\A r \in Rows(outcome.fresh, "employment") : r.month # Null => r.value # Null) => SourcedIsObserved

Turned(landed) ==
  [i \in 1..Len(landed) |-> IF landed[i].payload = Unusable THEN landed[i]
                            ELSE [landed[i] EXCEPT !.payload = Reverse(@)]]

\* The figures do not depend on the order of the rows in a download.
RowOrderIsNothing ==
  Projected /\ ~Throws(Turned(outcome.fresh)) =>
    Artifact(Turned(outcome.fresh), outcome.at) = Shown

\* Owners are one node if and only if a chain of pairs that score as a match links
\* them, whichever blocking keys bring each pair together while no block is too large; but for
\* owners kept apart whose names have one core, who are one node all the same.
MatchesAreFound ==
  Projected =>
    LET layer == Canonicalize(Batches(outcome.fresh), outcome.at)
        matching == {{a, b} : a, b \in layer.owners} \cap
                    {p \in SUBSET layer.owners : \A a, b \in p : a # b => Score(a, b) >= 9200}
        node(r) == OtherEnds(layer.graph, {r.parcel}, {"owned_by"}, "out")
    IN \A a, b \in layer.owners :
         LET linked == b \in Cluster(layer.owners, matching, a)
         IN /\ linked => node(a) = node(b)
            /\ node(a) = node(b) =>
                 linked \/ \E c \in Cluster(layer.owners, matching, a), d \in Cluster(layer.owners, matching, b) :
                             Core(c.name) = Core(d.name)

\* Every run that begins ends, whatever the hosts answer: pages, retries and
\* waits are all bounded. One thing alone holds it open for ever, against what
\* transport.js:15 says of its timeouts: a body that begins and never ends.
RunsEnd ==
  \A r \in Callers : \/ runs[r].pc = "running" ~> runs[r].pc = "over"
                     \/ <>[](calls[r].pc = "body")
=============================================================================

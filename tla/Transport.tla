----------------------------- MODULE Transport -----------------------------
(***************************************************************************)
(* The outbound transport of the pipeline (src/src/pipeline/transport.js): *)
(* requests of several callers to hosts that fail, stall and change what   *)
(* they serve, through the conditional cache, the per-host interval, the   *)
(* retries and the circuit breaker.                                        *)
(*                                                                         *)
(* Time is kept as ages, no further than they matter.  Redaction, header   *)
(* and body formats are left out, a body stands for its URL and version.   *)
(***************************************************************************)
EXTENDS Naturals, Sequences, FiniteSets

CONSTANTS
  Callers, Urls, HostOf(_),
  AllowedHosts,
  Threshold, Cooldown, MinInterval, MaxRetries,
  MaxVersion, MaxChanges,   \* bounds: versions of a URL, and URLs that change
  NoUrl, NoBody

ASSUME BreakerAssumption ==
  /\ Threshold \in Nat \ {0} /\ MaxVersion \in Nat \ {0}
  /\ Cooldown \in Nat /\ MinInterval \in Nat /\ MaxRetries \in Nat

Hosts == {HostOf(u) : u \in Urls}

VARIABLES
  served,    \* external: the version each URL has now
  breaker,
  cache,     \* the body kept for each URL, with its validator
  sentAge,   \* time since the last request went to each host
  calls,     \* the request each caller is in
  streak     \* requests to each host failed since one succeeded, and since when

transport == <<served, breaker, cache, sentAge, calls, streak>>

Body(url, version) == [url |-> url, version |-> version]

Closed == [failures |-> 0, open |-> FALSE, age |-> 0, trial |-> FALSE]
Resting == [pc |-> "idle", url |-> NoUrl, cached |-> NoBody, attempt |-> 0,
            wait |-> 0, reply |-> NoBody, answer |-> "none", held |-> {}]

TransportInit ==
  /\ served = [u \in Urls |-> 1]
  /\ breaker = [h \in Hosts |-> Closed]
  /\ cache = [u \in Urls |-> NoBody]
  /\ sentAge = [h \in Hosts |-> MinInterval]
  /\ calls = [c \in Callers |-> Resting]
  /\ streak = [h \in Hosts |-> [failed |-> 0, age |-> 0]]

Capped(n, most) == IF n > most THEN most ELSE n

Check(b) ==
  IF ~b.open THEN "closed" ELSE IF b.age < Cooldown THEN "open" ELSE "half"

\* Mutant: a failed trial does not open the breaker again.
FailedBreaker_TrialForgiven(b) ==
  LET n == Capped(b.failures + 1, Threshold) IN
  IF n >= Threshold /\ ~b.trial
  THEN [failures |-> n, open |-> TRUE, age |-> 0, trial |-> FALSE]
  ELSE [b EXCEPT !.failures = n, !.trial = FALSE]

\* A failed trial, or one failure too many, opens it from now on.
FailedBreaker(b) ==
  LET n == Capped(b.failures + 1, Threshold) IN
  IF b.trial \/ n >= Threshold
  THEN [failures |-> n, open |-> TRUE, age |-> 0, trial |-> FALSE]
  ELSE [b EXCEPT !.failures = n]

SucceedAt(h) ==
  /\ breaker' = [breaker EXCEPT ![h] = Closed]
  /\ streak' = [streak EXCEPT ![h] = [failed |-> 0, age |-> 0]]
FailAt(h) ==
  /\ breaker' = [breaker EXCEPT ![h] = FailedBreaker(@)]
  /\ streak' = [streak EXCEPT ![h] = [failed |-> Capped(@.failed + 1, Threshold), age |-> 0]]

\* Mutant: what is kept is looked up by host.
CacheKey_ByHost(u) == CHOOSE v \in Urls : HostOf(v) = HostOf(u)

CacheKey(u) == u

\* Nothing waits between the check of the breaker and the look at the interval.
Pace(call, host) == [call EXCEPT !.pc = "paced", !.wait = IF sentAge[host] < MinInterval
                                                          THEN MinInterval - sentAge[host] ELSE 0]

Answer(c, answer, reply) ==
  calls' = [calls EXCEPT ![c] = [Resting EXCEPT !.pc = "answered", !.url = calls[c].url, !.answer = answer,
                                                !.reply = reply, !.held = calls[c].held]]

Refuse(c, url, answer) ==
  calls' = [calls EXCEPT ![c] = [Resting EXCEPT !.pc = "answered", !.url = url, !.answer = answer]]

\* request: the allowlist, the breaker, the cache.
Request(c, url) ==
  LET h == HostOf(url) IN
  /\ calls[c].pc = "idle"
  /\ \/ /\ h \notin AllowedHosts
        /\ Refuse(c, url, "not-allowed") /\ UNCHANGED breaker
     \/ /\ h \in AllowedHosts /\ Check(breaker[h]) = "open"
        /\ Refuse(c, url, "circuit-open") /\ UNCHANGED breaker
     \/ /\ h \in AllowedHosts /\ Check(breaker[h]) # "open"
        /\ breaker' = [breaker EXCEPT ![h].trial = @ \/ Check(breaker[h]) = "half"]
        /\ calls' = [calls EXCEPT ![c] =
             Pace([Resting EXCEPT !.url = url, !.cached = cache[CacheKey(url)], !.held = {served[url]}], h)]
  /\ UNCHANGED <<served, cache, sentAge, streak>>

\* After its wait, which was reckoned before it slept.
Send(c) ==
  /\ calls[c].pc = "paced" /\ calls[c].wait = 0
  /\ sentAge' = [sentAge EXCEPT ![HostOf(calls[c].url)] = 0]
  /\ calls' = [calls EXCEPT ![c].pc = "sent"]
  /\ UNCHANGED <<served, breaker, cache, streak>>

\* External: the host takes the request. It sees the version of a kept body, not its URL.
Serve(c) ==
  LET url == calls[c].url
      fresh == Body(url, served[url])
      same == calls[c].cached # NoBody /\ calls[c].cached.version = served[url]
  IN /\ calls[c].pc = "sent"
     /\ calls' = [calls EXCEPT ![c] = [@ EXCEPT !.pc = "served",
                                                !.answer = IF same THEN "not-modified" ELSE "ok",
                                                !.reply = IF same THEN NoBody ELSE fresh]]
     /\ UNCHANGED <<served, breaker, cache, sentAge, streak>>

\* The status and headers of an answer with a body: the attempt's timer is cleared
\* here, and nothing bounds the reading of the body that follows.
BeginBody(c) ==
  /\ calls[c].pc = "served" /\ calls[c].answer = "ok"
  /\ calls' = [calls EXCEPT ![c].pc = "body"]
  /\ UNCHANGED <<served, breaker, cache, sentAge, streak>>

\* A kept body is confirmed by the headers alone; another has been read to its end.
Receive(c) ==
  LET call == calls[c]
      kept == call.answer = "not-modified"
  IN /\ call.pc = IF kept THEN "served" ELSE "body"
     /\ SucceedAt(HostOf(call.url))
     /\ cache' = IF kept THEN cache ELSE [cache EXCEPT ![CacheKey(call.url)] = call.reply]
     /\ Answer(c, call.answer, IF kept THEN call.cached ELSE call.reply)
     /\ UNCHANGED <<served, sentAge>>

\* Mutant: a request is retried for as long as it may be.
Retries_Always(call) == TRUE

Retries(call) == call.attempt + 1 <= MaxRetries

\* The host is busy, the request times out before it is answered, or the network
\* drops it, before the answer, after it or in the middle of the body.
FailRetryably(c) ==
  LET call == calls[c] h == HostOf(call.url) IN
  /\ call.pc \in {"sent", "served", "body"}
  /\ \/ /\ Retries(call)
        /\ calls' = [calls EXCEPT ![c] = [call EXCEPT !.pc = "backoff", !.attempt = Capped(@ + 1, MaxRetries + 1),
                                                      !.answer = "none", !.reply = NoBody]]
        /\ UNCHANGED <<breaker, streak>>
     \/ /\ ~Retries(call)
        /\ Answer(c, "failed", NoBody) /\ FailAt(h)
  /\ UNCHANGED <<served, cache, sentAge>>

\* The host took the request and answered with a status or a body no retry would better.
FailForGood(c) ==
  /\ calls[c].pc \in {"served", "body"}
  /\ Answer(c, "failed", NoBody) /\ FailAt(HostOf(calls[c].url))
  /\ UNCHANGED <<served, cache, sentAge>>

\* The backoff, of whatever length, is over.
Retry(c) ==
  /\ calls[c].pc = "backoff"
  /\ calls' = [calls EXCEPT ![c] = Pace(@, HostOf(@.url))]
  /\ UNCHANGED <<served, breaker, cache, sentAge, streak>>

\* External: a URL comes to serve something else.
Publish(u) ==
  /\ served[u] < MaxVersion /\ Cardinality({v \in Urls : served[v] > 1}) < MaxChanges
  /\ served' = [served EXCEPT ![u] = @ + 1]
  /\ calls' = [c \in Callers |-> IF calls[c].url = u /\ calls[c].pc # "answered"
                                 THEN [calls[c] EXCEPT !.held = @ \cup {served[u] + 1}] ELSE calls[c]]
  /\ UNCHANGED <<breaker, cache, sentAge, streak>>

Older(a, most) == Capped(a + 1, most)
Tick ==
  /\ breaker' = [h \in Hosts |-> IF breaker[h].open THEN [breaker[h] EXCEPT !.age = Older(@, Cooldown)]
                                                    ELSE breaker[h]]
  /\ sentAge' = [h \in Hosts |-> Older(sentAge[h], MinInterval)]
  /\ streak' = [h \in Hosts |-> IF streak[h].failed > 0 THEN [streak[h] EXCEPT !.age = Older(@, Cooldown)]
                                                       ELSE streak[h]]
  /\ calls' = [c \in Callers |-> [calls[c] EXCEPT !.wait = IF @ > 0 THEN @ - 1 ELSE 0]]
  /\ UNCHANGED <<served, cache>>

CallStep(c) ==
  Send(c) \/ Serve(c) \/ BeginBody(c) \/ Receive(c) \/ FailRetryably(c) \/ FailForGood(c) \/ Retry(c)
-----------------------------------------------------------------------------
\* A body handed to a caller is one its URL served while the caller was asking,
\* kept or fetched, whatever other callers put into the cache meanwhile.
BodiesAreCurrent ==
  \A c \in Callers : LET call == calls[c] IN
    call.pc = "answered" /\ call.answer \in {"ok", "not-modified"} =>
      call.reply.url = call.url /\ call.reply.version \in call.held

\* A host that has failed Threshold requests on end, or whose trial has failed,
\* is asked nothing new before a cooldown has passed since its last failure,
\* whatever requests were under way when it failed.
FailingHostIsLeftAlone ==
  [][\A c \in Callers :
       calls[c].pc = "idle" /\ calls'[c].pc = "paced" =>
         LET s == streak[HostOf(calls'[c].url)] IN s.failed < Threshold \/ s.age >= Cooldown]_transport
=============================================================================

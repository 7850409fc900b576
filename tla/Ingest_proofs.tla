---------------------------- MODULE Ingest_proofs ----------------------------
(***************************************************************************)
(* The transport for any number of runs, hosts, versions and failures      *)
(* allowed: its circuit breaker, and the bodies its conditional requests   *)
(* hand to their callers.                                                  *)
(***************************************************************************)
EXTENDS Ingest, TLAPS

Bodies == {Body(u, v) : u \in Urls, v \in 1..MaxVersion}

Breakers == [failures : 0..Threshold, open : BOOLEAN, age : Nat, trial : BOOLEAN]
Streaks == [failed : 0..Threshold, age : Nat]

(* What the breaker has counted is what has happened to the host, and it is *)
(* open from the failure that made the count full.                          *)
Agree(b, s) ==
  /\ b.failures = s.failed
  /\ b.open <=> s.failed = Threshold
  /\ b.open => b.age = s.age
  /\ b.trial => b.open

BreakerInv ==
  /\ breaker \in [Hosts -> Breakers]
  /\ streak \in [Hosts -> Streaks]
  /\ \A h \in Hosts : Agree(breaker[h], streak[h])

Answers == {"none", "ok", "not-modified", "failed", "not-allowed", "circuit-open"}

CallRecords ==
  [pc : {"idle", "paced", "sent", "served", "body", "backoff", "answered"},
   url : Urls \cup {NoUrl}, cached : Bodies \cup {NoBody}, attempt : Nat, wait : Nat,
   reply : Bodies \cup {NoBody}, answer : Answers, held : SUBSET Nat]

(* A call is of some URL, and a caller is handed a body where it is told so. *)
CallInv(call) ==
  /\ call.pc # "idle" => call.url \in Urls
  /\ call.pc = "served" => call.answer \in {"ok", "not-modified"}
  /\ call.pc = "served" /\ call.answer = "not-modified" => call.cached \in Bodies
  /\ call.pc = "served" /\ call.answer = "ok" => call.reply \in Bodies
  /\ call.pc = "body" => call.answer = "ok" /\ call.reply \in Bodies
  /\ call.pc = "answered" /\ call.answer \in {"ok", "not-modified"} => call.reply \in Bodies

HostInv ==
  /\ served \in [Urls -> 1..MaxVersion]
  /\ cache \in [Urls -> Bodies \cup {NoBody}]
  /\ sentAge \in [Hosts -> Nat]

TransportInv ==
  /\ HostInv
  /\ calls \in [Callers -> CallRecords]
  /\ \A c \in Callers : CallInv(calls[c])

Run(pc, plan, step, pages, landed, failed, known, at) ==
  [pc |-> pc, plan |-> plan, step |-> step, pages |-> pages, landed |-> landed,
   failed |-> failed, known |-> known, at |-> at]

(* The pages a run holds are bodies, and the last of them points to another. *)
RunInv(r, run) ==
  /\ run = Run(run.pc, run.plan, run.step, run.pages, run.landed, run.failed, run.known, run.at)
  /\ run.pc = "running" => run.plan \in PlansOf(r)
  /\ run.step \in Nat \ {0}
  /\ run.pages \in Seq(Bodies)
  /\ run.pages # <<>> => NextPage(run.pages[Len(run.pages)]) # NoUrl

RunsInv ==
  /\ DOMAIN runs = Callers
  /\ \A r \in Callers : RunInv(r, runs[r])

IInv == BreakerInv /\ TransportInv /\ RunsInv

-----------------------------------------------------------------------------

(* What a run asks for is the URL of a step it may plan, or of a next page.   *)
LEMMA AskedIsUrl ==
  ASSUME RunsInv, NEW r \in Callers, Ask(r)
  PROVE  NextUrl(r) \in Urls
<1>1. RunInv(r, runs[r]) /\ Working(r) /\ StepOf(r).url # NoUrl
  BY DEF RunsInv, Ask
<1>2. CASE runs[r].pages = <<>>
  BY <1>1, <1>2, UrlAssumption DEF RunInv, Working, StepOf, NextUrl
<1>3. CASE runs[r].pages # <<>>
  <2> DEFINE last == runs[r].pages[Len(runs[r].pages)]
  <2>1. last \in Bodies /\ NextPage(last) # NoUrl
    BY <1>1, <1>3 DEF RunInv
  <2>2. NextUrl(r) = NextPage(last)
    BY <1>3 DEF NextUrl
  <2> QED
    BY <2>1, <2>2, UrlAssumption DEF Bodies
<1> QED
  BY <1>2, <1>3

(* Every step of the runs, their requests, the hosts and time keeps IInv.     *)
LEMMA IngestInvariant == Spec => []IInv
\* Whatever becomes of a request, the two counts of its host agree after it.
<1>cs. ASSUME BreakerInv, TransportInv, NEW c \in Callers, CallStep(c)
       PROVE  BreakerInv' /\ TransportInv'
  <2> USE <1>cs
  (* The breaker and the record of failures move together at one host.        *)
  <2>o. ASSUME BreakerInv, NEW h \in Hosts, SucceedAt(h) \/ FailAt(h)
        PROVE  BreakerInv'
    <3> USE <2>o
    <3>1. ASSUME NEW b \in Breakers, NEW s \in Streaks, Agree(b, s),
                 breaker' = [breaker EXCEPT ![h] = b], streak' = [streak EXCEPT ![h] = s]
          PROVE  BreakerInv'
      BY <3>1 DEF BreakerInv
    (* A failure counts on both sides alike: a trial fails only on a breaker that *)
    (* was open, and so full.                                                     *)
    <3>2. ASSUME NEW b \in Breakers, NEW s \in Streaks, Agree(b, s)
          PROVE  LET t == [failed |-> Capped(s.failed + 1, Threshold), age |-> 0]
                 IN FailedBreaker(b) \in Breakers /\ t \in Streaks /\ Agree(FailedBreaker(b), t)
      <4> USE <3>2, BreakerAssumption DEF Breakers, Streaks, Agree
      <4> DEFINE n == Capped(b.failures + 1, Threshold)
      <4>1. n \in 0..Threshold /\ (b.open => n = Threshold) /\ n = Capped(s.failed + 1, Threshold)
        BY DEF Capped
      <4>2. CASE b.trial \/ n >= Threshold
        <5>1. FailedBreaker(b) = [failures |-> n, open |-> TRUE, age |-> 0, trial |-> FALSE]
          BY <4>2 DEF FailedBreaker
        <5>2. n = Threshold
          BY <4>1, <4>2
        <5> HIDE DEF n
        <5> QED
          BY <4>1, <5>1, <5>2
      <4>3. CASE ~(b.trial \/ n >= Threshold)
        <5>1. FailedBreaker(b) = [b EXCEPT !.failures = n]
          BY <4>3 DEF FailedBreaker
        <5>2. n # Threshold /\ ~b.open
          BY <4>1, <4>3
        <5> HIDE DEF n
        <5> QED
          BY <4>1, <4>3, <5>1, <5>2
      <4> QED
        BY <4>2, <4>3
    <3>3. CASE SucceedAt(h)
      <4> DEFINE s == [failed |-> 0, age |-> 0]
      <4>1. Closed \in Breakers /\ s \in Streaks /\ Agree(Closed, s)
        BY BreakerAssumption DEF Closed, Breakers, Streaks, Agree
      <4>2. breaker' = [breaker EXCEPT ![h] = Closed] /\ streak' = [streak EXCEPT ![h] = s]
        BY <3>3 DEF SucceedAt
      <4> HIDE DEF s
      <4> QED
        BY <3>1, <4>1, <4>2
    <3>4. CASE FailAt(h)
      <4> DEFINE s == [failed |-> Capped(streak[h].failed + 1, Threshold), age |-> 0]
                 b == FailedBreaker(breaker[h])
      <4>1. breaker[h] \in Breakers /\ streak[h] \in Streaks /\ Agree(breaker[h], streak[h])
        BY DEF BreakerInv
      <4>2. b \in Breakers /\ s \in Streaks /\ Agree(b, s)
        BY <4>1, <3>2
      <4>3. breaker' = [breaker EXCEPT ![h] = b] /\ streak' = [streak EXCEPT ![h] = s]
        BY <3>4, <4>1 DEF FailAt, BreakerInv
      <4> HIDE DEF s, b
      <4> QED
        BY <3>1, <4>2, <4>3
    <3> QED
      BY <3>3, <3>4
  <2> USE BreakerAssumption
  <2>0. PICK call \in CallRecords : call = calls[c]
    BY DEF TransportInv
  <2>1. /\ call \in CallRecords /\ CallInv(call) /\ HostInv
        /\ calls \in [Callers -> CallRecords] /\ call = calls[c]
    BY <2>0 DEF TransportInv
  <2>2. ASSUME call.url \in Urls PROVE HostOf(call.url) \in Hosts
    BY <2>2 DEF Hosts
  <2>3. ASSUME NEW n \in CallRecords, CallInv(n), calls' = [calls EXCEPT ![c] = n], HostInv',
               UNCHANGED <<breaker, streak>> \/ \E h \in Hosts : SucceedAt(h) \/ FailAt(h)
        PROVE  BreakerInv' /\ TransportInv'
    <3>1. TransportInv'
      BY <2>1, <2>3 DEF TransportInv
    <3>2. CASE UNCHANGED <<breaker, streak>>
      BY <3>1, <3>2 DEF BreakerInv
    <3>3. CASE \E h \in Hosts : SucceedAt(h) \/ FailAt(h)
      BY <3>1, <3>3, <2>o
    <3> QED
      BY <2>3, <3>2, <3>3
  <2>4. ASSUME UNCHANGED <<served, cache, sentAge>> PROVE HostInv'
    BY <2>1, <2>4 DEF HostInv
  <2>5. CASE Send(c)
    <3> DEFINE n == [call EXCEPT !.pc = "sent"]
    <3>1. n \in CallRecords /\ CallInv(n)
      BY <2>1, <2>5 DEF Send, CallRecords, CallInv
    <3>2. calls' = [calls EXCEPT ![c] = n] /\ UNCHANGED <<breaker, streak, served, cache>>
      BY <2>1, <2>5 DEF Send
    <3>3. HostInv'
      BY <2>1, <2>5 DEF Send, HostInv
    <3> HIDE DEF n
    <3> QED
      BY <2>3, <3>1, <3>2, <3>3
  <2>b. CASE BeginBody(c)
    <3> DEFINE n == [call EXCEPT !.pc = "body"]
    <3>1. n \in CallRecords /\ CallInv(n)
      BY <2>1, <2>b DEF BeginBody, CallRecords, CallInv
    <3>2. calls' = [calls EXCEPT ![c] = n] /\ UNCHANGED <<served, cache, sentAge, breaker, streak>>
      BY <2>1, <2>b DEF BeginBody
    <3> HIDE DEF n
    <3> QED
      BY <2>3, <2>4, <3>1, <3>2
  <2>6. CASE Serve(c)
    <3>1. PICK a \in {"ok", "not-modified"}, b \in Bodies \cup {NoBody} :
            /\ calls' = [calls EXCEPT ![c] = [@ EXCEPT !.pc = "served", !.answer = a, !.reply = b]]
            /\ a = "ok" => b \in Bodies
            /\ a = "not-modified" => call.cached \in Bodies
      <4> DEFINE same == call.cached # NoBody /\ call.cached.version = served[call.url]
                 fresh == Body(call.url, served[call.url])
      <4>1. call.url \in Urls /\ served[call.url] \in 1..MaxVersion
        BY <2>1, <2>6 DEF Serve, CallInv, HostInv
      <4>2. fresh \in Bodies
        BY <4>1 DEF Bodies
      <4>3. same => call.cached \in Bodies
        BY <2>1 DEF CallRecords, Answers
      <4>4. calls' = [calls EXCEPT ![c] = [@ EXCEPT !.pc = "served",
                                                  !.answer = IF same THEN "not-modified" ELSE "ok",
                                                  !.reply = IF same THEN NoBody ELSE fresh]]
        BY <2>1, <2>6 DEF Serve
      <4> HIDE DEF same, fresh
      <4>5. CASE same
        BY <4>3, <4>4, <4>5
      <4>6. CASE ~same
        BY <4>2, <4>4, <4>6
      <4> QED
        BY <4>5, <4>6
    <3> DEFINE n == [call EXCEPT !.pc = "served", !.answer = a, !.reply = b]
    <3>2. n \in CallRecords /\ CallInv(n)
      <4>1. /\ n.pc = "served" /\ n.url = call.url /\ n.cached = call.cached
            /\ n.reply = b /\ n.answer = a
        BY <2>1 DEF CallRecords, Answers
      <4>2. call.url \in Urls
        BY <2>1, <2>6 DEF Serve, CallInv
      <4>3. n \in CallRecords
        BY <2>1 DEF CallRecords, Answers
      <4> HIDE DEF n
      <4> QED
        BY <2>1, <3>1, <4>1, <4>2, <4>3 DEF CallInv
    <3>3. calls' = [calls EXCEPT ![c] = n] /\ UNCHANGED <<served, cache, sentAge, breaker, streak>>
      BY <2>1, <2>6, <3>1 DEF Serve
    <3> HIDE DEF n
    <3> QED
      BY <2>3, <2>4, <3>2, <3>3
  <2>7. ASSUME NEW answer \in Answers, NEW reply \in Bodies \cup {NoBody},
               answer \in {"ok", "not-modified"} => reply \in Bodies,
               call.url \in Urls, Answer(c, answer, reply), HostInv',
               \E h \in Hosts : SucceedAt(h) \/ FailAt(h)
        PROVE  BreakerInv' /\ TransportInv'
    <3> DEFINE n == [Resting EXCEPT !.pc = "answered", !.url = call.url, !.answer = answer,
                                    !.reply = reply, !.held = call.held]
    <3>1. n \in CallRecords /\ CallInv(n)
      <4>1. Resting \in CallRecords
        BY DEF Resting, CallRecords, Answers
      <4>2. n \in CallRecords
        BY <2>1, <2>7, <4>1 DEF CallRecords
      <4>3. n.pc = "answered" /\ n.url = call.url /\ n.answer = answer /\ n.reply = reply
        BY <4>1 DEF CallRecords
      <4> HIDE DEF n
      <4> QED
        BY <2>7, <4>2, <4>3 DEF CallInv
    <3>2. calls' = [calls EXCEPT ![c] = n]
      BY <2>1, <2>7 DEF Answer
    <3> HIDE DEF n
    <3> QED
      BY <2>3, <2>7, <3>1, <3>2
  <2>8. CASE Receive(c)
    <3> DEFINE kept == call.answer = "not-modified"
               reply == IF kept THEN call.cached ELSE call.reply
    <3>1. /\ call.url \in Urls /\ call.answer \in {"ok", "not-modified"} /\ reply \in Bodies
          /\ ~kept => call.reply \in Bodies
      BY <2>1, <2>8 DEF Receive, CallInv
    <3>2. SucceedAt(HostOf(call.url)) /\ Answer(c, call.answer, reply)
      BY <2>1, <2>8 DEF Receive
    <3>3. HostInv'
      BY <2>1, <2>8, <3>1 DEF Receive, HostInv, CacheKey
    <3>4. call.answer \in Answers /\ HostOf(call.url) \in Hosts
      BY <2>1, <2>2, <3>1 DEF CallRecords, Answers
    <3> HIDE DEF reply
    <3> QED
      BY <2>7, <3>1, <3>2, <3>3, <3>4
  <2>9. CASE FailRetryably(c) \/ FailForGood(c)
    <3>1. call.url \in Urls /\ UNCHANGED <<served, cache, sentAge>>
      BY <2>1, <2>9 DEF FailRetryably, FailForGood, CallInv
    <3>2. CASE Answer(c, "failed", NoBody) /\ FailAt(HostOf(call.url))
      <4>1. HostInv' /\ HostOf(call.url) \in Hosts /\ "failed" \in Answers
        BY <2>2, <2>4, <3>1 DEF Answers
      <4> QED
        BY <2>7, <3>1, <3>2, <4>1
    <3>3. CASE ~(Answer(c, "failed", NoBody) /\ FailAt(HostOf(call.url)))
      <4> DEFINE n == [calls[c] EXCEPT !.pc = "backoff", !.attempt = Capped(@ + 1, MaxRetries + 1),
                                   !.answer = "none", !.reply = NoBody]
      <4>1. calls' = [calls EXCEPT ![c] = n] /\ UNCHANGED <<breaker, streak>>
        <5>1. ~FailForGood(c)
          BY <2>1, <3>3 DEF FailForGood
        <5>2. FailRetryably(c)
          BY <2>9, <5>1
        <5>3. ~(Answer(c, "failed", NoBody) /\ FailAt(HostOf(calls[c].url)))
          BY <2>1, <3>3
        <5> QED
          BY <5>2, <5>3 DEF FailRetryably
      <4>2. Capped(call.attempt + 1, MaxRetries + 1) \in Nat
        BY <2>1 DEF Capped, CallRecords
      <4>3. n \in CallRecords /\ CallInv(n)
        <5>1. n.pc = "backoff" /\ n.url = call.url
          BY <2>1 DEF CallRecords, Answers
        <5>2. n \in CallRecords
          BY <2>1, <4>2 DEF CallRecords, Answers
        <5> HIDE DEF n
        <5> QED
          BY <3>1, <5>1, <5>2 DEF CallInv
      <4> HIDE DEF n
      <4> QED
        BY <2>3, <2>4, <3>1, <4>1, <4>3
    <3> QED
      BY <3>2, <3>3
  <2>10. CASE Retry(c)
    <3> DEFINE n == Pace(call, HostOf(call.url))
    <3>1. call.url \in Urls
      BY <2>1, <2>10 DEF Retry, CallInv
    <3>2. sentAge[HostOf(call.url)] \in Nat
      BY <2>1, <2>2, <3>1 DEF HostInv
    <3>3. n \in CallRecords /\ CallInv(n)
      <4> DEFINE age == sentAge[HostOf(call.url)]
                 w == IF age < MinInterval THEN MinInterval - age ELSE 0
      <4>1. w \in Nat
        BY <3>2
      <4>2. n = [call EXCEPT !.pc = "paced", !.wait = w]
        BY DEF Pace
      <4> HIDE DEF w, n
      <4>3. n \in CallRecords
        BY <2>1, <4>1, <4>2 DEF CallRecords, Answers
      <4>4. n.pc = "paced" /\ n.url = call.url
        BY <2>1, <4>2 DEF CallRecords, Answers
      <4> HIDE DEF n
      <4> QED
        BY <3>1, <4>3, <4>4 DEF CallInv
    <3>4. calls' = [calls EXCEPT ![c] = n] /\ UNCHANGED <<served, cache, sentAge, breaker, streak>>
      BY <2>1, <2>10 DEF Retry
    <3> HIDE DEF n
    <3> QED
      BY <2>3, <2>4, <3>3, <3>4
  <2> QED
    BY <2>5, <2>b, <2>6, <2>8, <2>9, <2>10 DEF CallStep
<1>1. Init => IInv
  <2> USE BreakerAssumption
  <2> SUFFICES ASSUME Init PROVE IInv
    OBVIOUS
  <2>1. BreakerInv
    BY DEF Init, TransportInit, BreakerInv, Breakers, Streaks, Agree, Closed
  <2>2. Resting \in CallRecords /\ CallInv(Resting)
    BY DEF Resting, CallRecords, Answers, CallInv
  <2>3. HostInv
    BY DEF Init, TransportInit, HostInv
  <2>4. TransportInv
    BY <2>2, <2>3 DEF Init, TransportInit, TransportInv
  <2>5. ASSUME NEW r \in Callers PROVE RunInv(r, runs[r])
    <3>1. runs[r] = NotRun
      BY DEF Init
    <3> QED
      BY <3>1 DEF RunInv, Run, NotRun
  <2>6. RunsInv
    BY <2>5 DEF Init, RunsInv
  <2> QED
    BY <2>1, <2>4, <2>6 DEF IInv
<1>2. ASSUME IInv, [Next]_vars PROVE IInv'
  <2> USE <1>2, BreakerAssumption
  <2>1. BreakerInv /\ TransportInv /\ RunsInv /\ HostInv /\ calls \in [Callers -> CallRecords]
    BY DEF IInv, TransportInv
  <2>2. UNCHANGED transport => BreakerInv' /\ TransportInv'
    BY <2>1 DEF transport, BreakerInv, TransportInv, HostInv
  <2>3. UNCHANGED runs => RunsInv'
    BY <2>1 DEF RunsInv
  <2>0. \E pc, plan, step, pages, landed, failed, known, at :
          /\ NotRun = Run(pc, plan, step, pages, landed, failed, known, at)
          /\ step \in Nat \ {0} /\ pages \in Seq(Bodies) /\ pages = <<>>
    <3>1. NotRun = Run("new", <<>>, 1, <<>>, <<>>, {}, {}, 0)
      BY DEF NotRun, Run
    <3>2. 1 \in Nat \ {0} /\ <<>> \in Seq(Bodies)
      OBVIOUS
    <3> QED
      BY <3>1, <3>2
  <2>4. ASSUME NEW r \in Callers, NEW pc, NEW plan, NEW step \in Nat \ {0}, NEW pages \in Seq(Bodies),
               NEW landed, NEW failed, NEW known, NEW at,
               pc = "running" => plan \in PlansOf(r),
               pages # <<>> => NextPage(pages[Len(pages)]) # NoUrl,
               runs' = [runs EXCEPT ![r] = Run(pc, plan, step, pages, landed, failed, known, at)]
        PROVE  RunsInv'
    <3> DEFINE run == Run(pc, plan, step, pages, landed, failed, known, at)
    <3>1. /\ run.pc = pc /\ run.plan = plan /\ run.step = step /\ run.pages = pages
          /\ run.landed = landed /\ run.failed = failed /\ run.known = known /\ run.at = at
      BY DEF Run
    <3>2. runs' = [runs EXCEPT ![r] = run]
      BY <2>4
    <3> HIDE DEF run
    <3>3. run = Run(pc, plan, step, pages, landed, failed, known, at)
      BY DEF run
    <3>4. RunInv(r, run)
      BY <2>4, <3>1, <3>3 DEF RunInv
    <3> QED
      BY <2>1, <3>2, <3>4 DEF RunsInv
  <2>5. ASSUME NEW r \in Callers, NEW call \in CallRecords, CallInv(call),
               calls' = [calls EXCEPT ![r] = call], UNCHANGED <<served, cache, sentAge>>
        PROVE  TransportInv'
    <3>1. HostInv'
      BY <2>1, <2>5 DEF HostInv
    <3> QED
      BY <2>1, <2>5, <3>1 DEF TransportInv
  <2>6. ASSUME NEW r \in Callers, NEW x, NEW run, runs' = [runs EXCEPT ![r] = AfterStep(run)],
               run = [runs[r] EXCEPT !.failed = x] \/ run = [runs[r] EXCEPT !.landed = x]
        PROVE  RunsInv'
    <3>1. PICK pc, plan, step, pages, landed, failed, known, at :
            /\ runs[r] = Run(pc, plan, step, pages, landed, failed, known, at)
            /\ step \in Nat \ {0} /\ (pc = "running" => plan \in PlansOf(r))
      BY <2>1 DEF RunsInv, RunInv
    <3>2. PICK n, m : run = Run(pc, plan, step, pages, n, m, known, at)
      <4>1. CASE run = [runs[r] EXCEPT !.failed = x]
        <5>1. run = Run(pc, plan, step, pages, landed, x, known, at)
          BY <3>1, <4>1 DEF Run
        <5> QED
          BY <5>1
      <4>2. CASE run = [runs[r] EXCEPT !.landed = x]
        <5>1. run = Run(pc, plan, step, pages, x, failed, known, at)
          BY <3>1, <4>2 DEF Run
        <5> QED
          BY <5>1
      <4> QED
        BY <2>6, <4>1, <4>2
    <3> DEFINE next == [run EXCEPT !.step = step + 1]
               after == [next EXCEPT !.pages = <<>>]
    <3>3. AfterStep(run) = after
      <4>1. run.step = step
        BY <3>2 DEF Run
      <4> QED
        BY <4>1 DEF AfterStep
    <3>4. next = Run(pc, plan, step + 1, pages, n, m, known, at)
      BY <3>2 DEF Run
    <3> HIDE DEF next
    <3>5. after = Run(pc, plan, step + 1, <<>>, n, m, known, at)
      BY <3>4 DEF Run
    <3> HIDE DEF after
    <3>6. step + 1 \in Nat \ {0} /\ <<>> \in Seq(Bodies)
      BY <3>1
    <3>7. runs' = [runs EXCEPT ![r] = Run(pc, plan, step + 1, <<>>, n, m, known, at)]
      BY <2>6, <3>3, <3>5
    <3> QED
      BY <2>4, <3>1, <3>6, <3>7
  <2>7. ASSUME NEW r \in Callers, Begin(r) PROVE IInv'
    <3>1. PICK plan, known :
            /\ plan \in PlansOf(r)
            /\ runs' = [runs EXCEPT ![r] = [NotRun EXCEPT !.pc = "running", !.plan = plan,
                                                          !.known = known, !.at = clock + 1]]
      BY <2>7 DEF Begin
    <3> DEFINE r1 == [NotRun EXCEPT !.pc = "running"]
               r2 == [r1 EXCEPT !.plan = plan]
               r3 == [r2 EXCEPT !.known = known]
               r4 == [r3 EXCEPT !.at = clock + 1]
    <3>2. PICK pc, none, step, pages, landed, failed, nothing, at :
            /\ NotRun = Run(pc, none, step, pages, landed, failed, nothing, at)
            /\ step \in Nat \ {0} /\ pages \in Seq(Bodies) /\ pages = <<>>
      BY <2>0
    <3>3. NotRun = Run(pc, none, step, pages, landed, failed, nothing, at)
      BY <3>2
    <3>4. runs' = [runs EXCEPT ![r] = r4]
      BY <3>1
    <3>5. r1 = Run("running", none, step, pages, landed, failed, nothing, at)
      BY <3>3 DEF Run
    <3> HIDE DEF r1
    <3>6. r2 = Run("running", plan, step, pages, landed, failed, nothing, at)
      BY <3>5 DEF Run
    <3> HIDE DEF r2
    <3>7. r3 = Run("running", plan, step, pages, landed, failed, known, at)
      BY <3>6 DEF Run
    <3> HIDE DEF r3
    <3>8. r4 = Run("running", plan, step, pages, landed, failed, known, clock + 1)
      BY <3>7 DEF Run
    <3> HIDE DEF r4
    <3>9. runs' = [runs EXCEPT ![r] = Run("running", plan, step, pages, landed, failed, known, clock + 1)]
      BY <3>4, <3>8
    <3>10. RunsInv'
      <4>1. plan \in PlansOf(r)
        BY <3>1
      <4>2. pages # <<>> => NextPage(pages[Len(pages)]) # NoUrl
        BY <3>2
      <4> DEFINE now == "running"
      <4>3. now = "running" => plan \in PlansOf(r)
        BY <4>1
      <4>4. runs' = [runs EXCEPT ![r] = Run(now, plan, step, pages, landed, failed, known, clock + 1)]
        BY <3>9
      <4> HIDE DEF now
      <4> QED
        BY <2>4, <3>2, <4>2, <4>3, <4>4
    <3> QED
      BY <2>2, <2>7, <3>10 DEF Begin, IInv
  <2>8. ASSUME NEW r \in Callers, Unfetchable(r) PROVE IInv'
    <3>1. RunsInv'
      BY <2>4, <2>6, <2>8 DEF Unfetchable, Fails
    <3> QED
      BY <2>2, <2>8, <3>1 DEF Unfetchable, IInv
  <2>9. ASSUME NEW r \in Callers, Ask(r) PROVE IInv'
    <3> DEFINE url == NextUrl(r)
               h == HostOf(url)
    <3>1. url \in Urls
      BY <2>1, <2>9, AskedIsUrl
    <3>2. h \in Hosts /\ Request(r, url) /\ UNCHANGED runs
      BY <2>9, <3>1 DEF Hosts, Ask
    <3> HIDE DEF url
    <3>3. ASSUME NEW answer \in Answers \ {"ok", "not-modified"}, Refuse(r, url, answer)
          PROVE  TransportInv'
      <4> DEFINE n == [Resting EXCEPT !.pc = "answered", !.url = url, !.answer = answer]
      <4>1. Resting \in CallRecords
        BY DEF Resting, CallRecords, Answers
      <4>2. n \in CallRecords
        BY <3>1, <4>1 DEF CallRecords
      <4>3. n.pc = "answered" /\ n.url = url /\ n.answer = answer
        BY <4>1 DEF CallRecords
      <4>4. calls' = [calls EXCEPT ![r] = n] /\ UNCHANGED <<served, cache, sentAge>>
        BY <3>2, <3>3 DEF Refuse, Request
      <4> HIDE DEF n
      <4>5. CallInv(n)
        BY <3>1, <4>3 DEF CallInv
      <4> QED
        BY <2>5, <4>2, <4>4, <4>5
    <3>4. CASE UNCHANGED breaker /\ (Refuse(r, url, "not-allowed") \/ Refuse(r, url, "circuit-open"))
      <4>1. TransportInv'
        BY <3>3, <3>4 DEF Answers
      <4>2. BreakerInv'
        BY <2>1, <3>2, <3>4 DEF Request, BreakerInv
      <4> QED
        BY <2>3, <3>2, <4>1, <4>2 DEF IInv
    <3>5. CASE /\ breaker' = [breaker EXCEPT ![h].trial = @ \/ Check(breaker[h]) = "half"]
               /\ calls' = [calls EXCEPT ![r] =
                    Pace([Resting EXCEPT !.url = url, !.cached = cache[CacheKey(url)],
                                         !.held = {served[url]}], h)]
      <4> DEFINE b == [breaker[h] EXCEPT !.trial = @ \/ Check(breaker[h]) = "half"]
                 kept == cache[CacheKey(url)]
                 m == [Resting EXCEPT !.url = url, !.cached = kept, !.held = {served[url]}]
                 n == Pace(m, h)
      <4>1. b \in Breakers /\ Agree(b, streak[h])
        <5>1. breaker[h] \in Breakers /\ Agree(breaker[h], streak[h])
          BY <2>1, <3>2 DEF BreakerInv
        <5>2. Check(breaker[h]) = "half" => breaker[h].open
          BY DEF Check
        <5> QED
          BY <5>1, <5>2 DEF Breakers, Agree
      <4>2. breaker' = [breaker EXCEPT ![h] = b] /\ UNCHANGED streak
        BY <3>2, <3>5 DEF Request
      <4>3. BreakerInv'
        <5> HIDE DEF b
        <5> QED
          BY <2>1, <3>2, <4>1, <4>2 DEF BreakerInv
      <4>4. m \in CallRecords /\ m.url = url
        <5>1. Resting \in CallRecords
          BY DEF Resting, CallRecords, Answers
        <5>2. kept \in Bodies \cup {NoBody} /\ {served[url]} \in SUBSET Nat
          BY <2>1, <3>1 DEF HostInv, CacheKey
        <5> HIDE DEF kept
        <5> QED
          BY <3>1, <5>1, <5>2 DEF CallRecords
      <4>5. n \in CallRecords /\ n.pc = "paced" /\ n.url = url
        <5> DEFINE w == IF sentAge[h] < MinInterval THEN MinInterval - sentAge[h] ELSE 0
        <5>1. sentAge[h] \in Nat
          BY <2>1, <3>2 DEF HostInv
        <5>2. w \in Nat
          BY <5>1
        <5>3. n = [m EXCEPT !.pc = "paced", !.wait = w]
          BY DEF Pace
        <5> HIDE DEF w, m, n
        <5> QED
          BY <4>4, <5>2, <5>3 DEF CallRecords
      <4>6. calls' = [calls EXCEPT ![r] = n] /\ UNCHANGED <<served, cache, sentAge>>
        BY <3>2, <3>5 DEF Request
      <4> HIDE DEF n
      <4>7. CallInv(n)
        BY <3>1, <4>5 DEF CallInv
      <4> QED
        BY <2>3, <2>5, <3>2, <4>3, <4>5, <4>6, <4>7 DEF IInv
    <3> QED
      BY <3>2, <3>4, <3>5 DEF Request
  <2>10. ASSUME NEW r \in Callers, Page(r) PROVE IInv'
    <3> DEFINE pages == Append(runs[r].pages, calls[r].reply)
    <3>1. TransportInv'
      <4>1. Resting \in CallRecords /\ CallInv(Resting)
        BY DEF Resting, CallRecords, Answers, CallInv
      <4>2. calls' = [calls EXCEPT ![r] = Resting] /\ UNCHANGED <<served, cache, sentAge>>
        BY <2>10 DEF Page
      <4> QED
        BY <2>5, <4>1, <4>2
    <3>2. BreakerInv'
      BY <2>1, <2>10 DEF Page, BreakerInv
    <3>3. CASE Fails(r)
      <4>1. RunsInv'
        BY <2>4, <2>6, <3>3 DEF Fails
      <4> QED
        BY <3>1, <3>2, <4>1 DEF IInv
    <3>4. CASE runs' = [runs EXCEPT ![r] =
                 AfterStep([runs[r] EXCEPT !.landed = Append(@, Landing(runs[r], pages))])]
      <4>1. RunsInv'
        BY <2>4, <2>6, <3>4
      <4> QED
        BY <3>1, <3>2, <4>1 DEF IInv
    <3>5. CASE /\ calls[r].pc = "answered" /\ calls[r].answer \in {"ok", "not-modified"}
               /\ ~LastPage(pages) /\ runs' = [runs EXCEPT ![r].pages = pages]
      <4>1. calls[r].reply \in Bodies /\ runs[r].pages \in Seq(Bodies)
        BY <2>1, <3>5 DEF TransportInv, CallInv, RunsInv, RunInv
      <4>2. pages \in Seq(Bodies) /\ pages # <<>>
        BY <4>1
      <4>3. NextPage(pages[Len(pages)]) # NoUrl
        BY <3>5 DEF LastPage
      <4> HIDE DEF pages
      <4>4. PICK pc, plan, step, old, landed, failed, known, at :
              /\ runs[r] = Run(pc, plan, step, old, landed, failed, known, at)
              /\ step \in Nat \ {0} /\ (pc = "running" => plan \in PlansOf(r))
        BY <2>1 DEF RunsInv, RunInv
      <4> DEFINE run == [runs[r] EXCEPT !.pages = pages]
      <4>5. run = Run(pc, plan, step, pages, landed, failed, known, at)
        BY <4>4 DEF Run
      <4>6. runs' = [runs EXCEPT ![r] = run]
        BY <3>5
      <4> HIDE DEF run
      <4>7. runs' = [runs EXCEPT ![r] = Run(pc, plan, step, pages, landed, failed, known, at)]
        BY <4>5, <4>6
      <4>8. RunsInv'
        BY <2>4, <4>2, <4>3, <4>4, <4>7
      <4> QED
        BY <3>1, <3>2, <4>8 DEF IInv
    <3> HIDE DEF pages
    <3> QED
      BY <2>10, <3>3, <3>4, <3>5 DEF Page, pages
  <2>11. ASSUME NEW r \in Callers, Finish(r) PROVE IInv'
    <3> DEFINE run == [NotRun EXCEPT !.pc = "over"]
    <3>1. runs' = [runs EXCEPT ![r] = run] /\ UNCHANGED transport
      BY <2>11 DEF Finish
    <3>2. PICK pc, plan, step, pages, landed, failed, known, at :
            /\ NotRun = Run(pc, plan, step, pages, landed, failed, known, at)
            /\ step \in Nat \ {0} /\ pages \in Seq(Bodies) /\ pages = <<>>
      BY <2>0
    <3>3. NotRun = Run(pc, plan, step, pages, landed, failed, known, at)
      BY <3>2
    <3>4. run = Run("over", plan, step, pages, landed, failed, known, at)
      BY <3>3 DEF Run
    <3> HIDE DEF run
    <3>5. runs' = [runs EXCEPT ![r] = Run("over", plan, step, pages, landed, failed, known, at)]
      BY <3>1, <3>4
    <3>6. "over" = "running" => plan \in PlansOf(r)
      OBVIOUS
    <3>7. pages # <<>> => NextPage(pages[Len(pages)]) # NoUrl
      BY <3>2
    <3> DEFINE over == "over"
    <3>8. over = "running" => plan \in PlansOf(r)
      BY <3>6
    <3>9. runs' = [runs EXCEPT ![r] = Run(over, plan, step, pages, landed, failed, known, at)]
      BY <3>5
    <3> HIDE DEF over
    <3>10. RunsInv'
      BY <2>4, <3>2, <3>7, <3>8, <3>9
    <3> QED
      BY <2>2, <3>1, <3>10 DEF IInv
  <2>12. ASSUME NEW r \in Callers, Transporting(r) PROVE IInv'
    BY <2>1, <2>3, <2>12, <1>cs DEF Transporting, Pipeline, IInv
  <2>13. ASSUME NEW u \in Urls, Publish(u), UNCHANGED Pipeline PROVE IInv'
    <3>1. served[u] \in Nat /\ served' \in [Urls -> 1..MaxVersion]
      BY <2>1, <2>13 DEF Publish, HostInv
    <3>2. HostInv'
      BY <2>1, <2>13, <3>1 DEF Publish, HostInv
    <3>3. ASSUME NEW c \in Callers PROVE calls'[c] \in CallRecords /\ CallInv(calls'[c])
      <4> DEFINE n == [calls[c] EXCEPT !.held = @ \cup {served[u] + 1}]
      <4>1. calls[c] \in CallRecords /\ CallInv(calls[c])
        BY <2>1 DEF TransportInv
      <4>2. n \in CallRecords
        BY <3>1, <4>1 DEF CallRecords
      <4>3. /\ n.pc = calls[c].pc /\ n.url = calls[c].url /\ n.cached = calls[c].cached
            /\ n.reply = calls[c].reply /\ n.answer = calls[c].answer
        BY <4>1 DEF CallRecords
      <4>4. calls'[c] = n \/ calls'[c] = calls[c]
        BY <2>13 DEF Publish
      <4> HIDE DEF n
      <4>5. CallInv(n)
        BY <4>1, <4>3 DEF CallInv
      <4> QED
        BY <4>1, <4>2, <4>4, <4>5
    <3>4. calls' \in [Callers -> CallRecords]
      BY <2>13, <3>3 DEF Publish
    <3>5. TransportInv' /\ BreakerInv'
      BY <2>1, <2>13, <3>2, <3>3, <3>4 DEF Publish, TransportInv, BreakerInv
    <3> QED
      BY <2>3, <2>13, <3>5 DEF Pipeline, IInv
  <2>14. ASSUME Tick, UNCHANGED Pipeline PROVE IInv'
    <3>1. ASSUME NEW h \in Hosts
          PROVE  breaker'[h] \in Breakers /\ streak'[h] \in Streaks /\ Agree(breaker'[h], streak'[h])
      <4> DEFINE b == [breaker[h] EXCEPT !.age = Older(@, Cooldown)]
                 s == [streak[h] EXCEPT !.age = Older(@, Cooldown)]
      <4>1. breaker[h] \in Breakers /\ streak[h] \in Streaks /\ Agree(breaker[h], streak[h])
        BY <2>1 DEF BreakerInv
      <4>2. Older(breaker[h].age, Cooldown) \in Nat /\ Older(streak[h].age, Cooldown) \in Nat
        BY <4>1 DEF Older, Capped, Breakers, Streaks
      <4>3. b \in Breakers /\ s \in Streaks
        BY <4>1, <4>2 DEF Breakers, Streaks
      <4>4. /\ b.failures = breaker[h].failures /\ b.open = breaker[h].open
            /\ b.trial = breaker[h].trial /\ b.age = Older(breaker[h].age, Cooldown)
            /\ s.failed = streak[h].failed /\ s.age = Older(streak[h].age, Cooldown)
        BY <4>1 DEF Breakers, Streaks
      <4>5. /\ breaker'[h] = IF breaker[h].open THEN b ELSE breaker[h]
            /\ streak'[h] = IF streak[h].failed > 0 THEN s ELSE streak[h]
        BY <2>14 DEF Tick
      <4> HIDE DEF b, s
      <4>6. breaker[h].open => streak[h].failed > 0
        BY <4>1 DEF Agree
      <4>7. CASE breaker[h].open
        BY <4>1, <4>3, <4>4, <4>5, <4>6, <4>7 DEF Agree
      <4>8. CASE ~breaker[h].open
        BY <4>1, <4>3, <4>4, <4>5, <4>8 DEF Agree
      <4> QED
        BY <4>7, <4>8
    <3>2. BreakerInv'
      BY <2>14, <3>1 DEF Tick, BreakerInv
    <3>3. HostInv'
      BY <2>1, <2>14 DEF Tick, Older, Capped, HostInv
    <3>4. ASSUME NEW c \in Callers PROVE calls'[c] \in CallRecords /\ CallInv(calls'[c])
      <4> DEFINE w == IF calls[c].wait > 0 THEN calls[c].wait - 1 ELSE 0
                 n == [calls[c] EXCEPT !.wait = w]
      <4>1. calls[c] \in CallRecords /\ CallInv(calls[c])
        BY <2>1 DEF TransportInv
      <4>2. w \in Nat
        BY <4>1 DEF CallRecords
      <4>3. calls'[c] = n
        BY <2>14 DEF Tick
      <4> HIDE DEF w
      <4>4. n \in CallRecords
        BY <4>1, <4>2 DEF CallRecords
      <4>5. /\ n.pc = calls[c].pc /\ n.url = calls[c].url /\ n.cached = calls[c].cached
            /\ n.reply = calls[c].reply /\ n.answer = calls[c].answer
        BY <4>1 DEF CallRecords
      <4> HIDE DEF n
      <4> QED
        BY <4>1, <4>3, <4>4, <4>5 DEF CallInv
    <3>5. calls' \in [Callers -> CallRecords]
      BY <2>14, <3>4 DEF Tick
    <3>6. TransportInv'
      BY <3>3, <3>4, <3>5 DEF TransportInv
    <3> QED
      BY <2>3, <2>14, <3>2, <3>6 DEF Pipeline, IInv
  <2>15. CASE UNCHANGED vars
    BY <2>2, <2>3, <2>15 DEF vars, IInv
  <2> QED
    BY <2>7, <2>8, <2>9, <2>10, <2>11, <2>12, <2>13, <2>14, <2>15 DEF Next, RunStep, Passing
<1> QED
  BY <1>1, <1>2, PTL DEF Spec

-----------------------------------------------------------------------------
(* A host that has failed as often as it may is asked nothing new before a   *)
(* cooldown has passed since its last failure, whatever requests were under  *)
(* way: a request is let through only past the breaker, and the breaker is   *)
(* open with the age of that failure.                                        *)
THEOREM BreakerHolds == Spec => FailingHostIsLeftAlone
<1> USE BreakerAssumption
<1> DEFINE Left(c) == calls[c].pc = "idle" /\ calls'[c].pc = "paced" =>
                        LET s == streak[HostOf(calls'[c].url)] IN s.failed < Threshold \/ s.age >= Cooldown
<1>1. ASSUME IInv, [Next]_vars, NEW c \in Callers PROVE Left(c)
  <2>1. calls \in [Callers -> CallRecords]
    BY <1>1 DEF IInv, TransportInv
  <2>2. CASE calls'[c].pc = calls[c].pc \/ calls[c].pc # "idle" \/ calls'[c].pc # "paced"
    BY <2>2
  <2>3. ASSUME NEW r \in Callers, Ask(r) PROVE Left(c)
    <3> DEFINE url == NextUrl(r)
               h == HostOf(url)
    <3>1. Request(r, url) /\ h \in Hosts
      BY <1>1, <2>3, AskedIsUrl DEF Ask, IInv, Hosts
    <3> HIDE DEF url
    <3>2. CASE Refuse(r, url, "not-allowed") \/ Refuse(r, url, "circuit-open")
      BY <2>1, <2>2, <3>2 DEF Refuse, Resting
    <3>3. CASE ~(Refuse(r, url, "not-allowed") \/ Refuse(r, url, "circuit-open"))
      <4>1. /\ h \in AllowedHosts /\ Check(breaker[h]) # "open"
            /\ calls' = [calls EXCEPT ![r] =
                 Pace([Resting EXCEPT !.url = url, !.cached = cache[CacheKey(url)],
                                      !.held = {served[url]}], h)]
        BY <3>1, <3>3 DEF Request
      <4>2. c # r => calls'[c].pc = calls[c].pc
        BY <2>1, <4>1
      <4>3. calls'[r].url = url
        BY <2>1, <4>1 DEF Pace, Resting
      <4>4. breaker[h] \in Breakers /\ streak[h] \in Streaks /\ Agree(breaker[h], streak[h])
        BY <1>1, <3>1 DEF IInv, BreakerInv
      <4>5. streak[h].failed < Threshold \/ streak[h].age >= Cooldown
        BY <4>1, <4>4 DEF Check, Agree, Breakers, Streaks
      <4> QED
        BY <2>2, <4>2, <4>3, <4>5
    <3> QED
      BY <3>2, <3>3
  <2>4. ASSUME NEW r \in Callers, Begin(r) \/ Unfetchable(r) \/ Finish(r) PROVE Left(c)
    BY <2>2, <2>4 DEF Begin, Unfetchable, Finish, transport
  <2>5. ASSUME NEW r \in Callers, Page(r) PROVE Left(c)
    <3>1. calls' = [calls EXCEPT ![r] = Resting]
      BY <2>5 DEF Page
    <3> QED
      BY <2>1, <2>2, <3>1 DEF Resting
  <2>6. ASSUME NEW r \in Callers, CallStep(r) PROVE Left(c)
    <3>1. calls[r].pc # "idle"
      BY <2>6 DEF CallStep, Send, Serve, BeginBody, Receive, FailRetryably, FailForGood, Retry
    <3>2. c # r => calls'[c] = calls[c]
      BY <2>1, <2>6 DEF CallStep, Send, Serve, BeginBody, Receive, FailRetryably, FailForGood, Retry, Answer
    <3> QED
      BY <2>2, <3>1, <3>2
  <2>7. ASSUME NEW u \in Urls, Publish(u) PROVE Left(c)
    <3>1. calls'[c].pc = calls[c].pc
      BY <2>1, <2>7 DEF Publish, CallRecords
    <3> QED
      BY <2>2, <3>1
  <2>8. CASE Tick
    <3>1. calls'[c].pc = calls[c].pc
      BY <2>1, <2>8 DEF Tick, CallRecords
    <3> QED
      BY <2>2, <3>1
  <2>9. CASE UNCHANGED vars
    BY <2>2, <2>9 DEF vars, transport
  <2> QED
    BY <1>1, <2>3, <2>4, <2>5, <2>6, <2>7, <2>8, <2>9 DEF Next, RunStep, Transporting, Passing
<1>2. IInv /\ [Next]_vars => [\A c \in Callers : Left(c)]_transport
  BY <1>1
<1> QED
  BY <1>2, IngestInvariant, PTL DEF Spec, FailingHostIsLeftAlone
-----------------------------------------------------------------------------
(* What a request under way knows: the version its URL serves is among those   *)
(* seen since it asked, and the body it kept, or was given, is of its own URL. *)
Live(call) == call.pc \in {"paced", "sent", "served", "body", "backoff"}
Current(b, call) == b.url = call.url /\ b.version \in call.held

CurrentInv(call) ==
  /\ Live(call) => /\ served[call.url] \in call.held
                   /\ call.cached # NoBody => call.cached.url = call.url
  /\ call.pc = "served" /\ call.answer = "ok" => Current(call.reply, call)
  /\ call.pc = "served" /\ call.answer = "not-modified" => Current(call.cached, call)
  /\ call.pc = "body" => Current(call.reply, call)
  /\ call.pc = "answered" /\ call.answer \in {"ok", "not-modified"} => Current(call.reply, call)

CurrentBodies ==
  /\ \A u \in Urls : cache[u] # NoBody => cache[u].url = u
  /\ \A c \in Callers : CurrentInv(calls[c])

(* A caller is never handed another URL's body, nor one its URL had stopped   *)
(* serving before the caller asked, whatever others put into the cache.       *)
THEOREM CallersGetCurrentBodies == Spec => []BodiesAreCurrent
<1>1. Init => CurrentBodies
  <2>1. Resting.pc = "idle"
    BY DEF Resting
  <2> QED
    BY <2>1 DEF Init, TransportInit, CurrentBodies, CurrentInv, Live
<1>2. ASSUME IInv, CurrentBodies, [Next]_vars PROVE CurrentBodies'
  <2> USE BreakerAssumption
  <2>1. HostInv /\ calls \in [Callers -> CallRecords] /\ \A c \in Callers : CallInv(calls[c])
    BY <1>2 DEF IInv, TransportInv
  <2>2. Resting \in CallRecords /\ Resting.pc = "idle"
    BY DEF Resting, CallRecords, Answers
  <2>3. ASSUME NEW r \in Callers, NEW n, CurrentInv(n), calls' = [calls EXCEPT ![r] = n],
               UNCHANGED served, \A u \in Urls : cache'[u] # NoBody => cache'[u].url = u
        PROVE  CurrentBodies'
    BY <1>2, <2>1, <2>3 DEF CurrentBodies, CurrentInv
  <2>4. ASSUME NEW r \in Callers, NEW n, CurrentInv(n), calls' = [calls EXCEPT ![r] = n],
               UNCHANGED <<served, cache>>
        PROVE  CurrentBodies'
    BY <1>2, <2>3, <2>4 DEF CurrentBodies
  <2>5. ASSUME UNCHANGED transport PROVE CurrentBodies'
    BY <1>2, <2>5 DEF transport, CurrentBodies, CurrentInv
  (* However a call comes to be paced, it knows what it knew.                 *)
  <2>6. ASSUME NEW m \in CallRecords, NEW h \in Hosts, served[m.url] \in m.held,
               m.cached # NoBody => m.cached.url = m.url
        PROVE  CurrentInv(Pace(m, h))
    <3> DEFINE w == IF sentAge[h] < MinInterval THEN MinInterval - sentAge[h] ELSE 0
               n == Pace(m, h)
    <3>1. n = [m EXCEPT !.pc = "paced", !.wait = w]
      BY DEF Pace
    <3>2. n.pc = "paced" /\ n.url = m.url /\ n.held = m.held /\ n.cached = m.cached
      BY <3>1 DEF CallRecords
    <3> HIDE DEF n
    <3>3. CurrentInv(n)
      BY <2>6, <3>2 DEF CurrentInv, Live
    <3> QED
      BY <3>3 DEF n
  <2>7. ASSUME NEW r \in Callers, Ask(r) PROVE CurrentBodies'
    <3> DEFINE url == NextUrl(r)
               h == HostOf(url)
    <3>1. url \in Urls /\ h \in Hosts /\ Request(r, url)
      BY <1>2, <2>7, AskedIsUrl DEF IInv, Hosts, Ask
    <3> HIDE DEF url
    <3>2. ASSUME NEW answer \in {"not-allowed", "circuit-open"}, Refuse(r, url, answer)
          PROVE  CurrentBodies'
      <4> DEFINE n == [Resting EXCEPT !.pc = "answered", !.url = url, !.answer = answer]
      <4>1. n.pc = "answered" /\ n.answer = answer
        BY <2>2 DEF CallRecords
      <4>2. calls' = [calls EXCEPT ![r] = n] /\ UNCHANGED <<served, cache>>
        BY <3>1, <3>2 DEF Refuse, Request
      <4> HIDE DEF n
      <4>3. CurrentInv(n)
        BY <4>1 DEF CurrentInv, Live
      <4> QED
        BY <2>4, <4>2, <4>3
    <3>3. CASE ~(Refuse(r, url, "not-allowed") \/ Refuse(r, url, "circuit-open"))
      <4> DEFINE kept == cache[url]
                 m == [Resting EXCEPT !.url = url, !.cached = kept, !.held = {served[url]}]
                 n == Pace(m, h)
      <4>1. calls' = [calls EXCEPT ![r] = n] /\ UNCHANGED <<served, cache>>
        BY <3>1, <3>3 DEF Request, CacheKey
      <4>2. m \in CallRecords /\ m.url = url /\ m.cached = kept /\ m.held = {served[url]}
        <5>1. kept \in Bodies \cup {NoBody} /\ {served[url]} \in SUBSET Nat
          BY <2>1, <3>1 DEF HostInv
        <5> HIDE DEF kept
        <5> QED
          BY <2>2, <3>1, <5>1 DEF CallRecords
      <4>3. kept # NoBody => kept.url = url
        BY <1>2, <3>1 DEF CurrentBodies
      <4> HIDE DEF kept, m
      <4>4. CurrentInv(n)
        BY <2>6, <3>1, <4>2, <4>3
      <4> HIDE DEF n
      <4> QED
        BY <2>4, <4>1, <4>4
    <3> QED
      BY <3>2, <3>3
  <2>8. ASSUME NEW r \in Callers, Page(r) PROVE CurrentBodies'
    <3>1. calls' = [calls EXCEPT ![r] = Resting] /\ UNCHANGED <<served, cache>>
      BY <2>8 DEF Page
    <3>2. CurrentInv(Resting)
      BY <2>2 DEF CurrentInv, Live
    <3> QED
      BY <2>4, <3>1, <3>2
  <2>9. ASSUME NEW r \in Callers, CallStep(r) PROVE CurrentBodies'
    <3>1. PICK call \in CallRecords : call = calls[r] /\ CurrentInv(call) /\ CallInv(call)
      BY <1>2, <2>1 DEF CurrentBodies
    <3>2. ASSUME NEW answer \in Answers, NEW reply, Answer(r, answer, reply),
                 answer \in {"ok", "not-modified"} => Current(reply, call),
                 UNCHANGED served, \A u \in Urls : cache'[u] # NoBody => cache'[u].url = u
          PROVE  CurrentBodies'
      <4> DEFINE n == [Resting EXCEPT !.pc = "answered", !.url = call.url, !.answer = answer,
                                      !.reply = reply, !.held = call.held]
      <4>1. /\ n.pc = "answered" /\ n.url = call.url /\ n.answer = answer
            /\ n.reply = reply /\ n.held = call.held
        BY DEF Resting
      <4>2. calls' = [calls EXCEPT ![r] = n]
        BY <3>1, <3>2 DEF Answer
      <4> HIDE DEF n
      <4>3. CurrentInv(n)
        BY <3>2, <4>1 DEF CurrentInv, Live, Current
      <4> QED
        BY <2>3, <3>2, <4>2, <4>3
    <3>3. CASE Send(r)
      <4> DEFINE n == [call EXCEPT !.pc = "sent"]
      <4>1. n.pc = "sent" /\ n.url = call.url /\ n.held = call.held /\ n.cached = call.cached
        BY DEF CallRecords
      <4>2. calls' = [calls EXCEPT ![r] = n] /\ UNCHANGED <<served, cache>> /\ call.pc = "paced"
        BY <3>1, <3>3 DEF Send
      <4> HIDE DEF n
      <4>3. CurrentInv(n)
        BY <3>1, <4>1, <4>2 DEF CurrentInv, Live
      <4> QED
        BY <2>4, <4>2, <4>3
    <3>4. CASE Serve(r)
      <4> DEFINE same == call.cached # NoBody /\ call.cached.version = served[call.url]
                 fresh == Body(call.url, served[call.url])
                 a == IF same THEN "not-modified" ELSE "ok"
                 b == IF same THEN NoBody ELSE fresh
                 n == [call EXCEPT !.pc = "served", !.answer = a, !.reply = b]
      <4>1. call.pc = "sent" /\ UNCHANGED <<served, cache>> /\ calls' = [calls EXCEPT ![r] = n]
        BY <2>1, <3>1, <3>4 DEF Serve
      <4>2. /\ n.pc = "served" /\ n.url = call.url /\ n.held = call.held /\ n.cached = call.cached
            /\ n.answer = a /\ n.reply = b
        <5> HIDE DEF a, b
        <5> QED
          BY DEF CallRecords
      <4>3. fresh.url = call.url /\ fresh.version = served[call.url]
        BY DEF Body
      <4>4. served[call.url] \in call.held /\ (call.cached # NoBody => call.cached.url = call.url)
        BY <3>1, <4>1 DEF CurrentInv, Live
      <4>5. (a = "ok" <=> ~same) /\ (a = "not-modified" <=> same)
        OBVIOUS
      <4>6. (same => Current(call.cached, call)) /\ (~same => b = fresh /\ Current(fresh, call))
        <5> HIDE DEF fresh
        <5> QED
          BY <4>3, <4>4 DEF Current
      <4> HIDE DEF same, fresh, a, b, n
      <4>7. CurrentInv(n)
        BY <4>2, <4>4, <4>5, <4>6 DEF CurrentInv, Live, Current
      <4> QED
        BY <2>4, <4>1, <4>7
    <3>b. CASE BeginBody(r)
      <4> DEFINE n == [call EXCEPT !.pc = "body"]
      <4>1. /\ n.pc = "body" /\ n.url = call.url /\ n.held = call.held /\ n.cached = call.cached
            /\ n.reply = call.reply
        BY DEF CallRecords
      <4>2. /\ calls' = [calls EXCEPT ![r] = n] /\ UNCHANGED <<served, cache>>
            /\ call.pc = "served" /\ call.answer = "ok"
        BY <3>1, <3>b DEF BeginBody
      <4> HIDE DEF n
      <4>3. CurrentInv(n)
        BY <3>1, <4>1, <4>2 DEF CurrentInv, Live, Current
      <4> QED
        BY <2>4, <4>2, <4>3
    <3>5. CASE Receive(r)
      <4> DEFINE kept == call.answer = "not-modified"
                 reply == IF kept THEN call.cached ELSE call.reply
      <4>1. /\ call.pc = IF kept THEN "served" ELSE "body"
            /\ call.answer \in {"ok", "not-modified"} /\ call.url \in Urls
        BY <3>1, <3>5 DEF Receive, CallInv
      <4>2. /\ Answer(r, call.answer, reply) /\ UNCHANGED served
            /\ cache' = IF kept THEN cache ELSE [cache EXCEPT ![call.url] = call.reply]
        BY <3>1, <3>5 DEF Receive, CacheKey
      <4>3. Current(reply, call)
        BY <3>1, <4>1 DEF CurrentInv
      <4>4. ASSUME NEW u \in Urls, cache'[u] # NoBody PROVE cache'[u].url = u
        BY <1>2, <2>1, <4>1, <4>2, <4>3, <4>4 DEF CurrentBodies, Current, HostInv
      <4>5. call.answer \in Answers
        BY DEF CallRecords
      <4> HIDE DEF reply
      <4> QED
        BY <3>2, <4>2, <4>3, <4>4, <4>5
    <3>6. CASE FailRetryably(r) \/ FailForGood(r)
      <4>1. UNCHANGED <<served, cache>> /\ \A u \in Urls : cache'[u] # NoBody => cache'[u].url = u
        BY <1>2, <3>6 DEF FailRetryably, FailForGood, CurrentBodies
      <4>2. CASE Answer(r, "failed", NoBody)
        <5> DEFINE failed == "failed"
        <5>1. failed \in Answers /\ failed \notin {"ok", "not-modified"} /\ Answer(r, failed, NoBody)
          BY <4>2 DEF Answers
        <5> HIDE DEF failed
        <5> QED
          BY <3>2, <4>1, <5>1
      <4>3. CASE ~Answer(r, "failed", NoBody)
        <5> DEFINE n == [call EXCEPT !.pc = "backoff", !.attempt = Capped(@ + 1, MaxRetries + 1),
                                     !.answer = "none", !.reply = NoBody]
        <5>1. calls' = [calls EXCEPT ![r] = n] /\ call.pc \in {"sent", "served", "body"}
          BY <3>1, <3>6, <4>3 DEF FailRetryably, FailForGood
        <5>2. n.pc = "backoff" /\ n.url = call.url /\ n.held = call.held /\ n.cached = call.cached
          BY DEF CallRecords
        <5> HIDE DEF n
        <5>3. CurrentInv(n)
          BY <3>1, <5>1, <5>2 DEF CurrentInv, Live
        <5> QED
          BY <2>4, <4>1, <5>1, <5>3
      <4> QED
        BY <4>2, <4>3
    <3>7. CASE Retry(r)
      <4> DEFINE n == Pace(call, HostOf(call.url))
      <4>1. /\ call.pc = "backoff" /\ call.url \in Urls /\ UNCHANGED <<served, cache>>
            /\ calls' = [calls EXCEPT ![r] = n]
        BY <2>1, <3>1, <3>7 DEF Retry, CallInv
      <4>2. HostOf(call.url) \in Hosts
        BY <4>1 DEF Hosts
      <4>3. CurrentInv(n)
        BY <2>6, <3>1, <4>1, <4>2 DEF CurrentInv, Live
      <4> HIDE DEF n
      <4> QED
        BY <2>4, <4>1, <4>3
    <3> QED
      BY <2>9, <3>3, <3>b, <3>4, <3>5, <3>6, <3>7 DEF CallStep
  (* A URL changes: whoever is asking for it sees the new version too.        *)
  <2>10. ASSUME NEW u \in Urls, Publish(u) PROVE CurrentBodies'
    <3>1. /\ served' = [served EXCEPT ![u] = @ + 1] /\ served[u] \in Nat /\ UNCHANGED cache
          /\ served' \in [Urls -> Nat]
      BY <2>1, <2>10 DEF Publish, HostInv
    <3>2. ASSUME NEW c \in Callers PROVE CurrentInv(calls[c])'
      <4>1. PICK call \in CallRecords : call = calls[c] /\ CurrentInv(call) /\ CallInv(call)
        BY <1>2, <2>1 DEF CurrentBodies
      <4>2. CASE call.url = u /\ call.pc # "answered"
        <5> DEFINE seen == [call EXCEPT !.held = @ \cup {served[u] + 1}]
        <5>0. PICK n : n = seen
          OBVIOUS
        <5>1. /\ n.pc = call.pc /\ n.url = call.url /\ n.cached = call.cached
              /\ n.reply = call.reply /\ n.answer = call.answer
              /\ n.held = call.held \cup {served[u] + 1}
          BY <5>0 DEF CallRecords
        <5>2. calls'[c] = n
          BY <2>10, <4>1, <4>2, <5>0 DEF Publish
        <5> HIDE DEF seen
        <5>3. CurrentInv(n)'
          BY <3>1, <4>1, <4>2, <5>1 DEF CurrentInv, Live, Current
        <5> QED
          BY <5>2, <5>3
      <4>3. CASE ~(call.url = u /\ call.pc # "answered")
        <5>1. calls'[c] = call
          BY <2>10, <4>1, <4>3 DEF Publish
        <5>2. Live(call) => call.url \in Urls /\ call.url # u
          BY <4>1, <4>3 DEF Live, CallInv
        <5>3. CurrentInv(call)'
          BY <2>1, <3>1, <4>1, <5>2 DEF CurrentInv, HostInv
        <5> QED
          BY <5>1, <5>3
      <4> QED
        BY <4>2, <4>3
    <3> QED
      BY <1>2, <3>1, <3>2 DEF CurrentBodies
  <2>11. ASSUME Tick PROVE CurrentBodies'
    <3>1. ASSUME NEW c \in Callers PROVE CurrentInv(calls[c])'
      <4> DEFINE w == IF calls[c].wait > 0 THEN calls[c].wait - 1 ELSE 0
                 n == [calls[c] EXCEPT !.wait = w]
      <4>1. calls[c] \in CallRecords /\ CurrentInv(calls[c])
        BY <1>2, <2>1 DEF CurrentBodies
      <4>2. calls'[c] = n /\ UNCHANGED served
        BY <2>11 DEF Tick
      <4>3. /\ n.pc = calls[c].pc /\ n.url = calls[c].url /\ n.cached = calls[c].cached
            /\ n.reply = calls[c].reply /\ n.answer = calls[c].answer /\ n.held = calls[c].held
        BY <4>1 DEF CallRecords
      <4> HIDE DEF n
      <4> QED
        BY <4>1, <4>2, <4>3 DEF CurrentInv, Live, Current
    <3> QED
      BY <1>2, <2>11, <3>1 DEF Tick, CurrentBodies
  <2> QED
    BY <1>2, <2>5, <2>7, <2>8, <2>9, <2>10, <2>11
    DEF Next, RunStep, Begin, Unfetchable, Finish, Transporting, Passing, vars
<1>3. CurrentBodies => BodiesAreCurrent
  BY DEF CurrentBodies, CurrentInv, Current, BodiesAreCurrent
<1> QED
  BY <1>1, <1>2, <1>3, IngestInvariant, PTL DEF Spec
=============================================================================

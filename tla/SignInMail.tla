------------------------------ MODULE SignInMail ------------------------------
(***************************************************************************)
(* Asking for a sign-in link by mail (server/src/routes/auth.js, POST      *)
(* /auth/magic/start; auth/magicLink.js, issue), behind the in-process     *)
(* limiters of middleware/rateLimit.js.  Every request names one person's  *)
(* inbox, from any of several network addresses; what the firm allows is   *)
(* decided anew at each (and again at the claim: see Login).               *)
(***************************************************************************)
EXTENDS Integers, Sequences, FiniteSets, SequencesExt

CONSTANTS
    Asks,        \* requests in all (a bound)
    Addresses,   \* network addresses, as one process sees them
    Limiters,    \* the limiters before the handler, in their order
    RateLimit,   \* by limiter, the requests it lets through in a window
    Window,      \* windowMs, the same for each
    Hour,        \* how far back recentLinkCount looks
    PerHour,     \* config.magicLink.perEmailPerHour
    MaxClock     \* the end of time (a bound)

ASSUME LimiterAssumption ==
    /\ Limiters \in Seq(Range(Limiters))
    /\ \A i \in DOMAIN Limiters : RateLimit[Limiters[i]] \in Nat
    /\ Window \in Nat \ {0} /\ Hour \in Nat \ {0} /\ PerHour \in Nat

VARIABLES
    clock,      \* Date.now() and now(), in ticks
    buckets,    \* the limiters' windows
    lastSweep,
    ask,        \* the requests
    links,      \* login_links of the inbox, in the order of their inserts
    inbox,      \* mails accepted for delivery
    \* history, read by properties only:
    admitted,   \* requests the limiters let through: address and time
    refusals,   \* windows in which a limiter refused somebody
    events      \* the rate-limit events of the security log

mailVars == <<clock, buckets, lastSweep, ask, links, inbox, admitted, refusals, events>>

Keys == Range(Limiters) \X Addresses
NoBucket == [count |-> 0, resetAt |-> 0]

\* A request: how many links had been inserted when it counted.
Waiting == [pc |-> "new", seen |-> 0]

MailIdle ==
    /\ clock = 0 /\ lastSweep = 0
    /\ buckets = [k \in Keys |-> NoBucket]
    /\ ask = [r \in Asks |-> Waiting]
    /\ links = <<>> /\ inbox = 0
    /\ admitted = <<>> /\ refusals = {} /\ events = <<>>

Goto(r, pc) == ask' = [ask EXCEPT ![r].pc = pc]

Tick ==
    /\ clock < MaxClock
    /\ clock' = clock + 1
    /\ UNCHANGED <<buckets, lastSweep, ask, links, inbox, admitted, refusals, events>>

----------------------------------------------------------------------------
(* The limiters *)

\* Windows that have ended are dropped, at most once per window.
Swept ==
    IF clock - lastSweep > Window
    THEN [k \in Keys |-> IF buckets[k].resetAt <= clock THEN NoBucket ELSE buckets[k]]
    ELSE buckets

\* A request in a window of its own, or in one that is still running.
Counted(b) ==
    IF b.resetAt <= clock THEN [count |-> 1, resetAt |-> clock + Window]
    ELSE [b EXCEPT !.count = @ + 1]

\* The limiters a request from this address passes, and the one that refuses it.
Refuses(name, bs, address) == Counted(bs[<<name, address>>]).count > RateLimit[name]
Passed(bs, address) ==
    LET stops == {i \in DOMAIN Limiters : Refuses(Limiters[i], bs, address)}
    IN IF stops = {} THEN Len(Limiters) + 1 ELSE CHOOSE i \in stops : \A j \in stops : i <= j

\* Synchronous, one limiter after another until one answers 429.
Arrive(r, address) ==
    /\ ask[r].pc = "new"
    /\ LET bs == Swept
           stop == Passed(bs, address)
           reached == {<<Limiters[i], address>> : i \in 1..(IF stop > Len(Limiters) THEN stop - 1 ELSE stop)}
           after == [k \in Keys |-> IF k \in reached THEN Counted(bs[k]) ELSE bs[k]]
       IN /\ buckets' = after
          /\ lastSweep' = IF clock - lastSweep > Window THEN clock ELSE lastSweep
          /\ IF stop > Len(Limiters)
             THEN /\ Goto(r, "policy")
                  /\ admitted' = Append(admitted, [address |-> address, at |-> clock])
                  /\ UNCHANGED <<refusals, events>>
             ELSE LET name == Limiters[stop]
                      b == after[<<name, address>>]
                      window == <<name, address, b.resetAt>>
                  IN /\ Goto(r, "done")
                     /\ refusals' = refusals \cup {window}
                     /\ events' = IF b.count = RateLimit[name] + 1 THEN Append(events, window) ELSE events
                     /\ UNCHANGED admitted
    /\ UNCHANGED <<clock, links, inbox>>

----------------------------------------------------------------------------
(* issue(), await by await *)

\* resolveTenantForEmail and assertMagicLinkAllowed: no such firm, or one that
\* does not allow it, is answered like any other.
Allow(r) ==
    /\ ask[r].pc = "policy"
    /\ Goto(r, "count") \/ Goto(r, "done")
    /\ UNCHANGED <<clock, buckets, lastSweep, links, inbox, admitted, refusals, events>>

Recent == {i \in DOMAIN links : links[i].at > clock - Hour}

\* One link too many is mailed.
Spent_Past == Cardinality(Recent) > PerHour
Spent == Cardinality(Recent) >= PerHour

CountLinks(r) ==
    /\ ask[r].pc = "count"
    /\ ask' = [ask EXCEPT ![r] = IF Spent THEN [@ EXCEPT !.pc = "done"]
                                 ELSE [pc |-> "insert", seen |-> Len(links)]]
    /\ UNCHANGED <<clock, buckets, lastSweep, links, inbox, admitted, refusals, events>>

InsertLink(r) ==
    /\ ask[r].pc = "insert"
    /\ links' = Append(links, [at |-> clock, overtaken |-> ask[r].seen # Len(links)])
    /\ Goto(r, "send")
    /\ UNCHANGED <<clock, buckets, lastSweep, inbox, admitted, refusals, events>>

\* The mailer throws, and the link's row stays behind.
Send(r) ==
    /\ ask[r].pc = "send"
    /\ inbox' \in {inbox, inbox + 1}
    /\ Goto(r, "done")
    /\ UNCHANGED <<clock, buckets, lastSweep, links, admitted, refusals, events>>

MailNext ==
    \/ Tick
    \/ \E r \in Asks : \/ \E address \in Addresses : Arrive(r, address)
                       \/ Allow(r) \/ CountLinks(r) \/ InsertLink(r) \/ Send(r)

----------------------------------------------------------------------------
(* Properties *)

\* However addresses are rotated and requests overlap, within an hour an inbox
\* is sent no more links than its allowance and one for each request that
\* another one's insert overtook between its count and its own.
LinksAreBounded ==
    /\ Cardinality({i \in Recent : ~links[i].overtaken}) <= PerHour
    /\ inbox <= Len(links)

\* In any stretch as long as a window an address gets through no more than
\* twice what its tightest limiter lets through, whatever the sweep forgets.
BurstsAreBounded ==
    \A address \in Addresses, name \in Range(Limiters) :
        Cardinality({i \in DOMAIN admitted : /\ admitted[i].address = address
                                             /\ admitted[i].at > clock - Window})
            <= 2 * RateLimit[name]

\* A window that refuses is reported once, however many it refuses.
RefusalsAreReportedOnce ==
    /\ Range(events) = refusals
    /\ IsInjective(events)

\* What one person can be mailed, and one address make the server do, is
\* bounded in every interleaving, and the log tells it once.
MailIsBounded == LinksAreBounded /\ BurstsAreBounded /\ RefusalsAreReportedOnce
=============================================================================

----------------------------- MODULE ClientDeals -----------------------------
(***************************************************************************)
(* Where the analyst's deals live (src/src/App.jsx, lib/storage.js and     *)
(* lib/dealStore.js).  With no server, one document in localStorage, read  *)
(* at load and written whole after every change; with one, a row per deal, *)
(* sent as it is edited.  Tabs share the browser's storage, or are those   *)
(* of analysts of one firm.                                                *)
(*                                                                         *)
(* A collection is a function from its deals to the edit each was left by. *)
(***************************************************************************)
EXTENDS Integers, FiniteSets, Functions

CONSTANTS
    Tabs,
    Stored,        \* the deal that was saved before
    Fresh,         \* the deal the New deal button makes
    Sample,        \* the sample portfolio, as one deal
    MaxEdits,      \* by mode, edits in all (a bound)
    NothingSaved,  \* no payload: the key was never written
    Damaged,       \* a payload that does not parse
    Alien          \* one that parses and holds no deals

VARIABLES
    mode,      \* "local" or "remote", of the build; "off" while nobody looks
    backend,   \* the payload under the storage key, or the firm's rows
    copies,    \* payloads set aside under a key of their own
    tab,       \* the pages
    calls,     \* requests the server or a page is still to hear of
    edits,     \* edits so far
    buried     \* history: what the last save put samples over, with the access
               \* at the load that asked for them

storeVars == <<mode, backend, copies, tab, calls, edits, buried>>

AllDeals == {Stored, Fresh, Sample}

ASSUME StoreAssumption ==
    /\ Sample \notin {Stored, Fresh}
    /\ Damaged # Alien /\ NothingSaved \notin {Damaged, Alien}
    /\ \A payload \in {NothingSaved, Damaged, Alien}, deals \in SUBSET AllDeals :
          payload \notin [deals -> Nat]

Put(deals, d, edit) == [x \in DOMAIN deals \cup {d} |-> IF x = d THEN edit ELSE deals[x]]
NoDeals == [d \in {} |-> 0]
SampleDeals == [d \in {Sample} |-> 0]

\* The deals that are saved, where any are.
Kept == IF backend \in {NothingSaved, Damaged, Alien} THEN NoDeals ELSE backend

Closed == [screen |-> "closed", deals |-> NoDeals, placed |-> TRUE, dirty |-> FALSE,
           available |-> TRUE, loadError |-> "none", writeError |-> "none",
           seeded |-> FALSE, seen |-> "ok", excused |-> {}]

StoreInit ==
    /\ mode \in {"local", "remote"}
    /\ backend \in {[d \in {Stored} |-> 0]}
                   \cup (IF mode = "local" THEN {NothingSaved, Damaged, Alien} ELSE {NoDeals})
    /\ copies = {} /\ calls = {} /\ edits = 0 /\ buried = {}
    /\ tab = [t \in Tabs |-> Closed]

StoreIdle ==
    /\ mode = "off" /\ backend = NothingSaved
    /\ copies = {} /\ calls = {} /\ edits = 0 /\ buried = {}
    /\ tab = [t \in Tabs |-> Closed]

\* What the browser lets a page do with its storage at that moment: settings,
\* and the room on the disk, change as they like.  A "tight" one has room for the
\* byte of the probe and none for a second copy of what it holds.
Access == {"ok", "tight", "full", "refusing", "absent"}

\* statusNotices: whether the page says that work is not being saved.
Said(p) == p.writeError # "none" \/ p.loadError = "quota" \/ ~p.available

----------------------------------------------------------------------------
(* One document in localStorage *)

\* hasStoredContent: some key of the origin is set, of the deals or of others.
Content == IF backend # NothingSaved \/ copies # {} THEN {TRUE} ELSE BOOLEAN

\* quotaOrAbsent: a store that is full, or one that never had any room.
QuotaOrAbsent(content) == IF content THEN "quota" ELSE "unavailable"

\* A full store told as an absent one, as the probe that wrote first did.
StorageStatus_FullIsAbsent(access, content) ==
    IF access \in {"ok", "tight"} THEN "available" ELSE "unavailable"

StorageStatus(access, content) ==
    CASE access \in {"ok", "tight"} -> "available"
      [] access = "full" -> QuotaOrAbsent(content)
      [] OTHER -> "unavailable"

\* loadDeals: no deals (so the samples) where the store is absent, empty or
\* unreadable; a full one is still read.
LoadDeals(status) ==
    LET quota == IF status = "quota" THEN "quota" ELSE "none"
    IN CASE status = "unavailable" -> [deals |-> NothingSaved, error |-> "unavailable"]
         [] backend = Damaged /\ status # "unavailable" -> [deals |-> NothingSaved, error |-> "corrupt"]
         [] backend \in {NothingSaved, Alien} /\ status # "unavailable" ->
                [deals |-> NothingSaved, error |-> quota]
         [] OTHER -> [deals |-> backend, error |-> quota]

\* The payload that would not parse is copied first, if there is room for it: a
\* copy that fails is passed over in silence.
SetAside(access, error) ==
    IF error = "corrupt" /\ access = "ok" THEN copies \cup {backend} ELSE copies

Hydrate(t) ==
    /\ mode = "local" /\ tab[t].screen = "closed"
    /\ \E access \in Access, content \in Content :
           LET status == StorageStatus(access, content)
               load == LoadDeals(status)
               none == load.deals = NothingSaved
           IN /\ tab' = [tab EXCEPT ![t] =
                     [Closed EXCEPT !.screen = "open", !.dirty = TRUE,
                          !.deals = IF none THEN SampleDeals ELSE load.deals,
                          !.available = status = "available", !.loadError = load.error,
                          !.seeded = none, !.seen = IF none THEN access ELSE "ok"]]
              /\ copies' = SetAside(access, load.error)
    /\ UNCHANGED <<mode, backend, calls, edits, buried>>

\* saveDeals, after a change, and its verdict on the page.
SaveError(access, content) ==
    CASE access = "ok" -> {"none"}
      [] access \in {"tight", "full"} -> {"none", QuotaOrAbsent(content)}
      [] access = "refusing" -> {"write-failed"}
      [] OTHER -> {"unavailable"}

Kind(payload) ==
    CASE payload = Damaged -> "damaged" [] payload = Alien -> "alien" [] OTHER -> "deals"

\* What samples are written over, unless another page has saved since or it is
\* nothing, or a copy of it is kept.
Buried(t) ==
    IF tab[t].seeded /\ tab[t].excused = {} /\ backend \notin {NothingSaved} \cup copies
    THEN {<<Kind(backend), tab[t].seen>>} ELSE {}

Save(t) ==
    /\ mode = "local" /\ tab[t].dirty
    /\ \E access \in Access, content \in Content : \E error \in SaveError(access, content) :
           IF error # "none"
           THEN /\ tab' = [tab EXCEPT ![t].dirty = FALSE, ![t].writeError = error]
                /\ UNCHANGED <<backend, buried>>
           ELSE /\ backend' = tab[t].deals
                /\ buried' = Buried(t)
                /\ tab' = [x \in Tabs |->
                      IF x = t THEN [tab[x] EXCEPT !.dirty = FALSE, !.writeError = "none",
                                                   !.seeded = FALSE, !.seen = "ok", !.excused = {}]
                      ELSE IF tab[x].screen = "closed" THEN tab[x]
                      ELSE [tab[x] EXCEPT !.excused = AllDeals]]
    /\ UNCHANGED <<mode, copies, calls, edits>>

----------------------------------------------------------------------------
(* A row per deal behind the server *)

ListCall(t) == [tab |-> t, kind |-> "list", rows |-> NothingSaved]
Lists(t) == {c \in calls : c.kind = "list" /\ c.tab = t}
Writes == {c \in calls : c.kind # "list"}
Call(t, kind, d, edit, placed) ==
    [tab |-> t, kind |-> kind, deal |-> d, edit |-> edit, placed |-> placed,
     heard |-> TRUE, done |-> FALSE]

\* The session is there and the firm's deals are asked for.
SignedIn(t) ==
    /\ mode = "remote" /\ tab[t].screen = "closed"
    /\ tab' = [tab EXCEPT ![t] = [Closed EXCEPT !.screen = "loading"]]
    /\ calls' = calls \cup {ListCall(t)}
    /\ UNCHANGED <<mode, backend, copies, edits, buried>>

\* GET /deals.
ServeList(c) ==
    /\ c.kind = "list" /\ c.rows = NothingSaved
    /\ calls' = (calls \ {c}) \cup {[c EXCEPT !.rows = backend]}
    /\ tab' = [tab EXCEPT ![c.tab].excused = {}]
    /\ UNCHANGED <<mode, backend, copies, edits, buried>>

\* The answer takes the place of everything on the screen, notices included.
ListAnswered(c) ==
    /\ c.kind = "list" /\ c.rows # NothingSaved
    /\ tab' = [tab EXCEPT ![c.tab] =
          [@ EXCEPT !.screen = "open", !.deals = c.rows, !.placed = TRUE,
                    !.available = TRUE, !.loadError = "none", !.writeError = "none"]]
    /\ calls' = calls \ {c}
    /\ UNCHANGED <<mode, backend, copies, edits, buried>>

ListFailed(c) ==
    /\ c.kind = "list"
    /\ \/ tab' = [tab EXCEPT ![c.tab] =
             [@ EXCEPT !.screen = "open", !.deals = NoDeals, !.placed = TRUE, !.excused = {},
                       !.available = FALSE, !.loadError = "unreachable", !.writeError = "none"]]
       \/ tab' = [tab EXCEPT ![c.tab] = Closed]      \* 401: signed out
    /\ calls' = calls \ {c}
    /\ UNCHANGED <<mode, backend, copies, edits, buried>>

\* POST creates the row; PUT overwrites one the server has, whatever it holds.
\* Pages that did not write it, or whose list has been read, are out of date.
Serve(c) ==
    /\ c.kind # "list" /\ ~c.done
    /\ c.placed => c.kind = "update" /\ c.deal \in DOMAIN backend
    /\ ~c.placed => c.kind = "create"
    /\ backend' = Put(backend, c.deal, c.edit)
    /\ calls' = (calls \ {c}) \cup (IF c.heard THEN {[c EXCEPT !.done = TRUE]} ELSE {})
    /\ tab' = [x \in Tabs |->
          IF \/ x # c.tab /\ tab[x].screen # "closed"
             \/ \E l \in Lists(x) : l.rows # NothingSaved
             \/ ~c.heard
          THEN [tab[x] EXCEPT !.excused = @ \cup {c.deal}] ELSE tab[x]]
    /\ UNCHANGED <<mode, copies, edits, buried>>

\* Any success clears the page's notice, whatever write it spoke of.
WriteAnswered(c) ==
    /\ c.kind # "list" /\ c.done /\ c.heard
    /\ LET p == tab[c.tab]
       IN tab' = [tab EXCEPT ![c.tab] =
             [p EXCEPT !.writeError = "none",
                       !.placed = p.placed \/ c.kind = "create",
                       !.excused = IF p.writeError = "none" THEN p.excused
                                   ELSE p.excused \cup (AllDeals \ {c.deal})]]
    /\ calls' = calls \ {c}
    /\ UNCHANGED <<mode, backend, copies, edits, buried>>

FailedNotice(t) == [tab EXCEPT ![t].writeError = "write-failed"]

\* Refused, or the connection lost before or after the server acted on it.
WriteFailed(c) ==
    /\ c.kind # "list" /\ c.heard
    /\ tab' = FailedNotice(c.tab)
    /\ \/ calls' = calls \ {c}
       \/ ~c.done /\ calls' = (calls \ {c}) \cup {[c EXCEPT !.heard = FALSE]}
    /\ UNCHANGED <<mode, backend, copies, edits, buried>>

\* A request nobody waits for any more never arrives.
Lost(c) ==
    /\ c.kind # "list" /\ ~c.heard
    /\ calls' = calls \ {c}
    /\ UNCHANGED <<mode, backend, copies, tab, edits, buried>>

----------------------------------------------------------------------------
(* The page *)

\* A write follows another of the same deal that is still under way.
UnderWay(d) == \E c \in Writes : c.deal = d

Written(t, d, placed) ==
    [tab[t] EXCEPT !.deals = Put(@, d, edits + 1),
                   !.dirty = mode = "local",
                   !.placed = placed,
                   !.excused = IF mode = "local" THEN @
                               ELSE IF UnderWay(d) THEN @ \cup {d} ELSE @ \ {d}]

\* updateDeal: on screen at once; remotely the deal is sent under the id the
\* page has for it.
UpdateDeal(t, d) ==
    /\ tab[t].screen = "open" /\ d \in DOMAIN tab[t].deals /\ edits < MaxEdits[mode]
    /\ edits' = edits + 1
    /\ tab' = [tab EXCEPT ![t] = Written(t, d, tab[t].placed)]
    /\ calls' = IF mode = "local" THEN calls
                ELSE calls \cup {Call(t, "update", d, edits + 1, d # Fresh \/ tab[t].placed)}
    /\ UNCHANGED <<mode, backend, copies, buried>>

\* newDeal: possible before the list has answered.
NewDeal(t) ==
    /\ tab[t].screen # "closed"
    /\ mode = "local" => tab[t].screen = "open"
    /\ edits < MaxEdits[mode]
    /\ \A x \in Tabs : Fresh \notin DOMAIN tab[x].deals
    /\ ~UnderWay(Fresh)
    /\ Fresh \notin DOMAIN Kept
    /\ edits' = edits + 1
    /\ tab' = [tab EXCEPT ![t] = Written(t, Fresh, mode = "local")]
    /\ calls' = IF mode = "local" THEN calls
                ELSE calls \cup {Call(t, "create", Fresh, edits + 1, FALSE)}
    /\ UNCHANGED <<mode, backend, copies, buried>>

\* Closed or loaded again: nobody hears the answers to what it sent.
Reload(t) ==
    /\ tab[t].screen # "closed"
    /\ tab' = [tab EXCEPT ![t] = Closed]
    /\ calls' = {IF c.kind # "list" /\ c.tab = t THEN [c EXCEPT !.heard = FALSE] ELSE c :
                    c \in {x \in calls \ Lists(t) : x.kind = "list" \/ x.tab # t \/ ~x.done}}
    /\ UNCHANGED <<mode, backend, copies, edits, buried>>

StoreNext ==
    \/ \E t \in Tabs : Hydrate(t) \/ Save(t) \/ SignedIn(t) \/ NewDeal(t) \/ Reload(t)
    \/ \E t \in Tabs, d \in AllDeals : UpdateDeal(t, d)
    \/ \E c \in calls : ServeList(c) \/ ListAnswered(c) \/ ListFailed(c) \/ Serve(c)
                        \/ WriteAnswered(c) \/ WriteFailed(c) \/ Lost(c)

\* The store by itself, or out of sight.
StoreSpec ==
    (StoreInit \/ StoreIdle) /\ [][mode # "off" /\ StoreNext]_storeVars

----------------------------------------------------------------------------
(* Properties *)

\* A page that has settled and gives no notice shows what is saved.  Not
\* promised by this code, and left out: deals another page has written since,
\* two writes of a deal under way at once (they may arrive in either order,
\* and one sent before create answers goes to an id the server does not know),
\* and a failed write whose notice another write's success has taken away.
WorkIsSavedOrSaid ==
    \A t \in Tabs :
        LET p == tab[t]
            settled == /\ p.screen = "open" /\ ~p.dirty
                       /\ \A c \in calls : c.tab # t
        IN settled /\ ~Said(p) =>
               \A d \in DOMAIN p.deals \ p.excused :
                   d \in DOMAIN Kept /\ Kept[d] = p.deals[d]

\* The samples take the place of saved deals only where the browser refused
\* its storage at that load, and of a payload that does not parse only there or
\* where the disk had no room for its copy: the copy that storage.js:151 makes so
\* as not to destroy it is best effort, and the samples are smaller than it.
\* Never behind a server.
SamplesReplaceNothing ==
    /\ buried \subseteq ({"deals", "damaged"} \X {"refusing", "absent"})
                        \cup ({"damaged"} \X {"tight", "full"})
                        \cup ({"alien"} \X Access)
    /\ mode = "remote" => Sample \notin DOMAIN Kept

\* What the analyst typed is saved or the page says that it is not, and no
\* sample is saved in its place.
WorkIsKept == WorkIsSavedOrSaid /\ SamplesReplaceNothing
=============================================================================

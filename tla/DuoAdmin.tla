------------------------------ MODULE DuoAdmin ------------------------------
(***************************************************************************)
(* The operator's commands on one firm's Duo integration                   *)
(* (server/src/admin/duo.js): set, check, enable, disable, failmode.  Each  *)
(* is a process of its own with one connection and no transaction around    *)
(* its statements, so two operators' commands interleave statement by       *)
(* statement; check talks to Duo between its read and its write.            *)
(***************************************************************************)
EXTENDS FiniteSets

CONSTANTS
    Operators,  \* commands running at once (a bound)
    Confs,      \* api host, client id and secret, as one value
    None        \* no row yet

ASSUME ConfAssumption == None \notin Confs

VARIABLES
    conf,      \* the stored configuration
    verified,  \* verified_at IS NOT NULL
    enabled,   \* enabled
    mode,      \* fail_mode
    op,        \* the commands in progress
    \* history, read by properties only:
    proven,    \* configurations Duo has answered a health check for
    slipped    \* conf came past enable's question: see Set and CheckStamp

rowVars == <<conf, verified, enabled, mode>>
vars == <<rowVars, op, proven, slipped>>

Op == [pc : {"idle", "health", "stamp", "turnOn"}, conf : Confs \cup {None}]
IdleOp == [pc |-> "idle", conf |-> None]

TypeOK ==
    /\ conf \in Confs \cup {None}
    /\ verified \in BOOLEAN
    /\ enabled \in BOOLEAN
    /\ mode \in {"closed", "open"}
    /\ op \in [Operators -> Op]
    /\ proven \subseteq Confs
    /\ slipped \in BOOLEAN

Init ==
    /\ conf = None
    /\ verified = FALSE
    /\ enabled = FALSE
    /\ mode = "closed"
    /\ op = [o \in Operators |-> IdleOp]
    /\ proven = {}
    /\ slipped = FALSE

Finish(o) == op' = [op EXCEPT ![o] = IdleOp]

\* Duo is on, or enable has asked its question and is about to turn it on.
TurnedOn == enabled \/ \E o \in Operators : op[o].pc = "turnOn"

\* Mutant: a changed credential keeps the mark of the one it replaces.
Set_KeepsMark(o, c) ==
    /\ op[o].pc = "idle"
    /\ conf' = c
    /\ slipped' = TurnedOn
    /\ UNCHANGED <<verified, enabled, mode, op, proven>>

\* One upsert: the mark of the old configuration goes, enabled stays, so what
\* is set under an enabled integration is in front of its users unchecked.
Set(o, c) ==
    /\ op[o].pc = "idle"
    /\ conf' = c
    /\ verified' = FALSE
    /\ slipped' = TurnedOn
    /\ UNCHANGED <<enabled, mode, op, proven>>

\* check reads the row, asks Duo, and stamps verified_at on the row as it is
\* then, which another operator may have set meanwhile.
CheckRead(o) ==
    /\ op[o].pc = "idle"
    /\ conf # None
    /\ op' = [op EXCEPT ![o] = [pc |-> "health", conf |-> conf]]
    /\ UNCHANGED <<rowVars, proven, slipped>>

CheckHealth(o) ==
    /\ op[o].pc = "health"
    /\ \/ /\ op' = [op EXCEPT ![o].pc = "stamp"]
          /\ proven' = proven \cup {op[o].conf}
       \/ /\ Finish(o)
          /\ UNCHANGED proven
    /\ UNCHANGED <<rowVars, slipped>>

CheckStamp(o) ==
    /\ op[o].pc = "stamp"
    /\ verified' = TRUE
    /\ slipped' = (op[o].conf # conf)
    /\ Finish(o)
    /\ UNCHANGED <<conf, enabled, mode, proven>>

\* enable reads verified_at, refuses when it is NULL, and turns Duo on.
EnableRead(o) ==
    /\ op[o].pc = "idle"
    /\ conf # None /\ verified
    /\ op' = [op EXCEPT ![o].pc = "turnOn"]
    /\ UNCHANGED <<rowVars, proven, slipped>>

EnableWrite(o) ==
    /\ op[o].pc = "turnOn"
    /\ enabled' = TRUE
    /\ Finish(o)
    /\ UNCHANGED <<conf, verified, mode, proven, slipped>>

Disable(o) ==
    /\ op[o].pc = "idle"
    /\ enabled' = FALSE
    /\ UNCHANGED <<conf, verified, mode, op, proven, slipped>>

\* An UPDATE: nothing changes before there is a row.
Failmode(o, m) ==
    /\ op[o].pc = "idle"
    /\ conf # None
    /\ mode' = m
    /\ UNCHANGED <<conf, verified, enabled, op, proven, slipped>>

Next == \E o \in Operators :
    \/ \E c \in Confs : Set(o, c)
    \/ CheckRead(o) \/ CheckHealth(o) \/ CheckStamp(o)
    \/ EnableRead(o) \/ EnableWrite(o) \/ Disable(o)
    \/ \E m \in {"closed", "open"} : Failmode(o, m)

Spec == Init /\ [][Next]_vars

-----------------------------------------------------------------------------
\* The configuration that stands in front of a firm's users has itself passed a
\* health check, however commands interleave, but for the two ways past
\* enable's question that the code leaves open: a set while Duo is on (or
\* between enable's two statements), and a check whose stamp lands on a
\* configuration that was set while Duo answered for another.
NeverEnabledUnchecked == enabled /\ ~slipped => conf \in proven
=============================================================================

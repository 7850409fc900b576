-------------------------------- MODULE Office --------------------------------
(***************************************************************************)
(* What else a firm and its operators ask of the server: the commands on   *)
(* its Duo integration, links to sign in with by mail, its archive.  They  *)
(* share a process and tables but no row, so a behaviour looks at one.     *)
(***************************************************************************)
EXTENDS DuoAdmin, SignInMail, Export

VARIABLE errand   \* which of the three is asked

OfficeInit ==
    /\ errand \in {"duo", "mail", "archive"}
    /\ Init
    /\ MailIdle
    /\ IF errand = "archive" THEN ExportInit ELSE ExportIdle

Administer == errand = "duo" /\ Next /\ UNCHANGED <<errand, mailVars, exportVars>>
AskForLinks == errand = "mail" /\ MailNext /\ UNCHANGED <<errand, vars, exportVars>>
AskForArchive == errand = "archive" /\ ExportNext /\ UNCHANGED <<errand, vars, mailVars>>

OfficeNext == Administer \/ AskForLinks \/ AskForArchive

OfficeSpec == OfficeInit /\ [][OfficeNext]_<<errand, vars, mailVars, exportVars>>
=============================================================================

----------------------------- MODULE BackOffice -----------------------------
(***************************************************************************)
(* The platform settings with the two legal documents, and the support     *)
(* tickets.  The settings are one document, created or brought up to date  *)
(* by whoever reads it first; the legal documents are written together.    *)
(***************************************************************************)
EXTENDS TenantRequests

CONSTANTS
    Contents,       \* what an administrator may save
    OldSettings     \* sequences of settings documents: none, or one

LegalDocuments == {"terms_of_service", "privacy_policy"}

ASSUME SettingsAssumption ==
    \A docs \in OldSettings :
       /\ docs \in Seq(Range(docs)) /\ Len(docs) <= 1
       /\ \A i \in DOMAIN docs : DOMAIN docs[i] = {"general", "legal"} /\ DOMAIN docs[i].legal = LegalDocuments

VARIABLES
    settings,   \* admin_settings, in natural order: [general, legal]
    tickets     \* support_tickets: [status, messages], messages by their authors

settingsVars == settings
ticketVars == tickets

BackOfficeInit ==
    /\ settings \in OldSettings
    /\ tickets = <<>>

-----------------------------------------------------------------------------
(* Settings.  Every request gets the document first and does `then' to it. *)

BeginSettingsRequest(r, then, edit) ==
    /\ Begin(r, [pc |-> "get_settings", then |-> then, edit |-> edit])
    /\ UNCHANGED settings

Continue(r, doc, legal) ==
    IF req[r].then = "answer" THEN Done(r)
    ELSE Keep(r, [pc |-> req[r].then, edit |-> req[r].edit, doc |-> doc, legal |-> legal])

(* Mutant: both documents are brought up to date when one of them is old.  *)
UpgradedBoth(legal) ==
    IF "legacy" \in {legal[k] : k \in LegalDocuments} THEN [k \in LegalDocuments |-> "default"] ELSE legal

(* The contents of an old version are replaced.                            *)
Upgraded(legal) ==
    [k \in LegalDocuments |-> IF legal[k] = "legacy" THEN "default" ELSE legal[k]]

(* get_settings_document.                                                  *)
GetSettings(r) ==
    /\ At(r, "get_settings")
    /\ IF settings = <<>> THEN Goto(r, "create_settings")
       ELSE LET legal == settings[1].legal IN
            IF Upgraded(legal) = legal THEN Continue(r, 1, legal)
            ELSE Keep(r, With(req[r], [legal |-> Upgraded(legal), pc |-> "upgrade_settings"]))
    /\ UNCHANGED settings

CreateSettings(r) ==
    LET legal == [k \in LegalDocuments |-> "default"] IN
    /\ At(r, "create_settings")
    /\ settings' = Append(settings, [general |-> "default", legal |-> legal])
    /\ Continue(r, Len(settings'), legal)

UpgradeSettings(r) ==
    /\ At(r, "upgrade_settings")
    /\ settings' = [settings EXCEPT ![1].legal = req[r].legal]
    /\ Continue(r, 1, req[r].legal)

(* update_legal_document; the answer is made from the document again.      *)
WriteLegal(r) ==
    LET edit == req[r].edit IN
    /\ At(r, "write_legal")
    /\ settings' = [settings EXCEPT ![req[r].doc].legal = [req[r].legal EXCEPT ![edit.key] = edit.content]]
    /\ Keep(r, [pc |-> "get_settings", then |-> "answer", edit |-> NULL])

(* update_settings_fields, likewise.                                       *)
WriteGeneral(r) ==
    /\ At(r, "write_general")
    /\ settings' = [settings EXCEPT ![req[r].doc].general = req[r].edit.content]
    /\ Keep(r, [pc |-> "get_settings", then |-> "answer", edit |-> NULL])

SettingsArrive(r) ==
    \/ BeginSettingsRequest(r, "answer", NULL)
    \/ \E content \in Contents :
          \/ BeginSettingsRequest(r, "write_general", [key |-> "general", content |-> content])
          \/ \E key \in LegalDocuments : BeginSettingsRequest(r, "write_legal", [key |-> key, content |-> content])

SettingsStep(r) ==
    GetSettings(r) \/ CreateSettings(r) \/ UpgradeSettings(r) \/ WriteLegal(r) \/ WriteGeneral(r)

-----------------------------------------------------------------------------
(* Tickets.                                                                *)

WithStatus(status) == {t \in DOMAIN tickets : tickets[t].status = status}

BeginTicket(r) == Begin(r, [pc |-> "insert_ticket"]) /\ UNCHANGED tickets

InsertTicket(r) ==
    /\ At(r, "insert_ticket")
    /\ tickets' = Append(tickets, [status |-> "open", messages |-> <<"user">>])
    /\ Done(r)

BeginReply(r, t) == Begin(r, [pc |-> "add_message", ticket |-> t]) /\ UNCHANGED tickets

(* $push; a reply does not open a resolved ticket again.                   *)
AddMessage(r) ==
    /\ At(r, "add_message")
    /\ tickets' = [tickets EXCEPT ![req[r].ticket].messages = Append(@, "admin")]
    /\ Done(r)

BeginResolve(r, t) == Begin(r, [pc |-> "resolve", ticket |-> t]) /\ UNCHANGED tickets

ResolveTicket(r) ==
    /\ At(r, "resolve")
    /\ tickets' = [tickets EXCEPT ![req[r].ticket].status = "resolved"]
    /\ Done(r)

(* get_management_page: three reads, gathered, which end in any order.     *)
BeginManagementPage(r) ==
    /\ Begin(r, [pc |-> "gather", page |-> [total |-> NULL, open |-> NULL, resolved |-> NULL]])
    /\ UNCHANGED tickets

CountByStatus(what) ==
    IF what = "total" THEN Len(tickets) ELSE Cardinality(WithStatus(what))

Gather(r) ==
    /\ At(r, "gather")
    /\ \E what \in {w \in DOMAIN req[r].page : req[r].page[w] = NULL} :
          LET page == [req[r].page EXCEPT ![what] = CountByStatus(what)] IN
          Keep(r, [pc |-> IF NULL \in {page[w] : w \in DOMAIN page} THEN "gather" ELSE "show_page", page |-> page])
    /\ UNCHANGED tickets

ShowPage(r) == At(r, "show_page") /\ Done(r) /\ UNCHANGED tickets

TicketsArrive(r) ==
    \/ BeginTicket(r) \/ BeginManagementPage(r)
    \/ \E t \in DOMAIN tickets : BeginReply(r, t) \/ BeginResolve(r, t)

TicketsStep(r) == InsertTicket(r) \/ AddMessage(r) \/ ResolveTicket(r) \/ Gather(r) \/ ShowPage(r)
=============================================================================

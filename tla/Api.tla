---------------------------------- MODULE Api ----------------------------------
(***************************************************************************)
(* The handlers of pkg/grpc that read or change the database, as the       *)
(* operations requests run (module Requests): what each calls of           *)
(* internal/database (DB!...), in which order, and the status code it      *)
(* makes of each error.  List handlers are in module Listing.              *)
(***************************************************************************)
EXTENDS Requests, TLC

CONSTANT BatchSize
DB == INSTANCE Database

---------------------------------------------------------------------------
(* setupRequest and the checks every handler starts with.                  *)
Handler(name, on, script) ==
    Operation(name, on, <<Valid("InvalidArgument")>> \o script)
Creator(name, path, script) ==
    Creation(name, path, <<Valid("InvalidArgument")>> \o script)

Code(codes, err) == CASE err = "ignored"     -> err
                      [] err \in DOMAIN codes -> codes[err]
                      [] OTHER               -> "Internal"
Coded(script, codes) ==
    [k \in DOMAIN script |-> [script[k] EXCEPT !.err = Code(codes, @), !.fault = Code(codes, @)]]
Internal(script) == Coded(script, <<>>)
Hidden(script)   == \* every error, a timeout too, is answered NotFound
    [k \in DOMAIN script |-> [script[k] EXCEPT !.err = "NotFound", !.fault = "NotFound"]]
Sure(script)     == SelectSeq(script, LAMBDA s : s.do # "valid")    \* inputs known to be valid
Missing(err) == [e \in {err} |-> "NotFound"]
Invalid      == [e \in {"ErrInvalidInput"} |-> "InvalidArgument"]

---------------------------------------------------------------------------
(* Organizations, tenants and their keys                                   *)
CreateOrganization(o) == Creator("CreateOrganization", <<o>>, Internal(DB!CreateOrganization(o)))
GetOrganization(o)    == Handler("GetOrganization", {}, Internal(DB!GetOrganization(o)))
UpdateOrganization(o) == Handler("UpdateOrganization", {}, Internal(DB!UpdateOrganization(o)))
DeleteOrganization(o, ts) ==
    Handler("DeleteOrganization", {o}, Internal(DB!DeleteOrganization(o, ts)))

CreateTenant(t, o) == Creator("CreateTenant", <<t, o>>, Internal(DB!CreateTenant(t, o)))
GetTenant(t)    == Handler("GetTenant", {}, Coded(DB!GetTenant(t), Missing("ErrTenantDoesNotExist")))
UpdateTenant(t) == Handler("UpdateTenant", {}, Internal(DB!UpdateTenant(t)))
DeleteTenant(t) ==
    Handler("DeleteTenant", {t}, Coded(DB!DeleteTenant(t), Missing("ErrTenantDoesNotExist")))

CreateTenantAPIKey(k, t) ==
    Creator("CreateTenantAPIKey", <<k, t>>, Internal(DB!CreateTenantApiKey(k, t)))
GetTenantAPIKey(k, t) == Handler("GetTenantAPIKey", {}, Internal(DB!GetTenantApiKey(k, t)))
UpdateTenantAPIKey(k, t) ==
    Handler("UpdateTenantAPIKey", {}, Coded(DB!UpdateTenantApiKey(k, t), Missing("ErrNotFound")))
DeleteTenantAPIKey(k, t) ==
    Handler("DeleteTenantAPIKey", {k}, Coded(DB!DeleteTenantApiKey(k, t), Missing("ErrNotFound")))

---------------------------------------------------------------------------
(* Accounts                                                                *)
CreateAccount(a, same, t, o) ==
    Creator("CreateAccount", <<a, t, o>>,
            Coded(DB!CreateAccount(a, same, t, o),
                  Invalid @@ Missing(DB!NotFound)
                    @@ [e \in {"ErrAccountAlreadyExists"} |-> "AlreadyExists"]))
(* With an initial workspace: when that cannot be created the account is   *)
(* deleted again, under the same context.                                  *)
CreateAccountWithWorkspace(a, same, w, t, o) ==
    LET account   == CreateAccount(a, same, t, o)
        workspace == Internal(DB!CreateWorkspace(w, a, t, o))
    IN  [account EXCEPT !.name   = "CreateAccountWithWorkspace",
                        !.under  = <<w, a, t, o>>,
                        !.script = @ \o workspace,
                        !.undo   = Sure(DB!DeleteAccount(a)),
                        !.from   = Len(account.script) + 1]
GetAccount(a) == Handler("GetAccount", {}, Coded(DB!GetAccount(a), Missing("ErrAccountDoesNotExist")))
UpdateAccount(a, t, o) ==
    Handler("UpdateAccount", {},
            Coded(DB!GetOrganization(o) \o DB!GetTenant(t),
                  Missing("ErrOrganizationDoesNotExist") @@ Missing("ErrTenantDoesNotExist"))
              \o Internal(DB!UpdateAccount(a, t, o)))
DeleteAccount(a, t, o) ==
    Handler("DeleteAccount", {a},
            Coded(DB!GetOrganization(o) \o DB!GetTenant(t) \o DB!GetAccount(a),
                  Missing("ErrOrganizationDoesNotExist") @@ Missing("ErrTenantDoesNotExist")
                    @@ Missing("ErrAccountDoesNotExist"))
              \o Internal(DB!DeleteAccount(a)))

---------------------------------------------------------------------------
(* Workspaces, their keys and webhooks                                     *)
CreateWorkspace(w, a, t, o) ==
    Creator("CreateWorkspace", <<w, a, t, o>>,
            Coded(DB!CreateWorkspace(w, a, t, o), Invalid))
GetWorkspace(w)    == Handler("GetWorkspace", {}, Coded(DB!GetWorkspace(w), Invalid))
UpdateWorkspace(w) ==
    Handler("UpdateWorkspace", {},
            Coded(DB!UpdateWorkspace(w), Invalid @@ Missing("ErrWorkspaceDoesNotExist")))
DeleteWorkspace(w) == Handler("DeleteWorkspace", {w}, Coded(DB!DeleteWorkspace(w), Invalid))

CreateAPIKey(k, w) ==
    Creator("CreateAPIKey", <<k, w>>, Internal(DB!GetWorkspace(w) \o DB!CreateAPIKey(k, w)))
GetAPIKey(k)       == Handler("GetAPIKey", {}, Internal(DB!GetAPIKey(k)))
UpdateAPIKey(k)    == Handler("UpdateAPIKey", {}, Internal(DB!UpdateAPIKey(k)))
DeleteAPIKey(k)    == Handler("DeleteAPIKey", {k}, Coded(DB!DeleteAPIKey(k), Missing("ErrNotFound")))
RotateAPIKey(k, w) ==
    Handler("RotateAPIKey", {}, Internal(DB!GetAPIKey(k) \o DB!RotateAPIKey(k, w)))

CreateWebhook(h, w) ==
    Creator("CreateWebhook", <<h, w>>, Coded(DB!CreateWebhookConfig(h, w), Missing("ErrNotFound")))
GetWebhook(h, w)    == Handler("GetWebhook", {}, Internal(DB!GetWebhookConfig(h, w)))
UpdateWebhook(h)    == Handler("UpdateWebhook", {}, Coded(DB!UpdateWebhookConfig(h), Invalid))
DeleteWebhook(h, w) ==
    Handler("DeleteWebhook", {h}, Coded(DB!DeleteWebhookConfig(h, w), Invalid))

---------------------------------------------------------------------------
(* Workflows                                                               *)
CreateWorkflow(f, w) ==
    Creator("CreateWorkflow", <<f, w>>,
            Coded(DB!CreateScrapingWorkflow(f, w), Invalid @@ Missing(DB!NotFound)))
GetWorkflow(f) ==
    Handler("GetWorkflow", {}, Coded(DB!GetScrapingWorkflow(f), Invalid @@ Missing(DB!NotFound)))
UpdateWorkflow(f, to) ==    \* the request is validated after the first read
    Operation("UpdateWorkflow", {},
              Coded(DB!GetScrapingWorkflow(f), Missing(DB!NotFound))
                \o <<Valid("InvalidArgument")>> \o Coded(DB!UpdateScrapingWorkflow(f, to), Invalid))
PauseWorkflow(f) ==
    Handler("PauseWorkflow", {},
            Internal(DB!GetScrapingWorkflow(f)) \o Coded(DB!SaveScrapingWorkflow(f, "PAUSED"), Invalid))
TriggerWorkflow(f) ==       \* sets the status of the copy it has read, and no more
    Handler("TriggerWorkflow", {}, Coded(DB!GetScrapingWorkflow(f), Missing(DB!NotFound)))
DeleteWorkflow(f) ==
    Handler("DeleteWorkflow", {f},
            Coded(DB!DeleteScrapingWorkflow(f), Invalid @@ Missing(DB!NotFound)))

---------------------------------------------------------------------------
(* Scraping jobs and leads                                                 *)
CreateScrapingJob(j, w, t, o) ==
    Creator("CreateScrapingJob", <<j, w>>,
            Internal(DB!GetOrganization(o) \o DB!GetTenant(t) \o DB!CreateScrapingJob(j, w)))
GetScrapingJob(j, t, o) ==
    Handler("GetScrapingJob", {},
            Hidden(DB!GetTenant(t) \o DB!GetOrganization(o))
              \o Coded(DB!GetScrapingJob(j), Missing("ErrJobDoesNotExist: wrapped")))
DeleteScrapingJob(j) ==
    Handler("DeleteScrapingJob", {j}, Coded(DB!DeleteScrapingJob(j), Missing("ErrJobDoesNotExist")))
DownloadScrapingResults(j) ==
    Handler("DownloadScrapingResults", {},
            Coded(DB!GetScrapingJob(j), Missing("ErrJobDoesNotExist"))
              \o <<Require(j, {"COMPLETED"}, "FailedPrecondition")>>)
GetLead(l) == Handler("GetLead", {}, Coded(DB!GetLead(l), Missing("ErrJobDoesNotExist")))

---------------------------------------------------------------------------
(* A job's status only ever changes along isValidStatusTransition.         *)
JobMoves ==
    [][\A i \in Ids : row[i].kind = "job" /\ row[i].state = "live" =>
          DB!isValidStatusTransition(row[i].status, row'[i].status)]_vars
===============================================================================

------------------------------- MODULE Database -------------------------------
(***************************************************************************)
(* The functions of internal/database as scripts of statements: what       *)
(* each reads, writes and checks, in the order of its statements, and the  *)
(* error it returns.  Conversions between protobuf and ORM and logging are *)
(* left out; an error text that its callers compare is a name.             *)
(***************************************************************************)
EXTENDS Naturals, Statements, SequencesExt

CONSTANT BatchSize      \* batchSize: 100 in the code

NotFound == "record not found"      \* gorm's, possibly wrapped

---------------------------------------------------------------------------
(* Organizations and tenants                                               *)
CreateOrganization(o) == <<Valid("ErrInvalidInput"), Create({o}, None)>>
GetOrganization(o)    == <<Valid("ErrInvalidInput"), First(o, "ErrOrganizationDoesNotExist")>>
UpdateOrganization(o) ==
    <<Valid("ErrInvalidInput"), Update(o, None, "any", NotFound), First(o, NotFound)>>
DeleteOrganization(o, tenants) ==
    GetOrganization(o) \o <<DeleteOf(tenants, o, "any", NotFound), Delete({o}, "any", NotFound)>>

CreateTenant(t, o) ==
    GetOrganization(o)
      \o <<Create({t}, o), Attach({t}, o), Save(o, "any", NotFound), First(t, NotFound)>>
GetTenant(t) == <<Valid("ErrInvalidInput"), First(t, "ErrTenantDoesNotExist")>>
UpdateTenant(t) ==
    <<Valid("ErrInvalidInput"), First(t, NotFound),
      Update(t, None, "any", NotFound), First(t, NotFound)>>
DeleteTenant(t) == GetTenant(t) \o <<Delete({t}, "any", NotFound)>>

---------------------------------------------------------------------------
(* Accounts.  Only a lookup that succeeds and finds the e-mail stops a     *)
(* creation: a lookup that fails counts as not found.                      *)
GetAccountByEmail(same) ==
    [Stmt("read", same, None, "none", "ErrAccountAlreadyExists") EXCEPT !.fault = "ignored"]
CreateAccount(a, same, t, o) ==
    <<Valid("ErrInvalidInput"), FirstOf(t, o, NotFound), GetAccountByEmail(same),
      Create({a}, t), Save(t, "all", "failed to update tenant")>>
GetAccount(a)    == <<Valid("ErrInvalidInput"), First(a, "ErrAccountDoesNotExist")>>
UpdateAccount(a, t, o) ==
    <<Valid("ErrInvalidInput")>> \o GetAccount(a)
      \o <<First(a, NotFound), FirstOf(t, o, NotFound),
           Update(a, None, "all", "account not found or no changes made")>>
      \o GetAccount(a)
DeleteAccount(a) == GetAccount(a) \o <<Delete({a}, "all", "ErrFailedToDeleteAccount")>>
DeleteAccountByEmail(a) == <<Valid("ErrInvalidInput"), First(a, NotFound)>> \o DeleteAccount(a)

(* BreakIntoBatches: slices of size elements, the last one shorter.        *)
BreakIntoBatches(items, size) ==
    [k \in 1..((Len(items) + size - 1) \div size) |->
       SubSeq(items, (k - 1) * size + 1,
                     IF k * size > Len(items) THEN Len(items) ELSE k * size)]
BatchDeleteAccounts(as, size) ==
    LET batches == BreakIntoBatches(as, size)
    IN  <<Valid("ErrInvalidInput")>>
          \o [k \in DOMAIN batches |-> Delete(ToSet(batches[k]), "any", NotFound)]

---------------------------------------------------------------------------
(* Workspaces                                                              *)
CreateWorkspace(w, a, t, o) ==
    GetOrganization(o)
      \o <<First(t, "ErrTenantDoesNotExist"), Belongs(t, o, "tenant does not belong"),
           First(a, "ErrAccountDoesNotExist"), Belongs(a, t, "account does not belong"),
           Create({w}, None), Attach({w}, a), Save(a, "any", NotFound), First(w, NotFound)>>
GetWorkspace(w) == <<Valid("ErrInvalidInput"), First(w, "ErrWorkspaceDoesNotExist")>>
UpdateWorkspace(w) ==
    GetWorkspace(w) \o <<Detached(Update(w, None, "all", "ErrWorkspaceDoesNotExist"))>>
DeleteWorkspace(w) == GetWorkspace(w) \o <<Delete({w}, "any", NotFound)>>

---------------------------------------------------------------------------
(* Keys and webhooks                                                       *)
CreateAPIKey(k, w) ==
    <<Valid("invalid API key"), First(w, NotFound), Detached(Create({k}, w)),
      Save(w, "all", "ErrNotFound")>>
GetAPIKey(k)       == <<Valid("ErrInvalidInput"), First(k, NotFound)>>
ValidateAPIKey(ks) == <<Valid("ErrInvalidInput"), CountOf(ks, "ErrJobDoesNotExist")>>
UpdateAPIKey(k) ==
    <<Valid("ErrInvalidInput"), Update(k, None, "all", "API key not found")>>
DeleteAPIKey(k)    == GetAPIKey(k) \o <<Delete({k}, "any", NotFound)>>
(* The handler copies the columns of the key it has read; the key stays.   *)
RotateAPIKey(k, w) ==
    <<Valid("invalid API key"), First(w, NotFound), First(k, NotFound),
      Save(k, "all", "ErrNotFound")>>

CreateTenantApiKey(k, t) ==
    <<Valid("ErrInvalidInput"), First(t, NotFound), Create({k}, t), Save(t, "any", NotFound)>>
GetTenantApiKey(k, t) == <<Valid("ErrInvalidInput"), FirstOf(k, t, NotFound)>>
UpdateTenantApiKey(k, t) ==
    <<Valid("ErrInvalidInput"), Update(k, t, "all", "ErrNotFound"), FirstOf(k, t, NotFound)>>
DeleteTenantApiKey(k, t) == <<Valid("ErrInvalidInput"), DeleteOf({k}, t, "all", "ErrNotFound")>>

CreateWebhookConfig(h, w) ==
    <<Valid("ErrInvalidInput"), First(w, NotFound), Create({h}, w), Save(w, "any", NotFound)>>
GetWebhookConfig(h, w) == <<Valid("ErrInvalidInput"), FirstOf(h, w, NotFound)>>
UpdateWebhookConfig(h) ==
    <<Valid("ErrInvalidInput"), Update(h, None, "all", "ErrNotFound")>>
DeleteWebhookConfig(h, w) == <<Valid("ErrInvalidInput"), DeleteOf({h}, w, "all", "ErrNotFound")>>

---------------------------------------------------------------------------
(* Workflows                                                               *)
CreateScrapingWorkflow(f, w) ==
    <<Valid("ErrInvalidInput: wrapped"), Detached(First(w, NotFound)), Detached(Create({f}, w)),
      Detached(Save(w, "all", "ErrWorkspaceDoesNotExist"))>>
BatchCreateScrapingWorkflows(fs) == <<Valid("ErrInvalidInput"), Create(fs, None)>>
GetScrapingWorkflow(f)     == <<Valid("ErrInvalidInput"), First(f, NotFound)>>
UpdateScrapingWorkflow(f, to) ==
    <<Valid("ErrInvalidInput"), Move(f, to), First(f, NotFound)>>
SaveScrapingWorkflow(f, to) ==      \* ... with the row the caller has read
    <<SaveAs(f, to, "any", NotFound), First(f, NotFound)>>
DeleteScrapingWorkflow(f) ==
    GetScrapingWorkflow(f) \o <<Delete({f}, "all", "ErrWorkflowDoesNotExist")>>
BatchDeleteScrapingWorkflows(fs) ==
    <<Valid("ErrInvalidInput"), CountOf(fs, "ErrWorkflowDoesNotExist"),
      Delete(fs, "all", "ErrWorkflowDoesNotExist")>>

---------------------------------------------------------------------------
(* Scraping jobs                                                           *)
Terminal == {"COMPLETED", "FAILED", "CANCELLED", "TIMED_OUT"}
isValidStatusTransition(from, to) ==
    \/ from = to
    \/ from = "UNSPECIFIED"
    \/ from = "QUEUED" /\ to \in {"IN_PROGRESS", "CANCELLED"}
    \/ from = "IN_PROGRESS" /\ to \in Terminal
    \/ from \in Terminal /\ to = "QUEUED"
JobStatus == {"UNSPECIFIED", "QUEUED", "IN_PROGRESS"} \cup Terminal

CreateScrapingJob(j, w) ==
    <<Valid("ErrInvalidInput: wrapped"), Detached(First(w, NotFound)), Detached(Create({j}, w)),
      Detached(Save(w, "all", "ErrWorkspaceDoesNotExist"))>>
BatchCreateScrapingJobs(js) == <<Valid("ErrInvalidInput"), Create(js, None)>>
GetScrapingJob(j)     == <<Valid("ErrInvalidInput"), First(j, "ErrJobDoesNotExist: wrapped")>>
UpdateScrapingJob(j, to) ==
    <<Valid("ErrInvalidInput"),
      [First(j, "ErrJobDoesNotExist") EXCEPT !.fault = "ErrJobDoesNotExist"],
      Require(j, {s \in JobStatus : isValidStatusTransition(s, to)}, "ErrInvalidInput"),
      Move(j, to), First(j, NotFound)>>
BatchUpdateScrapingJobs(js, w) ==
    LET batches == BreakIntoBatches(js, BatchSize)
    IN  <<Detached(First(w, NotFound)), Valid("ErrInvalidInput")>>
          \o FlattenSeq([k \in DOMAIN batches |->
               <<Detached(Replace(ToSet(batches[k]), w)),
                 Detached(Save(w, "all", "ErrWorkspaceDoesNotExist"))>>])
DeleteScrapingJob(j) ==
    <<Valid("ErrInvalidInput"), CountOf({j}, "ErrJobDoesNotExist"),
      Delete({j}, "all", "ErrJobDoesNotExist")>>
BatchDeleteScrapingJobs(js) ==
    <<Valid("ErrInvalidInput"), CountOf(js, "ErrJobDoesNotExist"),
      Delete(js, "all", "ErrJobDoesNotExist")>>

---------------------------------------------------------------------------
(* Leads                                                                   *)
CreateLead(l, j) ==
    <<Valid("ErrInvalidInput"), First(j, NotFound), Create({l}, j), Save(j, "any", NotFound)>>
BatchCreateLeads(ls, j) == <<Valid("ErrInvalidInput"), First(j, NotFound), Create(ls, None)>>
GetLead(l)     == <<Valid("ErrInvalidInput"), First(l, "ErrJobDoesNotExist")>>
UpdateLead(l) ==
    <<Valid("ErrInvalidInput"), Update(l, None, "any", NotFound), First(l, NotFound)>>
DeleteLead(l) ==
    <<Valid("ErrInvalidInput"), First(l, "ErrJobDoesNotExist"),
      Delete({l}, "all", "ErrJobDoesNotExist")>>
BatchDeleteLeads(ls) ==
    <<Valid("ErrInvalidInput"), CountOf(ls, "ErrLeadDoesNotExist"),
      Delete(ls, "all", "ErrLeadDoesNotExist")>>
===============================================================================

--------------------------------- MODULE MCApi ---------------------------------
(* Two requests against one small tree of rows: every pair of handlers that   *)
(* change rows, and each handler that only reads against those.               *)
EXTENDS Api

CONSTANTS c1, c2, o1, o2, t1, t2, a1, w1, k1, tk1, h1, f1, j1, j2, l1,
          n1, n2, nj, m1, m2, mj    \* rows to be created: n by c1, m by c2; nj and mj are jobs

MCIds == {o1, o2, t1, t2, a1, w1, k1, tk1, h1, f1, j1, j2, l1, n1, n2, nj, m1, m2, mj}

MCKinds == {"organization", "tenant", "account", "workspace", "key", "tenantkey",
            "webhook", "workflow", "job", "lead", "new"}
MCStatuses == DB!JobStatus \cup {"ACTIVE", "PAUSED", "ARCHIVED"}
Row(kind, link, status) == [state |-> "live", kind |-> kind, link |-> link, status |-> status]
MCInitRows ==
    [i \in MCIds |->
       CASE i \in {o1, o2} -> Row("organization", None, "UNSPECIFIED")
         [] i = t1  -> Row("tenant", o1, "UNSPECIFIED")
         [] i = t2  -> Row("tenant", o2, "UNSPECIFIED")
         [] i = a1  -> Row("account", t1, "UNSPECIFIED")
         [] i = w1  -> Row("workspace", a1, "UNSPECIFIED")
         [] i = k1  -> Row("key", w1, "UNSPECIFIED")
         [] i = tk1 -> Row("tenantkey", t1, "UNSPECIFIED")
         [] i = h1  -> Row("webhook", w1, "UNSPECIFIED")
         [] i = f1  -> Row("workflow", w1, "ACTIVE")
         [] i = j1  -> Row("job", w1, "IN_PROGRESS")
         [] i = j2  -> Row("job", w1, "QUEUED")
         [] i = l1  -> Row("lead", j1, "UNSPECIFIED")
         [] i \in {nj, mj} -> [Row("job", None, "UNSPECIFIED") EXCEPT !.state = "absent"]
         [] OTHER   -> [Row("new", None, "UNSPECIFIED") EXCEPT !.state = "absent"]]

Reads ==
    <<GetOrganization(o1), GetTenant(t1), GetTenantAPIKey(tk1, t1), GetAccount(a1),
     GetWorkspace(w1), GetAPIKey(k1), GetWebhook(h1, w1), GetWorkflow(f1),
     TriggerWorkflow(f1), GetScrapingJob(j1, t1, o1), DownloadScrapingResults(j1), GetLead(l1)>>
Deletes ==
    <<DeleteOrganization(o1, {t1, t2}), DeleteTenant(t1), DeleteTenantAPIKey(tk1, t1),
     DeleteAccount(a1, t1, o1), DeleteWorkspace(w1), DeleteAPIKey(k1), DeleteWebhook(h1, w1),
     DeleteWorkflow(f1), DeleteScrapingJob(j1)>>
Updates ==
    <<UpdateOrganization(o1), UpdateTenant(t1), UpdateTenantAPIKey(tk1, t1),
     UpdateAccount(a1, t1, o1), UpdateWorkspace(w1), UpdateAPIKey(k1), RotateAPIKey(k1, w1),
     UpdateWebhook(h1), UpdateWorkflow(f1, "ARCHIVED"), PauseWorkflow(f1)>>
Creates(n, m, j) ==
    <<CreateOrganization(n), CreateTenant(n, o1), CreateTenantAPIKey(n, t1),
     CreateAccount(n, {a1}, t1, o1), CreateAccount(n, {}, t1, o2),
     CreateAccountWithWorkspace(n, {}, m, t1, o1),
     CreateWorkspace(n, a1, t1, o1), CreateWorkspace(n, a1, t2, o2),
     CreateAPIKey(n, w1), CreateWebhook(n, w1), CreateWorkflow(n, w1),
     CreateScrapingJob(j, w1, t1, o1)>>
(* Functions of the database with no handler that calls them.                 *)
Inner(name, on, script) == Operation(name, on, script)
Unserved(n, m) ==
    <<Inner("DeleteAccountByEmail", {a1}, DB!DeleteAccountByEmail(a1)),
     Inner("BatchDeleteAccounts", {a1}, DB!BatchDeleteAccounts(<<a1, l1>>, 1)),
     Inner("ValidateAPIKey", {}, DB!ValidateAPIKey({k1})),
     Inner("BatchCreateScrapingWorkflows", {n, m}, DB!BatchCreateScrapingWorkflows({n, m})),
     Inner("BatchDeleteScrapingWorkflows", {f1}, DB!BatchDeleteScrapingWorkflows({f1})),
     Inner("BatchCreateScrapingJobs", {n, m}, DB!BatchCreateScrapingJobs({n, m})),
     Inner("BatchUpdateScrapingJobs", {}, DB!BatchUpdateScrapingJobs(<<j1, j2>>, w1)),
     Inner("BatchDeleteScrapingJobs", {j1, j2}, DB!BatchDeleteScrapingJobs({j1, j2})),
     Creation("CreateLead", <<n, j1>>, DB!CreateLead(n, j1)),
     Inner("BatchCreateLeads", {n, m}, DB!BatchCreateLeads({n, m}, j1)),
     Inner("UpdateLead", {}, DB!UpdateLead(l1)),
     Inner("DeleteLead", {l1}, DB!DeleteLead(l1)),
     Inner("BatchDeleteLeads", {l1}, DB!BatchDeleteLeads({l1})),
     Inner("UpdateScrapingJob", {}, DB!UpdateScrapingJob(j1, "QUEUED")),
     Inner("UpdateScrapingJob", {}, DB!UpdateScrapingJob(j1, "COMPLETED")),
     Inner("UpdateScrapingJob", {}, DB!UpdateScrapingJob(j1, "CANCELLED"))>>

Changes(n, m, j) == Deletes \o Updates \o Creates(n, m, j) \o Unserved(n, m)
Ops1 == Changes(n1, n2, nj)
Ops2 == Changes(m1, m2, mj) \o Reads
(* Bound once: TLC reads the definition of a constant wherever it is used.    *)
MCOps ==
    LET both == (c1 :> Ops1) @@ (c2 :> Ops2)
    IN  both
===============================================================================

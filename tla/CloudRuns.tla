----------------------------- MODULE CloudRuns -----------------------------
(***************************************************************************)
(* A cluster from a cloud account's credentials: the request is checked    *)
(* and kept as a row, a background thread drives terraform, kubectl and    *)
(* helm, and writes to the row how far it is.  The database may fail a     *)
(* write, a tool may fail or run out of time, and the control plane may    *)
(* restart, which ends the thread.                                         *)
(***************************************************************************)
EXTENDS Naturals, Sequences

CONSTANTS
    CrRequests,   \* what is asked for, with what the control plane is configured with
    CrMaxFails    \* a bound: tools and writes that fail, restarts

ASSUME CloudRunsAssumption == \A req \in CrRequests : req.license \in BOOLEAN

VARIABLES
    crRow,    \* the row of the run, and the request
    crJob,    \* the thread: where it is in the pipeline, what it has found out
    crCloud,  \* the account, the new cluster and the files of the run
    crFails

crVars == <<crRow, crJob, crCloud, crFails>>

-----------------------------------------------------------------------------
Profiles == {"ha", "performance", "cost_optimized"}
Required == [aws |-> {"access_key_id", "secret_access_key"},
             azure |-> {"tenant_id", "client_id", "client_secret", "subscription_id"},
             gcp |-> {"service_account_json"}]

CredentialProblems(req) ==
    (Required[req.provider] \ req.fields)
    \cup (IF req.provider = "gcp" /\ "service_account_json" \in req.fields /\ ~req.serviceAccount
          THEN {"no service account"} ELSE {})

\* cloud_credentials: without a key, or with one that is none, nothing is encrypted.
Encrypts(req) == req.key

\* redact: the values named are replaced wherever they occur.
Redact(text, values) == text \ values

\* What the control plane's own environment may hold: every tool runs in it.
Environment == {"jwt signing key", "encryption key", "kx token", "kx license"}

\* What helm is to set in the cluster, made for this run.
ClusterSecrets == {"cluster's jwt secret", "cluster's watchdog secret"}

\* full_env and argv of _run_step: the values a tool is given, any of which its output
\* may repeat.
Given(req, what) ==
    Required[req.provider] \cup Environment \cup (IF what = "helm" THEN ClusterSecrets ELSE {})

\* Variant: only the credentials are taken out.
RedactsCredentials(req, what) == Required[req.provider]

\* _secret_values, and what run adds to them.
SecretValues(req, what) ==
    Required[req.provider]
    \cup (IF what = "helm" THEN ClusterSecrets ELSE {})
    \cup (IF what = "license" THEN {"kx token", "kx license"} ELSE {})

NoRun(req) == [req |-> req, status |-> "none", log |-> {}, error |-> FALSE, outputs |-> FALSE, told |-> FALSE]
NoPipeline == [at |-> 0, failed |-> FALSE, outputs |-> FALSE, is |-> "none"]

\* _start_run: what is refused leaves nothing behind; the row is there before the thread.
StartRun ==
    /\ crRow.status = "none"
    /\ crRow.req.confirmed /\ CredentialProblems(crRow.req) = {} /\ crRow.req.profile \in Profiles
    /\ Encrypts(crRow.req)
    /\ crRow' = [crRow EXCEPT !.status = "pending"]
    /\ crJob' = [crJob EXCEPT !.at = 1, !.is = "running"]
    /\ UNCHANGED <<crCloud, crFails>>

-----------------------------------------------------------------------------
(* The thread *)

\* The stages in their order, and what the row is told between them.
Pipeline ==
    LET tell(status) == [do |-> "tell", status |-> status]
        run(what) == [do |-> what, status |-> ""]
    IN <<tell("planning"), run("copy"),
         tell("applying"), run("init"), tell("applying"),
         tell("applying"), run("apply"), tell("applying"), run("output"),
         tell("installing"), run("configure"), tell("installing"),
         tell("installing"), run("helm"), tell("installing"),
         run("license"), tell("installing"), tell("complete")>>

Running == crJob.is = "running"
Stage == IF crJob.at \in DOMAIN Pipeline THEN Pipeline[crJob.at].do ELSE "finish"
Goes(by) == [crJob EXCEPT !.at = @ + by]
CrFailing == crFails < CrMaxFails /\ crFails' = crFails + 1

\* Whatever is raised in the pipeline is caught at its end, as is a stage that failed;
\* the file with the key goes either way.
Ended(outcome) ==
    /\ crJob' = [crJob EXCEPT !.at = Len(Pipeline) + 1, !.failed = (outcome = "failed")]
    /\ crCloud' = [crCloud EXCEPT !.keyFile = FALSE]

Raises == Running /\ Stage # "finish" /\ CrFailing /\ Ended("failed") /\ UNCHANGED crRow

\* on_progress: the row says what is done next, or what was done; only then is it looked
\* at whether the stage succeeded.  A database that fails here is a stage that raises.
Tell ==
    /\ Running /\ Stage = "tell"
    /\ crRow' = [crRow EXCEPT !.status = Pipeline[crJob.at].status]
    /\ IF crJob.failed \/ crJob.at = Len(Pipeline)
       THEN Ended(IF crJob.failed THEN "failed" ELSE "ok")
       ELSE crJob' = Goes(1) /\ UNCHANGED crCloud
    /\ UNCHANGED crFails

\* _run_step: the tool ran, with the values redacted from what it printed.
RunStep(what) ==
    /\ Running /\ Stage = what
    /\ crRow' = [crRow EXCEPT !.log = @ \cup Redact(Given(crRow.req, what), SecretValues(crRow.req, what))]

Succeeds == crJob' = Goes(1) /\ UNCHANGED crFails
FailsStage == crJob' = [Goes(1) EXCEPT !.failed = TRUE] /\ CrFailing

CopyModule ==
    /\ Running /\ Stage = "copy"
    /\ crCloud' = [crCloud EXCEPT !.keyFile = (crRow.req.provider = "gcp")]
    /\ Succeeds /\ UNCHANGED crRow

TerraformInit ==
    RunStep("init") /\ (Succeeds \/ FailsStage) /\ UNCHANGED crCloud

\* What a failed or timed-out apply has made stays.
TerraformApply ==
    /\ RunStep("apply")
    /\ \/ Succeeds /\ crCloud' = [crCloud EXCEPT !.resources = "all"]
       \/ FailsStage /\ crCloud' \in {[crCloud EXCEPT !.resources = r] : r \in {"none", "some", "all"}}

\* Outputs that cannot be read are none.
TerraformOutput ==
    /\ Running /\ Stage = "output"
    /\ \/ crJob' = [Goes(1) EXCEPT !.outputs = TRUE] /\ UNCHANGED crFails
       \/ crJob' = Goes(1) /\ CrFailing
    /\ UNCHANGED <<crRow, crCloud>>

\* Without the outputs there is no command to run, and no word of it.
ConfigureKubectl ==
    \/ /\ RunStep("configure") /\ crJob.outputs
       /\ \/ Succeeds /\ crCloud' = [crCloud EXCEPT !.kubeconfig = TRUE]
          \/ FailsStage /\ UNCHANGED crCloud
    \/ /\ Running /\ Stage = "configure" /\ ~crJob.outputs
       /\ crJob' = Goes(2) /\ UNCHANGED <<crRow, crCloud, crFails>>

\* helm installs where its kubeconfig points; without one, on the cluster the control
\* plane itself runs on, if it runs on one.
HelmInstall ==
    /\ RunStep("helm")
    /\ LET where == IF crCloud.kubeconfig THEN "new" ELSE IF crRow.req.inCluster THEN "own" ELSE "none"
       IN \/ where # "none" /\ Succeeds /\ crCloud' = [crCloud EXCEPT !.installed = where]
          \/ where # "none" /\ FailsStage /\ UNCHANGED crCloud
          \/ where = "none" /\ crJob' = [Goes(1) EXCEPT !.failed = TRUE] /\ UNCHANGED <<crCloud, crFails>>

\* Nobody looks at whether the license was applied.
LicenseSecret ==
    /\ IF crRow.req.license THEN RunStep("license") ELSE Running /\ Stage = "license" /\ UNCHANGED crRow
    /\ crJob' = Goes(1)
    /\ \/ UNCHANGED crFails /\ crCloud' = [crCloud EXCEPT !.license = crRow.req.license]
       \/ crRow.req.license /\ CrFailing /\ UNCHANGED crCloud

\* The end of _execute_in_background.  If this write fails the thread dies of it.
Finish ==
    /\ Running /\ Stage = "finish"
    /\ \/ /\ crRow' = [crRow EXCEPT !.status = IF crJob.failed THEN "failed" ELSE "complete", !.told = TRUE,
                                   !.error = crJob.failed, !.outputs = ~crJob.failed /\ crJob.outputs]
          /\ crJob' = [crJob EXCEPT !.is = "ended"] /\ UNCHANGED crFails
       \/ crJob' = [crJob EXCEPT !.is = "lost"] /\ CrFailing /\ UNCHANGED crRow
    /\ UNCHANGED crCloud

\* The thread is a daemon, and nothing resumes a run.
ControlPlaneRestarts ==
    /\ Running /\ CrFailing
    /\ crJob' = [crJob EXCEPT !.is = "lost"]
    /\ UNCHANGED <<crRow, crCloud>>

-----------------------------------------------------------------------------
CrStart(req) ==
    /\ crRow = NoRun(req)
    /\ crJob = NoPipeline
    /\ crCloud = [resources |-> "none", kubeconfig |-> FALSE, installed |-> "none", license |-> FALSE,
                  keyFile |-> FALSE]
    /\ crFails = 0

CrInit == \E req \in CrRequests : CrStart(req)

CrNext ==
    \/ StartRun \/ Raises \/ Tell \/ CopyModule \/ TerraformInit \/ TerraformApply \/ TerraformOutput
    \/ ConfigureKubectl \/ HelmInstall \/ LicenseSecret \/ Finish \/ ControlPlaneRestarts

CrSpec == CrInit /\ [][CrNext]_crVars

-----------------------------------------------------------------------------
\* A run that says it is complete has a whole cluster, and the platform on it, or, if the
\* cluster's outputs could not be read, on the control plane's own.
CompleteIsInstalled ==
    crRow.status = "complete" =>
        /\ crCloud.resources = "all" /\ ~crJob.failed
        /\ crCloud.installed = (IF crJob.outputs THEN "new" ELSE "own")

\* Nothing is made, and nothing billed, before the row says so, and never without the
\* confirmation and a whole set of credentials.
MadeIsTold ==
    crCloud.resources # "none" =>
        /\ crRow.status \in {"applying", "installing", "complete", "failed"}
        /\ crRow.req.confirmed /\ CredentialProblems(crRow.req) = {}

\* A thread that was not cut off leaves its outcome in the row; as long as it runs the
\* row does not say that it failed.
OutcomeIsTold ==
    /\ crJob.is = "ended" <=> crRow.told
    /\ crRow.told => crRow.status = (IF crRow.error THEN "failed" ELSE "complete")
    /\ crRow.status = "failed" => crJob.is = "ended"

\* No credential of the account and no secret made for the cluster stays in the row,
\* whichever tool repeated it; what the row may keep is of the control plane's own
\* environment, which the tools get as well and only the license's step takes out.  The
\* file with the key goes, unless the control plane went down over it.
NothingGivenStays ==
    /\ crRow.log \subseteq Environment
    /\ crCloud.keyFile => crJob.is \in {"running", "lost"} /\ Stage # "finish"

\* cloud_provisioner.py, cloud_provision.py: what the row of a run says is what was done.
CloudRunsTell == CompleteIsInstalled /\ MadeIsTold /\ OutcomeIsTold /\ NothingGivenStays
=============================================================================

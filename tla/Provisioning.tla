--------------------------- MODULE Provisioning ---------------------------
(***************************************************************************)
(* From the definition of a tick house to the services of its cluster: the *)
(* definition is validated and kept, provisioning it queues a command, the *)
(* tenant's agent renders it with helm or with docker compose and reports, *)
(* and the status of the house follows the report when somebody asks.  The *)
(* same agent takes the plainer commands of the fleet screen: a shard      *)
(* count, or take everything down.                                         *)
(*                                                                         *)
(* Requests run in threads: the two transactions of a provision request,   *)
(* and the reading and writing of a status request, interleave.            *)
(***************************************************************************)
EXTENDS Topology, Sequences, FiniteSetsExt

CONSTANTS
    PvSpecs,   \* the definitions that are submitted
    PvCounts,  \* the shard counts asked for, each with or without a gateway count
    PvBackends,
    PvMaxCmds, PvMaxFails

ASSUME ProvisioningAssumption ==
    \A spec \in PvSpecs :
        /\ DOMAIN spec = {"policy", "ranges", "symbols", "idb", "target", "components"}
        /\ spec.ranges \in Seq(Nat \X Nat) /\ spec.symbols \in Seq(SUBSET UNION Range(spec.symbols))

VARIABLES
    pvHouse, \* the tick house's row, with `overlapped`, history: a status request was
             \* under way when a provision was requested, or either when it was created
    pvReqs,  \* the requests under way: "asked", between its two transactions, and "poll",
             \* which stands for all that have read the same
    pvCmds,  \* the agent's commands, in the order in which it gets them
    pvBox,   \* the cluster, with the command in work and, history, the last one ended
    pvFails

pvVars == <<pvHouse, pvReqs, pvCmds, pvBox, pvFails>>

-----------------------------------------------------------------------------
(* Definitions and their validation *)

Letterwise(spec) == spec.policy = "letter-range"

\* parse_shard_ranges, parse_explicit_shards: what raises.
Parsed(spec) ==
    IF Letterwise(spec)
    THEN spec.ranges # <<>> /\ \A k \in DOMAIN spec.ranges : spec.ranges[k][1] <= spec.ranges[k][2]
    ELSE spec.symbols # <<>> /\ \A k \in DOMAIN spec.symbols : spec.symbols[k] # {}

ShardCount(spec) == IF Letterwise(spec) THEN Len(spec.ranges) ELSE Len(spec.symbols)

\* Variant: a range is taken not to have its last letter.
OpenCovers(range) == range[1] .. range[2] - 1

Covers(range) == range[1] .. range[2]

\* Sorted by their first letters, each range is compared with all before it: any two meet.
Overlapping(ranges) ==
    \E j, k \in DOMAIN ranges : j < k /\ Covers(ranges[j]) \cap Covers(ranges[k]) # {}

SymbolTwice(symbols) ==
    \E j, k \in DOMAIN symbols : j # k /\ symbols[j] \cap symbols[k] # {}

\* validate_spec.  A gap between the ranges is no problem to it.
Problems(spec) ==
    (IF Letterwise(spec) /\ Overlapping(spec.ranges) THEN {"overlap"} ELSE {})
    \cup (IF ~Letterwise(spec) /\ SymbolTwice(spec.symbols) THEN {"symbol twice"} ELSE {})
    \cup (IF spec.idb /\ "idb" \notin spec.components THEN {"no idb"} ELSE {})
    \cup {"missing " \o c : c \in {"tickerplant", "rdb", "hdb", "gateway"} \ spec.components}
    \cup (IF spec.target THEN {} ELSE {"target_config"})

\* auto_spec: the components are filled in.
AutoSpec(spec) ==
    [spec EXCEPT !.components = {"feedhandler", "logger", "tickerplant", "rdb", "hdb", "gateway"}
                                    \cup (IF spec.idb THEN {"idb"} ELSE {})]

NoSpec == [policy |-> "none"]

\* create.  If the feed handler that comes with it is refused, the house stands.
CreateHouse(spec) ==
    /\ pvHouse.status = "none"
    /\ Parsed(spec)
    /\ Problems(AutoSpec(spec)) = {}
    /\ pvHouse' = [pvHouse EXCEPT !.status = "defined", !.spec = spec, !.overlapped = (pvReqs # {})]
    /\ UNCHANGED <<pvReqs, pvCmds, pvBox, pvFails>>

\* delete_tickhouse: the row only; the cluster goes on.  The number may be given out again,
\* and a request that is about to write the row then writes the new one.
DeleteHouse ==
    /\ pvHouse.status # "none"
    /\ pvHouse' = [pvHouse EXCEPT !.status = "none", !.last = 0, !.spec = NoSpec]
    /\ UNCHANGED <<pvReqs, pvCmds, pvBox, pvFails>>

\* A request that does not write: no row has its number any more, or the control plane
\* goes down before.
RequestFails(r) ==
    /\ pvReqs' = pvReqs \ {r}
    /\ UNCHANGED <<pvHouse, pvCmds, pvBox, pvFails>>

-----------------------------------------------------------------------------
(* Requests for commands, and the status *)

Cmd(act, n, scaled) == [act |-> act, n |-> n, scaled |-> scaled, status |-> "queued"]
MayQueue == Len(pvCmds) < PvMaxCmds

\* The payload's shard count is the number of the definition's shards.
ProvisionPayload(spec) == Cmd("spec", ShardCount(spec), FALSE)

\* provision: the command first,
ProvisionAsked ==
    /\ pvHouse.status # "none" /\ MayQueue
    /\ pvCmds' = Append(pvCmds, ProvisionPayload(pvHouse.spec))
    /\ pvReqs' = pvReqs \cup {[kind |-> "asked", last |-> Len(pvCmds) + 1, verdict |-> ""]}
    /\ pvHouse' = [pvHouse EXCEPT !.overlapped = @ \/ \E r \in pvReqs : r.kind = "poll"]
    /\ UNCHANGED <<pvBox, pvFails>>

\* then the row, in a transaction of its own.
ProvisionMarked(r) ==
    /\ r.kind = "asked" /\ pvHouse.status # "none"
    /\ pvHouse' = [pvHouse EXCEPT !.status = "provisioning", !.last = r.last]
    /\ pvReqs' = pvReqs \ {r}
    /\ UNCHANGED <<pvCmds, pvBox, pvFails>>

\* Variant: whatever the command has become, it is no failure.
RosyVerdict(status) == IF status = "failure" THEN "running" ELSE IF status = "success" THEN "running" ELSE ""

Verdict(status) ==
    CASE status = "success" -> "running" [] status = "failure" -> "failed" [] OTHER -> ""

\* status: what the last command has become, if the house is being provisioned.
StatusRead ==
    /\ pvHouse.status = "provisioning" /\ pvHouse.last # 0
    /\ Verdict(pvCmds[pvHouse.last].status) # ""
    /\ pvReqs' = pvReqs \cup {[kind |-> "poll", last |-> pvHouse.last,
                              verdict |-> Verdict(pvCmds[pvHouse.last].status)]}
    /\ pvHouse' = [pvHouse EXCEPT !.overlapped = @ \/ \E r \in pvReqs : r.kind = "asked"]
    /\ UNCHANGED <<pvCmds, pvBox, pvFails>>

\* The status column is written back, whatever the row has become in between.
StatusWritten(r) ==
    /\ r.kind = "poll" /\ pvHouse.status # "none"
    /\ pvHouse' = [pvHouse EXCEPT !.status = r.verdict]
    /\ pvReqs' \in {pvReqs \ {r}, pvReqs}
    /\ UNCHANGED <<pvCmds, pvBox, pvFails>>

\* The fleet screen: reach n shards; take the data plane down.
CountAsked(n, scaled) ==
    /\ MayQueue /\ ValidCount(n)
    /\ pvCmds' = Append(pvCmds, Cmd("count", n, scaled))
    /\ UNCHANGED <<pvHouse, pvReqs, pvBox, pvFails>>

DownAsked ==
    /\ MayQueue
    /\ pvCmds' = Append(pvCmds, Cmd("down", 0, FALSE))
    /\ UNCHANGED <<pvHouse, pvReqs, pvBox, pvFails>>

-----------------------------------------------------------------------------
(* The agent: one command after the other *)

InWork == pvBox.doing # 0

Fails == pvFails < PvMaxFails
Failing == Fails /\ pvFails' = pvFails + 1

\* The command ends and its outcome is reported.
Ends(i, outcome) ==
    /\ pvCmds' = [pvCmds EXCEPT ![i].status = outcome]
    /\ UNCHANGED <<pvHouse, pvReqs>>

\* current_shard_count: shards.json for compose, the values of the release's latest
\* revision, failed or not, for helm; 0 for none.
RecordedByFile == pvBox.file
RecordedByRelease == pvBox.release
CurrentShardCount == IF pvBox.backend = "compose" THEN RecordedByFile ELSE RecordedByRelease

\* Provisioner: a shard count out of range is refused, whatever the form.
ConfigRefused(i) ==
    /\ pvCmds[i].act # "down" /\ ~ValidCount(pvCmds[i].n)
    /\ pvBox' = [pvBox EXCEPT !.ended = i]
    /\ Ends(i, "failure")
    /\ UNCHANGED pvFails

\* Provisioner.provision: only a plain shard count is compared with what there is.
NothingToDo(i) ==
    pvCmds[i].act = "count" /\ ~pvCmds[i].scaled /\ CurrentShardCount = pvCmds[i].n

NoChange(i) ==
    /\ NothingToDo(i)
    /\ pvBox' = [pvBox EXCEPT !.ended = i]
    /\ Ends(i, "success")
    /\ UNCHANGED pvFails

ToReconcile(i) == pvCmds[i].act # "down" /\ ValidCount(pvCmds[i].n) /\ ~NothingToDo(i)

\* gen_topology writes shards.json and then the compose file; it may fail before the
\* first or between the two.
Generated(i) ==
    /\ pvBox.backend = "compose" /\ ToReconcile(i)
    /\ \/ /\ pvBox' = [pvBox EXCEPT !.doing = i, !.file = pvCmds[i].n]
          /\ UNCHANGED <<pvHouse, pvReqs, pvCmds, pvFails>>
       \/ /\ Failing
          /\ pvBox' \in {[pvBox EXCEPT !.ended = i], [pvBox EXCEPT !.ended = i, !.file = pvCmds[i].n]}
          /\ Ends(i, "failure")

\* Of a definition's settings the chart's routing reads the shard count only, and the
\* compose file is generated from it: the ranges go no further.
RenderedCount(cmd) == cmd.n

\* How deep in the dependencies a service is: the order in which they are started.
Depth(n) ==
    LET depth[s \in DOMAIN Compose(n)] ==
            IF Compose(n)[s].deps = {} THEN 0 ELSE 1 + Max({depth[d] : d \in Compose(n)[s].deps})
    IN depth

\* What is not of n shards goes, what is comes in the order of its dependencies, all of it
\* or up to some depth.
Started(n, reached) ==
    {s \in Enabled(n, {}) : s \in pvBox.running \/ Depth(n)[s] < reached}

\* Variant: the backend does not look at the return code.
UpUnchecked(rc) == "success"

UpOutcome(rc) == IF rc = 0 THEN "success" ELSE "failure"

Reaching(i, rc, box) ==
    LET n == RenderedCount(pvCmds[i])
    IN /\ IF rc = 0
          THEN pvBox' = [box EXCEPT !.running = Enabled(n, {})] /\ UNCHANGED pvFails
          ELSE Failing /\ \E reached \in {0, 2} : pvBox' = [box EXCEPT !.running = Started(n, reached)]
       /\ Ends(i, UpOutcome(rc))

\* ComposeBackend.reconcile, reconcile_spec: docker compose up.
ComposeUp ==
    /\ InWork
    /\ \E rc \in {0, 1} : Reaching(pvBox.doing, rc, [pvBox EXCEPT !.doing = 0, !.ended = pvBox.doing])

\* HelmBackend.reconcile, reconcile_spec: helm upgrade --install --wait.
HelmUpgrade(i) ==
    /\ pvBox.backend = "helm" /\ ToReconcile(i)
    /\ \E rc \in {0, 1} :
          Reaching(i, rc, [pvBox EXCEPT !.ended = i, !.release = RenderedCount(pvCmds[i])])

\* docker compose down leaves the files,
ComposeDown(i, rc) ==
    /\ pvBox.backend = "compose" /\ pvCmds[i].act = "down"
    /\ pvBox' = [pvBox EXCEPT !.running = IF rc = 0 THEN {} ELSE @, !.ended = i]

\* helm uninstall leaves no release, and fails where there is none.
HelmUninstall(i, rc) ==
    /\ pvBox.backend = "helm" /\ pvCmds[i].act = "down"
    /\ pvBox.release = 0 => rc = 1
    /\ pvBox' = [pvBox EXCEPT !.running = IF rc = 0 THEN {} ELSE @, !.ended = i,
                              !.release = IF rc = 0 THEN 0 ELSE @]

TornDown(i) ==
    \E rc \in {0, 1} :
        /\ ComposeDown(i, rc) \/ HelmUninstall(i, rc)
        /\ IF rc = 0 \/ (pvBox.backend = "helm" /\ pvBox.release = 0) THEN UNCHANGED pvFails ELSE Failing
        /\ Ends(i, UpOutcome(rc))

\* The agent dies with a command in work: nobody reports it.
AgentDies ==
    /\ InWork /\ Failing
    /\ pvBox' = [pvBox EXCEPT !.doing = 0, !.ended = 0]
    /\ pvCmds' = [pvCmds EXCEPT ![pvBox.doing].status = "dispatched"]
    /\ UNCHANGED <<pvHouse, pvReqs>>

NextCommand(i) == ~InWork /\ pvCmds[i].status = "queued" /\ \A j \in 1 .. i - 1 : pvCmds[j].status # "queued"

-----------------------------------------------------------------------------
PvStart(backend) ==
    /\ pvHouse = [status |-> "none", last |-> 0, spec |-> NoSpec, overlapped |-> FALSE]
    /\ pvReqs = {} /\ pvCmds = <<>> /\ pvFails = 0
    /\ pvBox = [backend |-> backend, file |-> 0, release |-> 0, running |-> {}, doing |-> 0, ended |-> 0]

PvInit == \E backend \in PvBackends : PvStart(backend)

PvNext ==
    \/ \E spec \in PvSpecs : CreateHouse(spec)
    \/ DeleteHouse \/ ProvisionAsked \/ StatusRead
    \/ \E r \in pvReqs : ProvisionMarked(r) \/ StatusWritten(r) \/ RequestFails(r)
    \/ \E n \in PvCounts, scaled \in BOOLEAN : CountAsked(n, scaled)
    \/ DownAsked
    \/ \E i \in DOMAIN pvCmds : 
            NextCommand(i) /\ (ConfigRefused(i) \/ NoChange(i) \/ Generated(i) \/ HelmUpgrade(i) \/ TornDown(i))
    \/ ComposeUp \/ AgentDies

ProvisioningSpec == PvInit /\ [][PvNext]_pvVars

-----------------------------------------------------------------------------
\* A definition that was accepted sends no letter, and no symbol, to two shards.
AcceptedSpecsPartition ==
    pvHouse.status # "none" =>
        LET parts == IF Letterwise(pvHouse.spec) THEN [k \in DOMAIN pvHouse.spec.ranges |->
                            {l \in 1 .. Letters : pvHouse.spec.ranges[k][1] <= l /\ l <= pvHouse.spec.ranges[k][2]}]
                     ELSE pvHouse.spec.symbols
        IN \A j, k \in DOMAIN parts : j # k => parts[j] \cap parts[k] = {}

\* The status of a house is what became of its last command, but for one that a status
\* request and a provision request have written at the same time, or a request for an
\* earlier house of its number; even then it is what became of a command to provision.
HouseTellsItsCommand ==
    LET told(i) == /\ pvCmds[i].act = "spec"
                   /\ pvCmds[i].status = IF pvHouse.status = "running" THEN "success" ELSE "failure"
    IN pvHouse.status \in {"running", "failed"} =>
          /\ \E i \in DOMAIN pvCmds : told(i)
          /\ ~pvHouse.overlapped => told(pvHouse.last)

\* A cluster whose last command ran, and was reported as a success, has all the services
\* of its shard count, none of which waits for what is not there, and the runtimes agree
\* on the shard of every symbol.
RanIsDeployed ==
    LET ran(i) == pvCmds[i].act = "spec" \/ pvCmds[i].scaled
    IN pvBox.ended # 0 /\ ran(pvBox.ended) /\ pvCmds[pvBox.ended].status = "success" =>
          /\ pvBox.running = DOMAIN ShardServices(pvCmds[pvBox.ended].n) \cup {<<"gateway", 0>>}
                \cup Sims \X {0} \cup {"control-api", "watchdog", "web-ui"} \X {0}
          /\ ComposeIsWhole(pvCmds[pvBox.ended].n, {"providers"})
          /\ RoutersAgree(pvCmds[pvBox.ended].n)

\* backends.py, tickhouse.py: what the control plane tells of a cluster is what was done
\* to it.
ProvisioningIsHonest == AcceptedSpecsPartition /\ HouseTellsItsCommand /\ RanIsDeployed
=============================================================================

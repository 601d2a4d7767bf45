--------------------------- MODULE MockGenerator ---------------------------
(***************************************************************************)
(* MockGenerator.generate_all and main() of                                 *)
(* src/pkg/unify-query/script/000.mock_resource_query_relation/             *)
(*     001.mock_bkop_business_traffic.py                                    *)
(* run against the store of StorageClient, one run after another: each run  *)
(* is a new process (its in-memory registry and traffic list start empty),  *)
(* the store persists between runs.  MockConfig reads NUM_NODES and        *)
(* NUM_DEPLOYMENTS from the environment when the class body runs, once per  *)
(* process, so each run may use other values than the one before.           *)
(*                                                                          *)
(* Every storage call is one step.  The backend either applies it and       *)
(* answers, rejects it (nothing written, the client raises), or applies it  *)
(* and the answer is lost (the client raises after the write).  Any         *)
(* exception ends the run: main() catches it and returns 1.                 *)
(***************************************************************************)
EXTENDS Naturals, Sequences, FiniteSets, SequencesExt

CONSTANTS NodeChoices,       \* values NUM_NODES takes in the environment
          NumPods,           \* MockConfig.NUM_PODS
          NumServices,       \* Len(MockConfig.SERVICE_LIST)
          DeploymentChoices, \* values NUM_DEPLOYMENTS takes
          MaxRuns,         \* bound: number of runs of the script
          MaxFailures,     \* bound: number of failing storage calls
          BackendChoices,  \* values --backend takes: "native", "bkbase"
          Absent

ASSUME /\ NodeChoices \subseteq Nat /\ DeploymentChoices \subseteq Nat
       /\ NodeChoices # {} /\ DeploymentChoices # {}
       /\ NumPods \in Nat
       /\ NumServices \in Nat \ {0}    \* SERVICE_LIST is a non-empty literal
       /\ MaxRuns \in Nat /\ MaxFailures \in Nat
       /\ BackendChoices \subseteq {"native", "bkbase"}
       /\ BackendChoices # {}

(* The catalog of create_metrics_metadata: flow_total, flow_seconds,       *)
(* flow_error.                                                              *)
NumMetrics == 3

NodeKinds == {"biz", "cluster", "namespace", "node", "pod", "service",
              "deployment", "replicaset", "metric"}

EdgeKinds == {"node_with_pod", "pod_with_service",
              "deployment_with_replicaset", "pod_with_replicaset",
              "pod_to_pod", "relation_has_metric"}

(* How many entities of a kind a run writes, given its NUM_NODES and      *)
(* NUM_DEPLOYMENTS.                                                          *)
CountIn(kind, nn, nd) ==
    CASE kind \in {"biz", "cluster", "namespace"} -> 1
      [] kind = "node"       -> nn
      [] kind = "pod"        -> NumPods
      [] kind = "service"    -> NumServices
      [] kind \in {"deployment", "replicaset"} -> nd
      [] kind = "metric"     -> NumMetrics

(* The record id of the i-th entity of a kind (IDGenerator.generate_node_id *)
(* is injective on the values the generator builds, see IdScheme).          *)
Rid(kind, i) == <<kind, i>>

(* Every id any run can write.                                              *)
NodeIds ==
    UNION {{Rid(k, n) : n \in 1..CountIn(k, Max(NodeChoices),
                                           Max(DeploymentChoices))} :
           k \in NodeKinds}

Runs == 1..MaxRuns

VARIABLES nodes, edges, edgeSeq,   \* the store
          run,        \* number of the current (or last) run
          pc,         \* the stage the run is in, "idle" between runs
          i, j,       \* loop indices of the stage
          traffic,    \* self.traffic_relations: <<source pod, target pod>>
          selected,   \* ids returned by SELECT id FROM pod_to_pod
          samples,    \* the pairs written to ./metric_samples.json
          failures,   \* storage calls that failed so far
          lastExit,   \* how the last run ended
          hung,       \* the request the client waits on in session.post
                      \* while the server does not answer, or NoReq
          late,       \* requests the client gave up on (timeout) that the
                      \* server still holds and may apply later
          numNodes,        \* MockConfig.NUM_NODES of the current process
          numDeployments,  \* MockConfig.NUM_DEPLOYMENTS of the current process
          backend          \* --backend of the current process

(* The configuration of the current run.                                   *)
NumNodes == numNodes
NumDeployments == numDeployments
Count(kind) == CountIn(kind, numNodes, numDeployments)
Ids(kind) == {Rid(kind, n) : n \in 1..Count(kind)}

vars == <<nodes, edges, edgeSeq, run, pc, i, j, traffic, selected, samples,
          failures, lastExit, hung, late, numNodes, numDeployments, backend>>

(* What a process reads once at its start.                                  *)
cfgVars == <<numNodes, numDeployments, backend>>

SC == INSTANCE StorageClient

(***************************************************************************)
(* generate_all: the stages in the order it calls them, with               *)
(* create_static_relations expanded into its three relation builders       *)
(* (_create_biz_cluster_relations only logs).                               *)
(***************************************************************************)
(* Mutant: the deployment chain before the deployments are stored.         *)
StagesChainFirst ==
    <<"connect", "biz", "cluster", "namespace", "nodes", "pods",
      "services", "chain", "deployments", "node_pod", "pod_svc",
      "traffic", "metric_defs", "select", "has_metric", "metric_values">>

Stages == <<"connect", "biz", "cluster", "namespace", "nodes", "pods",
            "services", "deployments", "chain", "node_pod", "pod_svc",
            "traffic", "metric_defs", "select", "has_metric",
            "metric_values">>

NextStage(s) ==
    LET k == CHOOSE n \in 1..Len(Stages) : Stages[n] = s
    IN  IF k = Len(Stages) THEN "idle" ELSE Stages[k + 1]

(***************************************************************************)
(* Even partitioning of pods over groups (services, deployments):          *)
(*   per = len(pods) // len(groups)                                         *)
(*   start = g * per                                                        *)
(*   end = start + per if g < len(groups) - 1 else len(pods)                *)
(* with groups numbered from 1 here; group g gets pods start+1..end.        *)
(***************************************************************************)
PerGroup(total, groups) == total \div groups

SliceStart(g, total, groups) == (g - 1) * PerGroup(total, groups)

(* Mutant: every group gets exactly per pods, the remainder is dropped.     *)
SliceEndNoRemainder(g, total, groups) ==
    SliceStart(g, total, groups) + PerGroup(total, groups)

(* Mutant: end_idx used as an inclusive bound one too far left.            *)
SliceEndExclusive(g, total, groups) ==
    IF g < groups THEN SliceStart(g, total, groups) + PerGroup(total, groups) - 1
                  ELSE total - 1

SliceEnd(g, total, groups) ==
    IF g < groups THEN SliceStart(g, total, groups) + PerGroup(total, groups)
                  ELSE total

(* node_with_pod: nodes[i % len(nodes)], pods numbered from 1.             *)
NodeOfPod(p) == ((p - 1) % NumNodes) + 1

(* The key SurrealDB gives pod_to_pod:`<id>` when <id> is the id string    *)
(* "pod_to_pod:xyz" returned by the SELECT: the whole string is the key.   *)
Wrapped(eid) == <<"pod_to_pod", eid>>

(* ids sorted as the table scan returns them                               *)
ByNumber(a, b) == a[2][1] < b[2][1]

-----------------------------------------------------------------------------
(***************************************************************************)
(* Control                                                                 *)
(***************************************************************************)

Init ==
    /\ SC!StoreInit
    /\ run = 0
    /\ pc = "idle"
    /\ i = 1 /\ j = 1
    /\ traffic = <<>>
    /\ selected = <<>>
    /\ samples = {}
    /\ failures = 0
    /\ lastExit = "none"
    /\ hung = SC!NoReq
    /\ late = {}
    /\ numNodes \in NodeChoices
    /\ numDeployments \in DeploymentChoices
    /\ backend \in BackendChoices

(* The client is not blocked in session.post.                              *)
Ready == hung = SC!NoReq

(* Go to stage or sub-step s with loop indices ni, nj.                     *)
Goto(s, ni, nj) ==
    /\ pc' = s /\ i' = ni /\ j' = nj
    /\ UNCHANGED <<run, traffic, selected, samples>>

Proceed(s) == Goto(s, 1, 1)

(* An exception escapes generate_all; main() logs it and returns 1.         *)
Abort(cause) ==
    /\ pc' = "idle"
    /\ lastExit' = cause
    /\ UNCHANGED <<run, i, j, traffic, selected, samples>>

(***************************************************************************)
(* One execute_sql call with request r.  The server answers 200 and the    *)
(* call returns; or it raises: an error status with nothing written, or a  *)
(* write whose answer is lost (connection reset); or the server holds the  *)
(* request without answering and the client stays blocked in              *)
(* session.post.  Every failure counts against MaxFailures.                *)
(***************************************************************************)
StorageCall(r, continue) ==
    /\ Ready
    /\ \/ /\ SC!Apply(r)
          /\ continue
          /\ UNCHANGED <<failures, lastExit, hung, late>>
       \/ /\ failures < MaxFailures
          /\ failures' = failures + 1
          /\ SC!Reject(r) \/ SC!Apply(r)
          /\ Abort("storage_error")
          /\ UNCHANGED <<hung, late>>
       \/ /\ failures < MaxFailures
          /\ failures' = failures + 1
          /\ hung' = r
          /\ UNCHANGED <<nodes, edges, edgeSeq, run, pc, i, j, traffic,
                         selected, samples, lastExit, late>>

(* A Python error raised by the generator's own code.                      *)
CodeError ==
    /\ Ready
    /\ Abort("code_error")
    /\ UNCHANGED <<nodes, edges, edgeSeq, failures, hung, late>>

InternalStep(s, ni, nj) ==
    /\ Ready
    /\ Goto(s, ni, nj)
    /\ UNCHANGED <<nodes, edges, edgeSeq, failures, lastExit, hung, late>>

(***************************************************************************)
(* The server side of a held request.                                      *)
(***************************************************************************)
(* The server gets to the request: the call then has the outcomes of       *)
(* StorageCall.                                                            *)
Resume ==
    /\ ~Ready
    /\ hung' = SC!NoReq
    /\ UNCHANGED <<nodes, edges, edgeSeq, run, pc, i, j, traffic, selected,
                   samples, failures, lastExit, late>>

(* Mutant: BKBaseClient.execute_sql posting without timeout=60.             *)
HasTimeoutNone(b) == FALSE

(* BKBaseClient.execute_sql posts with timeout=60; SurrealDBClient's post   *)
(* has no timeout.                                                          *)
HasTimeout(b) == b = "bkbase"

(* requests raises Timeout after 60 s without an answer: the run aborts,   *)
(* and a write the server holds is still applied whenever it gets to it.   *)
Timeout ==
    /\ ~Ready
    /\ HasTimeout(backend)
    /\ hung' = SC!NoReq
    /\ late' = IF hung.op = "read" THEN late ELSE late \cup {hung}
    /\ Abort("storage_error")
    /\ UNCHANGED <<nodes, edges, edgeSeq, failures>>

(* The server applies a request whose client already gave up.             *)
LateApply ==
    \E r \in late :
        /\ SC!Apply(r)
        /\ late' = late \ {r}
        /\ UNCHANGED <<run, pc, i, j, traffic, selected, samples, failures,
                       lastExit, hung>>

(* A new process runs the script with its own arguments and environment;  *)
(* MockGenerator(client) starts with an empty registry and traffic list.  *)
StartRun ==
    /\ pc = "idle"
    /\ run < MaxRuns
    /\ run' = run + 1
    /\ pc' = "connect"
    /\ i' = 1 /\ j' = 1
    /\ traffic' = <<>>
    /\ selected' = <<>>
    /\ numNodes' \in NodeChoices
    /\ numDeployments' \in DeploymentChoices
    /\ backend' \in BackendChoices
    /\ UNCHANGED <<nodes, edges, edgeSeq, samples, failures, lastExit, hung,
                   late>>

(* main: create_storage_client, then the connection test query (INFO FOR   *)
(* DB natively, SELECT * FROM pod LIMIT 1 through BKBase).                  *)
Connect ==
    /\ pc = "connect"
    /\ StorageCall(SC!ReadReq, Proceed(NextStage("connect")))

(***************************************************************************)
(* Entity stages                                                           *)
(***************************************************************************)

(* create_biz / create_cluster / create_namespace: one upsert_node, then    *)
(* the registry entry.                                                      *)
CreateSingleton(stage, kind) ==
    /\ pc = stage
    /\ StorageCall(SC!UpsertReq({Rid(kind, 1)}, run),
                   Proceed(NextStage(stage)))

CreateBiz       == CreateSingleton("biz", "biz")
CreateCluster   == CreateSingleton("cluster", "cluster")
CreateNamespace == CreateSingleton("namespace", "namespace")

(* create_nodes / create_pods / create_services / create_deployments: one   *)
(* batch_upsert_nodes of all entities of the kind; an empty list returns {} *)
(* without a request.                                                       *)
BatchStage(stage, kind) ==
    \/ /\ Count(kind) = 0
       /\ InternalStep(NextStage(stage), 1, 1)
    \/ /\ Count(kind) > 0
       /\ StorageCall(SC!UpsertReq(Ids(kind), run),
                      Proceed(NextStage(stage)))

CreateNodes    == pc = "nodes"    /\ BatchStage("nodes", "node")
CreatePods     == pc = "pods"     /\ BatchStage("pods", "pod")
CreateServices == pc = "services" /\ BatchStage("services", "service")

(* create_deployments names deployment i after SERVICE_LIST[i]: more        *)
(* deployments than services raise IndexError before the batch is sent.     *)
CreateDeployments ==
    /\ pc = "deployments"
    /\ \/ /\ NumDeployments > NumServices
          /\ CodeError
       \/ /\ NumDeployments <= NumServices
          /\ BatchStage("deployments", "deployment")

(***************************************************************************)
(* _create_deployment_chain_relations: for each deployment i, upsert its    *)
(* replica set, relate deployment -> replica set, relate each pod of the    *)
(* deployment's slice -> replica set.  Without deployments it returns at    *)
(* once.                                                                    *)
(***************************************************************************)
ChainStart ==
    /\ pc = "chain"
    /\ \/ /\ NumDeployments = 0
          /\ InternalStep(NextStage("chain"), 1, 1)
       \/ /\ NumDeployments > 0
          /\ InternalStep("chain_rs", 1, 1)

ChainReplicaSet ==
    /\ pc = "chain_rs"
    /\ StorageCall(SC!UpsertReq({Rid("replicaset", i)}, run),
                   Goto("chain_dep_rs", i, 1))

ChainDeploymentRs ==
    /\ pc = "chain_dep_rs"
    /\ StorageCall(SC!RelateReq("deployment_with_replicaset",
                       Rid("deployment", i), Rid("replicaset", i), run),
                   Goto("chain_pod_rs", i,
                        SliceStart(i, NumPods, NumDeployments) + 1))

ChainPodRs ==
    /\ pc = "chain_pod_rs"
    /\ j <= SliceEnd(i, NumPods, NumDeployments)
    /\ StorageCall(SC!RelateReq("pod_with_replicaset",
                       Rid("pod", j), Rid("replicaset", i), run),
                   Goto("chain_pod_rs", i, j + 1))

(* The slice of deployment i is done: next deployment, or store the        *)
(* replica sets in the registry and leave the chain.                        *)
ChainNextDeployment ==
    /\ pc = "chain_pod_rs"
    /\ j > SliceEnd(i, NumPods, NumDeployments)
    /\ IF i < NumDeployments
         THEN InternalStep("chain_rs", i + 1, 1)
         ELSE InternalStep(NextStage("chain"), 1, 1)

(***************************************************************************)
(* _create_node_with_pod_relations: pod i goes to nodes[i % len(nodes)];   *)
(* with no nodes the modulo raises ZeroDivisionError at the first pod.      *)
(***************************************************************************)
NodeWithPod ==
    /\ pc = "node_pod"
    /\ i <= NumPods
    /\ \/ /\ NumNodes = 0
          /\ CodeError
       \/ /\ NumNodes > 0
          /\ StorageCall(SC!RelateReq("node_with_pod",
                             Rid("node", NodeOfPod(i)), Rid("pod", i), run),
                         Goto("node_pod", i + 1, 1))

NodeWithPodDone ==
    /\ pc = "node_pod"
    /\ i > NumPods
    /\ InternalStep(NextStage("node_pod"), 1,
                    SliceStart(1, NumPods, NumServices) + 1)

(***************************************************************************)
(* _create_pod_with_service_relations: service i gets the pods of its      *)
(* slice; i is the service, j the pod.                                      *)
(***************************************************************************)
PodWithService ==
    /\ pc = "pod_svc"
    /\ j <= SliceEnd(i, NumPods, NumServices)
    /\ StorageCall(SC!RelateReq("pod_with_service",
                       Rid("pod", j), Rid("service", i), run),
                   Goto("pod_svc", i, j + 1))

PodWithServiceNext ==
    /\ pc = "pod_svc"
    /\ j > SliceEnd(i, NumPods, NumServices)
    /\ IF i < NumServices
         THEN InternalStep("pod_svc", i + 1,
                           SliceStart(i + 1, NumPods, NumServices) + 1)
         ELSE InternalStep(NextStage("pod_svc"), 1, 1)

(***************************************************************************)
(* create_dynamic_relations: each pod, with probability p, relates to a    *)
(* random other pod and the pair is appended to traffic_relations once the *)
(* upsert_relation returned.                                                *)
(***************************************************************************)
PodToPod ==
    /\ pc = "traffic"
    /\ i <= NumPods
    /\ \E t \in (1..NumPods) \ {i} :
          StorageCall(SC!RelateReq("pod_to_pod", Rid("pod", i),
                                        Rid("pod", t), run),
                      /\ traffic' = Append(traffic, <<i, t>>)
                      /\ pc' = "traffic" /\ i' = i + 1
                      /\ UNCHANGED <<run, j, selected, samples>>)

(* random() >= p, or no other pod to pick.                                 *)
NoTraffic ==
    /\ pc = "traffic"
    /\ i <= NumPods
    /\ InternalStep("traffic", i + 1, 1)

TrafficDone ==
    /\ pc = "traffic"
    /\ i > NumPods
    /\ InternalStep(NextStage("traffic"), 1, 1)

(***************************************************************************)
(* create_metrics_metadata: one upsert_node per metric definition.         *)
(***************************************************************************)
CreateMetric ==
    /\ pc = "metric_defs"
    /\ i <= NumMetrics
    /\ StorageCall(SC!UpsertReq({Rid("metric", i)}, run),
                   Goto("metric_defs", i + 1, 1))

CreateMetricsDone ==
    /\ pc = "metric_defs"
    /\ i > NumMetrics
    /\ InternalStep(NextStage("metric_defs"), 1, 1)

(***************************************************************************)
(* create_relation_has_metric: SELECT id FROM pod_to_pod, then for every   *)
(* returned id and every metric definition                                 *)
(*   RELATE pod_to_pod:`<id>`->relation_has_metric->metric:`<metric id>`   *)
(* with created_at and updated_at set to the current time unconditionally. *)
(***************************************************************************)
SelectTraffic ==
    /\ pc = "select"
    /\ StorageCall(SC!ReadReq,
                   /\ selected' = SetToSortSeq(SC!SelectIds("pod_to_pod"),
                                               ByNumber)
                   /\ pc' = NextStage("select") /\ i' = 1 /\ j' = 1
                   /\ UNCHANGED <<run, traffic, samples>>)

RelationHasMetric ==
    /\ pc = "has_metric"
    /\ i <= Len(selected)
    /\ StorageCall(SC!RelateReq("relation_has_metric",
                       Wrapped(selected[i]), Rid("metric", j), run),
                   IF j < NumMetrics THEN Goto("has_metric", i, j + 1)
                                     ELSE Goto("has_metric", i + 1, 1))

RelationHasMetricDone ==
    /\ pc = "has_metric"
    /\ i > Len(selected)
    /\ InternalStep(NextStage("has_metric"), 1, 1)

(***************************************************************************)
(* generate_metric_values: one series set per pair of traffic_relations,   *)
(* saved to ./metric_samples.json (replacing the previous file); then      *)
(* generate_all returns and main() returns 0.                              *)
(***************************************************************************)
GenerateMetricValues ==
    /\ Ready
    /\ pc = "metric_values"
    /\ samples' = ToSet(traffic)
    /\ pc' = NextStage("metric_values")
    /\ lastExit' = "ok"
    /\ UNCHANGED <<nodes, edges, edgeSeq, run, i, j, traffic, selected,
                   failures, hung, late>>

(* The steps of the script's one thread, the requests library's timeout    *)
(* included.                                                                *)
ClientStep ==
    /\ \/ Connect
       \/ CreateBiz \/ CreateCluster \/ CreateNamespace
       \/ CreateNodes \/ CreatePods \/ CreateServices \/ CreateDeployments
       \/ ChainStart \/ ChainReplicaSet \/ ChainDeploymentRs
       \/ ChainPodRs \/ ChainNextDeployment
       \/ NodeWithPod \/ NodeWithPodDone
       \/ PodWithService \/ PodWithServiceNext
       \/ PodToPod \/ NoTraffic \/ TrafficDone
       \/ CreateMetric \/ CreateMetricsDone
       \/ SelectTraffic \/ RelationHasMetric \/ RelationHasMetricDone
       \/ GenerateMetricValues
       \/ Timeout
    /\ UNCHANGED cfgVars

(* Starting the script is the operator's choice; the server may hold a     *)
(* request forever.                                                         *)
Next ==
    \/ StartRun
    \/ ClientStep
    \/ Resume /\ UNCHANGED cfgVars
    \/ LateApply /\ UNCHANGED cfgVars

Spec == Init /\ [][Next]_vars

(* The script runs on one thread that is never starved: whenever it can    *)
(* take a step it eventually does.  Nothing is assumed of the server.      *)
FairSpec == Spec /\ WF_vars(ClientStep)

-----------------------------------------------------------------------------
(***************************************************************************)
(* Properties                                                              *)
(***************************************************************************)

(* Endpoint tables of each relation, as upsert_relation's                  *)
(* from_resource_type and to_resource_type, and the RELATE of              *)
(* create_relation_has_metric.                                              *)
Ends(kind) ==
    CASE kind = "node_with_pod"              -> <<"node", "pod">>
      [] kind = "pod_with_service"           -> <<"pod", "service">>
      [] kind = "deployment_with_replicaset" -> <<"deployment", "replicaset">>
      [] kind = "pod_with_replicaset"        -> <<"pod", "replicaset">>
      [] kind = "pod_to_pod"                 -> <<"pod", "pod">>
      [] kind = "relation_has_metric"        -> <<"pod_to_pod", "metric">>

Stamp == [created : Runs, updated : Runs]

(* Type invariant.  Every edge leaves and enters the tables its relation   *)
(* kind names (RELATE from->kind->to, never the other way round).          *)
TypeOK ==
    /\ nodes \in [NodeIds -> Stamp \cup {Absent}]
    /\ \A e \in edges :
          /\ e.kind \in EdgeKinds
          /\ \E n \in 1..edgeSeq : e.id = SC!EdgeId(e.kind, n)
          /\ e.from[1] = Ends(e.kind)[1] /\ e.to[1] = Ends(e.kind)[2]
          /\ e.created \in Runs /\ e.updated \in Runs
    /\ edgeSeq \in Nat
    /\ run \in 0..MaxRuns
    /\ pc \in {"idle", "chain_rs", "chain_dep_rs", "chain_pod_rs"}
              \cup ToSet(Stages)
    /\ traffic \in Seq((1..NumPods) \X (1..NumPods))
    /\ samples \subseteq (1..NumPods) \X (1..NumPods)
    /\ failures \in 0..MaxFailures
    /\ lastExit \in {"none", "ok", "storage_error", "code_error"}
    /\ hung.op \in {"none", "read", "upsert", "relate"}
    /\ \A r \in late : r.op \in {"upsert", "relate"} /\ r.t \in Runs

(* batch_upsert_nodes runs its UPSERTs in one transaction: whatever runs   *)
(* failed before or during a batch stage, and whatever NUM_NODES and        *)
(* NUM_DEPLOYMENTS each run read, the entities of a batched kind in the     *)
(* store are those of one whole batch (the union of whole batches 1..c is   *)
(* the largest of them), never part of one.                                 *)
BatchAllOrNothing ==
    \A k \in {"node", "pod", "service", "deployment"} :
        {id \in NodeIds : id[1] = k /\ nodes[id] # Absent}
            \in {{Rid(k, n) : n \in 1..c} :
                  c \in {0} \cup {CountIn(k, nn, nd) : nn \in NodeChoices,
                                                     nd \in DeploymentChoices}}

(* The relations of the resource graph (all but relation_has_metric) only  *)
(* point at node records that exist: each stage relates entities that an   *)
(* earlier stage of the same run stored, and a failed run stops before it  *)
(* relates anything it has not stored.                                      *)
GraphEdgesReferToNodes ==
    \A e \in edges :
        e.kind # "relation_has_metric" =>
            nodes[e.from] # Absent /\ nodes[e.to] # Absent

(* A run that returned 0 wrote the static topology of spec section 4.3:    *)
(* among the edges of that run every pod is hosted by exactly one node     *)
(* (round robin), belongs to exactly one service and one replica set (even *)
(* partition, the last group taking the remainder; no replica set when     *)
(* NUM_DEPLOYMENTS is 0), and every deployment has exactly one replica set. *)
RunEdges(kind) == {e \in edges : e.kind = kind /\ e.created = run}

StaticTopologyExact ==
    (pc = "idle" /\ lastExit = "ok") =>
        /\ \A p \in 1..NumPods :
              /\ {e.from : e \in {x \in RunEdges("node_with_pod") :
                                      x.to = Rid("pod", p)}}
                    = {Rid("node", NodeOfPod(p))}
              /\ Cardinality({e \in RunEdges("node_with_pod") :
                                 e.to = Rid("pod", p)}) = 1
              /\ Cardinality({e \in RunEdges("pod_with_service") :
                                 e.from = Rid("pod", p)}) = 1
              /\ Cardinality({e \in RunEdges("pod_with_replicaset") :
                                 e.from = Rid("pod", p)})
                    = IF NumDeployments > 0 THEN 1 ELSE 0
        /\ \A d \in 1..NumDeployments :
              Cardinality({e \in RunEdges("deployment_with_replicaset") :
                              e.from = Rid("deployment", d)}) = 1

(* Spec 4.2: upsert_relation derives the relation identifier, so a re-run  *)
(* never duplicates a relation: at most one edge per kind and endpoints.   *)
NoDuplicateRelations ==
    \A e1, e2 \in edges :
        (e1.kind = e2.kind /\ e1.from = e2.from /\ e1.to = e2.to) => e1 = e2

(* Spec 4.3 stage 11: every relation_has_metric edge hangs off a           *)
(* pod_to_pod relation that was written.                                    *)
MetricEdgesReferToRelations ==
    \A e \in edges :
        e.kind = "relation_has_metric" =>
            \E r \in edges : r.kind = "pod_to_pod" /\ e.from = r.id

(* Spec 8.6: after a full run, relation_has_metric edges number            *)
(* NumMetrics times the traffic relations the run generated.  The SELECT of *)
(* create_relation_has_metric reads every pod_to_pod relation in the store, *)
(* while traffic_relations holds only this run's pairs.                     *)
MetricEdgesMatchTraffic ==
    (pc = "idle" /\ lastExit = "ok") =>
        Cardinality(RunEdges("relation_has_metric")) = NumMetrics * Len(traffic)

(* main() always returns: every run the script starts ends, with 0 or     *)
(* with 1, however the server behaves (spec section 5: a fixed per-request *)
(* ceiling on every storage call).                                          *)
RunEnds == pc # "idle" ~> pc = "idle"

(***************************************************************************)
(* The client implements the idempotent store of IdempotentStore: the      *)
(* records are the node records, a relation is the kind and endpoints of   *)
(* an edge, and the time is the run.                                       *)
(***************************************************************************)
Idem == INSTANCE IdempotentStore
            WITH anodes <- nodes,
                 rels <- {<<e.kind, e.from, e.to>> : e \in edges},
                 clock <- run

(* Every step of the script and of the server is a step of the idempotent *)
(* store: writes carry the time of the run that is going on, so updated_at *)
(* only advances (glossary: "a monotonically advancing updated_at").        *)
IdempotentStoreSpec == Idem!ASpec

=============================================================================

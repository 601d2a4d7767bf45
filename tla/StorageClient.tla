--------------------------- MODULE StorageClient ---------------------------
(***************************************************************************)
(* The graph store as the StorageClient implementations of                 *)
(* 001.mock_bkop_business_traffic.py drive it (SurrealDBClient and          *)
(* BKBaseClient build the same SurrealQL text; BKBase only wraps it in an   *)
(* HTTP envelope).                                                          *)
(*                                                                          *)
(* nodes   : record id -> [created, updated], or Absent before the first    *)
(*           UPSERT of that id;                                             *)
(* edges   : the set of edge records created by RELATE;                     *)
(* edgeSeq : the source of fresh edge ids (SurrealDB draws a random id for  *)
(*           every RELATE that names no id, which is every RELATE here).    *)
(*                                                                          *)
(* Timestamps are abstracted to the number of the run that supplied them:  *)
(* every created_at/updated_at a run passes lies in that run's window and   *)
(* updated_at is the run's END_TIME.                                        *)
(***************************************************************************)
EXTENDS Naturals, FiniteSets

CONSTANTS NodeIds,     \* record ids <<table, key>> the callers write as nodes
          EdgeKinds,   \* relation tables
          Absent       \* marks a node id with no record

VARIABLES nodes, edges, edgeSeq

storeVars == <<nodes, edges, edgeSeq>>

StoreInit ==
    /\ nodes = [id \in NodeIds |-> Absent]
    /\ edges = {}
    /\ edgeSeq = 0

(* The id SurrealDB gives the n-th RELATE into table kind: the key is an  *)
(* opaque random string, kept as the one-element sequence <<n>> so that it *)
(* is never confused with a key that is itself a record id (Wrapped).     *)
EdgeId(kind, n) == <<kind, <<n>>>>

(***************************************************************************)
(* One UPSERT statement:                                                   *)
(*   UPSERT t:`id` SET <fields>,                                            *)
(*       created_at = created_at OR type::datetime('<t>'),                  *)
(*       updated_at = type::datetime('<t>')                                 *)
(* An existing created_at is truthy and is kept; a missing one is NONE and  *)
(* is replaced by the supplied time.                                        *)
(***************************************************************************)
(* Mutant: the SET clause without "created_at OR".                         *)
UpsertedRecordOverwrite(rec, t) == [created |-> t, updated |-> t]

UpsertedRecord(rec, t) ==
    [created |-> IF rec = Absent THEN t ELSE rec.created,
     updated |-> t]

(* The statements of a whole batch, all of them applied.                   *)
Upserted(nds, ids, t) ==
    [id \in DOMAIN nds |-> IF id \in ids THEN UpsertedRecord(nds[id], t)
                                          ELSE nds[id]]

(* Mutant: the UPSERTs sent without BEGIN/COMMIT; the statements before    *)
(* the failing one stay written.                                            *)
RolledBackNoTxn(nds, ids, t) ==
    Upserted(nds, ids \ {CHOOSE x \in ids : TRUE}, t)

(* A failing batch: no statement of the transaction is kept.               *)
RolledBack(nds, ids, t) == nds

(***************************************************************************)
(* One RELATE statement:                                                   *)
(*   RELATE f:`from`->kind->t:`to` SET created_at = created_at OR <t>,      *)
(*       updated_at = <t>, <extra fields>                                   *)
(* It names no edge id, so it always makes a new edge record, whose         *)
(* created_at is NONE before the SET.                                       *)
(***************************************************************************)
(* Mutant: RELATE written with its endpoints swapped.                       *)
NewEdgeReversed(kind, n, from, to, t) ==
    [id |-> EdgeId(kind, n), kind |-> kind, from |-> to, to |-> from,
     created |-> t, updated |-> t]

NewEdge(kind, n, from, to, t) ==
    [id |-> EdgeId(kind, n), kind |-> kind, from |-> from, to |-> to,
     created |-> t, updated |-> t]

(***************************************************************************)
(* A request of a client: the SurrealQL text of one execute_sql call, as    *)
(* what it does to the store.  All requests have the same fields.          *)
(***************************************************************************)
Request(op, ids, kind, from, to, t) ==
    [op |-> op, ids |-> ids, kind |-> kind, from |-> from, to |-> to, t |-> t]

(* INFO FOR DB, SELECT ...: reads.                                         *)
ReadReq == Request("read", {}, "", <<>>, <<>>, 0)

(* upsert_node (one id) and batch_upsert_nodes (BEGIN TRANSACTION; one    *)
(* UPSERT per id; COMMIT TRANSACTION).                                     *)
UpsertReq(ids, t) == Request("upsert", ids, "", <<>>, <<>>, t)

(* upsert_relation, and the RELATE of create_relation_has_metric.          *)
RelateReq(kind, from, to, t) == Request("relate", {}, kind, from, to, t)

(* No request: the client is not waiting on the server.                    *)
NoReq == Request("none", {}, "", <<>>, <<>>, 0)

(* The backend executes request r.                                         *)
Apply(r) ==
    \/ /\ r.op = "read"
       /\ UNCHANGED storeVars
    \/ /\ r.op = "upsert"
       /\ nodes' = Upserted(nodes, r.ids, r.t)
       /\ UNCHANGED <<edges, edgeSeq>>
    \/ /\ r.op = "relate"
       /\ edges' = edges \cup {NewEdge(r.kind, edgeSeq + 1, r.from, r.to, r.t)}
       /\ edgeSeq' = edgeSeq + 1
       /\ UNCHANGED nodes

(* The backend rejects request r with an error status: a failing          *)
(* statement of a transaction rolls the transaction back.                  *)
Reject(r) ==
    /\ nodes' = IF r.op = "upsert" THEN RolledBack(nodes, r.ids, r.t)
                                   ELSE nodes
    /\ UNCHANGED <<edges, edgeSeq>>

(* SELECT id FROM kind                                                     *)
SelectIds(kind) == {e.id : e \in {x \in edges : x.kind = kind}}

=============================================================================

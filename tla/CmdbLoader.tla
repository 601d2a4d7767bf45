----------------------------- MODULE CmdbLoader -----------------------------
(***************************************************************************)
(* src/pkg/transfer/tools/cmdbtest/insert_cmdb.py: the load-test loader    *)
(* that writes businesses, sets, modules and hosts straight into CMDB's    *)
(* MongoDB collections.  Its top level runs                                 *)
(*                                                                          *)
(*   bizs, n = batch_insert_biz(NumBiz, 1, 1, TotalHosts)                   *)
(*   for biz in bizs:                                                       *)
(*       setids, n = batch_insert_set(biz, 1, 1, n)                         *)
(*       for set in setids: batch_insert_module(biz, set, 1, n)             *)
(*                                                                          *)
(* and every batch_insert_module ends with one batch_insert_host.  Each    *)
(* table takes its next inst id from the SequenceID of cc_idgenerator,     *)
(* read once per batch and written back after the inserts.  Every MongoDB  *)
(* call is one step; the process can die between any two of them, and the *)
(* operator runs the script again.  Collections are bags: insert_one adds  *)
(* a document without any uniqueness check.                                 *)
(*                                                                          *)
(* Host IPs come from the module globals aa.bb.cc.dd (20.0.0.0 at import), *)
(* carried from one batch_insert_host to the next; an octet wraps after    *)
(* OctetMax (254 in the code).                                              *)
(***************************************************************************)
EXTENDS Naturals, Sequences, FiniteSets, Bags, BagsExt

CONSTANTS NumBiz,      \* first argument of batch_insert_biz (20)
          TotalHosts,  \* its host_count (600000)
          OctetMax,    \* the octet limit of the IP counter (254)
          MaxRuns,     \* bound: runs of the script
          MaxCrashes   \* bound: runs that die part-way

ASSUME /\ NumBiz \in Nat \ {0} /\ TotalHosts \in Nat
       /\ OctetMax \in Nat /\ MaxRuns \in Nat /\ MaxCrashes \in Nat

(* The cc_idgenerator documents: one SequenceID per table.                 *)
Tables == {"cc_ApplicationBase", "cc_SetBase", "cc_ModuleBase", "cc_HostBase"}

(* aa, bb, cc, dd = 20, 0, 0, 0                                             *)
FirstIp == <<20, 0, 0, 0>>

VARIABLES seqId,       \* table -> SequenceID in cc_idgenerator
          bizDocs,     \* bag of bk_biz_id in cc_ApplicationBase
          setDocs,     \* bag of bk_set_id in cc_SetBase
          moduleDocs,  \* bag of bk_module_id in cc_ModuleBase
          hostDocs,    \* bag of [id, ip, run] in cc_HostBase
          configDocs,  \* bag of [host, module] in cc_ModuleHostConfig
          run, crashes, lastExit,
          pc,          \* the call the process makes next; "idle" if none
          bizs,        \* the list batch_insert_biz returns
          bi,          \* index of the biz the outer loop is at
          base, cur,   \* ll/l, ss/s or mm/m of the batch running
          setId, moduleId,
          hBase, hCur, \* ii and i of batch_insert_host
          ip,          \* a, b, c, d of batch_insert_host
          gip          \* the globals aa, bb, cc, dd

dbVars == <<seqId, bizDocs, setDocs, moduleDocs, hostDocs, configDocs>>
procVars == <<bizs, bi, base, cur, setId, moduleId, hBase, hCur, ip, gip>>
vars == <<dbVars, procVars, run, crashes, lastExit, pc>>

Init ==
    /\ seqId = [t \in Tables |-> 0]
    /\ bizDocs = EmptyBag /\ setDocs = EmptyBag /\ moduleDocs = EmptyBag
    /\ hostDocs = EmptyBag /\ configDocs = EmptyBag
    /\ run = 0 /\ crashes = 0 /\ lastExit = "none"
    /\ pc = "idle"
    /\ bizs = <<>> /\ bi = 1 /\ base = 0 /\ cur = 0
    /\ setId = 0 /\ moduleId = 0 /\ hBase = 0 /\ hCur = 0
    /\ ip = FirstIp /\ gip = FirstIp

(* Mutant: the last octet wraps without carrying into the third.           *)
NextIpNoCarry(v) ==
    <<v[1], v[2], v[3], IF v[4] + 1 > OctetMax THEN 0 ELSE v[4] + 1>>

(* Mutant: octets wrap only past OctetMax + 1 (255 for 254).               *)
NextIpWrapLate(v) ==
    LET d1 == v[4] + 1
        c1 == IF d1 > OctetMax + 1 THEN v[3] + 1 ELSE v[3]
        d2 == IF d1 > OctetMax + 1 THEN 0 ELSE d1
    IN  <<v[1], v[2], c1, d2>>

(* The IP after a.b.c.d: d += 1, then the three carries in the order the   *)
(* code tests them.                                                          *)
NextIp(v) ==
    LET d1 == v[4] + 1
        c1 == IF d1 > OctetMax THEN v[3] + 1 ELSE v[3]
        d2 == IF d1 > OctetMax THEN 0 ELSE d1
        b1 == IF c1 > OctetMax THEN v[2] + 1 ELSE v[2]
        c2 == IF c1 > OctetMax THEN 0 ELSE c1
        a1 == IF b1 > OctetMax THEN v[1] + 1 ELSE v[1]
        b2 == IF b1 > OctetMax THEN 0 ELSE b1
    IN  <<a1, b2, c2, d2>>

(* The host loop "while i < ii + host_count" with host_count the float     *)
(* TotalHosts / NumBiz (divided by one set and one module on the way):    *)
(* n hosts are done and another follows iff n < TotalHosts / NumBiz.       *)
(* Mutant: "<=", one host too many per module.                             *)
MoreHostsOffByOne(n) == n * NumBiz <= TotalHosts

MoreHosts(n) == n * NumBiz < TotalHosts

(* col_query.update_one({"_id": "cc_HostBase"}, {"$set": {"SequenceID": i}}) *)
HostSeqAfter(old, i) == i

Goto(s) == pc' = s

(* A new process: module globals back to their initial values.            *)
StartRun ==
    /\ pc = "idle"
    /\ run < MaxRuns
    /\ run' = run + 1
    /\ pc' = "biz_read"
    /\ bizs' = <<>> /\ bi' = 1
    /\ gip' = FirstIp
    /\ UNCHANGED <<dbVars, crashes, lastExit, base, cur, setId, moduleId,
                   hBase, hCur, ip>>

(* The process dies before its next MongoDB call.                          *)
Crash ==
    /\ pc # "idle"
    /\ crashes < MaxCrashes
    /\ crashes' = crashes + 1
    /\ pc' = "idle"
    /\ lastExit' = "crash"
    /\ UNCHANGED <<dbVars, procVars, run>>

(* ll = col_query.find_one(...)["SequenceID"]; same for ss and mm.          *)
ReadSeq(from, table, to) ==
    /\ pc = from
    /\ base' = seqId[table] /\ cur' = seqId[table]
    /\ Goto(to)
    /\ UNCHANGED <<dbVars, bizs, bi, setId, moduleId, hBase, hCur, ip, gip,
                   run, crashes, lastExit>>

(* The id counter is bumped, then insert_one.                              *)
BizInsert ==
    /\ pc = "biz_loop" /\ cur < base + NumBiz
    /\ cur' = cur + 1
    /\ bizDocs' = BagAdd(bizDocs, cur + 1)
    /\ bizs' = Append(bizs, cur + 1)
    /\ Goto("biz_seq")
    /\ UNCHANGED <<seqId, setDocs, moduleDocs, hostDocs, configDocs, bi,
                   base, setId, moduleId, hBase, hCur, ip, gip, run, crashes,
                   lastExit>>

SetInsert ==
    /\ pc = "set_loop" /\ cur < base + 1
    /\ cur' = cur + 1 /\ setId' = cur + 1
    /\ setDocs' = BagAdd(setDocs, cur + 1)
    /\ Goto("set_seq")
    /\ UNCHANGED <<seqId, bizDocs, moduleDocs, hostDocs, configDocs, bizs,
                   bi, base, moduleId, hBase, hCur, ip, gip, run, crashes,
                   lastExit>>

ModuleInsert ==
    /\ pc = "module_loop" /\ cur < base + 1
    /\ cur' = cur + 1 /\ moduleId' = cur + 1
    /\ moduleDocs' = BagAdd(moduleDocs, cur + 1)
    /\ Goto("module_seq")
    /\ UNCHANGED <<seqId, bizDocs, setDocs, hostDocs, configDocs, bizs, bi,
                   base, setId, hBase, hCur, ip, gip, run, crashes, lastExit>>

(* update_one of the table's SequenceID to the id just inserted.           *)
WriteSeq(from, table, to) ==
    /\ pc = from
    /\ seqId' = [seqId EXCEPT ![table] = cur]
    /\ Goto(to)
    /\ UNCHANGED <<bizDocs, setDocs, moduleDocs, hostDocs, configDocs,
                   procVars, run, crashes, lastExit>>

(* A batch of one set per business, one module per set, is done.           *)
LoopDone(from, bound, to) ==
    /\ pc = from /\ cur >= base + bound
    /\ Goto(to)
    /\ UNCHANGED <<dbVars, procVars, run, crashes, lastExit>>

BizRead     == ReadSeq("biz_read", "cc_ApplicationBase", "biz_loop")
BizSeq      == WriteSeq("biz_seq", "cc_ApplicationBase", "biz_loop")
BizDone     == LoopDone("biz_loop", NumBiz, "set_read")
SetRead     == ReadSeq("set_read", "cc_SetBase", "set_loop")
SetSeq      == WriteSeq("set_seq", "cc_SetBase", "set_loop")
SetDone     == LoopDone("set_loop", 1, "module_read")
ModuleRead  == ReadSeq("module_read", "cc_ModuleBase", "module_loop")
ModuleSeq   == WriteSeq("module_seq", "cc_ModuleBase", "host_read")

(* The only module of the set is done: next business, or the end.          *)
ModuleDone ==
    /\ pc = "module_loop" /\ cur >= base + 1
    /\ IF bi < Len(bizs)
         THEN pc' = "set_read" /\ bi' = bi + 1 /\ UNCHANGED lastExit
         ELSE pc' = "idle" /\ lastExit' = "ok" /\ UNCHANGED bi
    /\ UNCHANGED <<dbVars, bizs, base, cur, setId, moduleId, hBase, hCur, ip,
                   gip, run, crashes>>

(* batch_insert_host: ii = SequenceID + 1, a.b.c.d = the globals.          *)
HostRead ==
    /\ pc = "host_read"
    /\ hBase' = seqId["cc_HostBase"] + 1 /\ hCur' = seqId["cc_HostBase"] + 1
    /\ ip' = gip
    /\ Goto("host_loop")
    /\ UNCHANGED <<dbVars, bizs, bi, base, cur, setId, moduleId, gip, run,
                   crashes, lastExit>>

(* One host: its IP is taken and advanced, then col.insert_one(hj).         *)
HostInsert ==
    /\ pc = "host_loop" /\ MoreHosts(hCur - hBase)
    /\ hostDocs' = BagAdd(hostDocs, [id |-> hCur, ip |-> ip, run |-> run])
    /\ ip' = NextIp(ip)
    /\ Goto("host_config")
    /\ UNCHANGED <<seqId, bizDocs, setDocs, moduleDocs, configDocs, bizs, bi,
                   base, cur, setId, moduleId, hBase, hCur, gip, run, crashes,
                   lastExit>>

(* col2.insert_one(hcj); i += 1                                             *)
HostConfigInsert ==
    /\ pc = "host_config"
    /\ configDocs' = BagAdd(configDocs, [host |-> hCur, module |-> moduleId])
    /\ hCur' = hCur + 1
    /\ Goto("host_loop")
    /\ UNCHANGED <<seqId, bizDocs, setDocs, moduleDocs, hostDocs, bizs, bi,
                   base, cur, setId, moduleId, hBase, ip, gip, run, crashes,
                   lastExit>>

(* The loop is over: SequenceID = i, then aa, bb, cc, dd = a, b, c, d.      *)
HostSeq ==
    /\ pc = "host_loop" /\ ~MoreHosts(hCur - hBase)
    /\ seqId' = [seqId EXCEPT !["cc_HostBase"] = HostSeqAfter(@, hCur)]
    /\ gip' = ip
    /\ Goto("module_loop")
    /\ UNCHANGED <<bizDocs, setDocs, moduleDocs, hostDocs, configDocs, bizs,
                   bi, base, cur, setId, moduleId, hBase, hCur, ip, run,
                   crashes, lastExit>>

Next ==
    \/ StartRun \/ Crash
    \/ BizRead \/ BizInsert \/ BizSeq \/ BizDone
    \/ SetRead \/ SetInsert \/ SetSeq \/ SetDone
    \/ ModuleRead \/ ModuleInsert \/ ModuleSeq \/ ModuleDone
    \/ HostRead \/ HostInsert \/ HostConfigInsert \/ HostSeq

Spec == Init /\ [][Next]_vars

-----------------------------------------------------------------------------
Ip == (Nat \X Nat \X Nat \X Nat)

TypeOK ==
    /\ seqId \in [Tables -> Nat]
    /\ \A h \in BagToSet(hostDocs) :
          h.id \in Nat /\ h.ip \in Ip /\ h.run \in 1..MaxRuns
    /\ run \in 0..MaxRuns /\ crashes \in 0..MaxCrashes
    /\ lastExit \in {"none", "ok", "crash"}
    /\ ip \in Ip /\ gip \in Ip
    /\ \A h \in BagToSet(hostDocs) : \A o \in 2..4 : h.ip[o] <= OctetMax

(* cc_idgenerator's SequenceID exists "to keep inst_id unique" (comment at *)
(* batch_insert_set): whatever runs came before, and wherever one of them  *)
(* died, no business, set or module id is stored twice and no two          *)
(* documents of cc_HostBase carry the same bk_host_id.                      *)
InstIdsUnique ==
    /\ \A b \in {bizDocs, setDocs, moduleDocs} :
          \A id \in BagToSet(b) : CopiesIn(id, b) = 1
    /\ \A h1, h2 \in BagToSet(hostDocs) :
          /\ CopiesIn(h1, hostDocs) = 1
          /\ h1.id = h2.id => h1 = h2

(* "ip starts from a.b.c.d ... must not repeat" (batch_insert_host): the   *)
(* hosts one run inserts, across all its modules and businesses, have      *)
(* pairwise distinct IPs, as the globals carry the counter from one batch  *)
(* to the next and the octets wrap.                                         *)
HostIpsUniqueInRun ==
    \A h1, h2 \in BagToSet(hostDocs) :
        (h1.run = h2.run /\ h1.ip = h2.ip) => h1.id = h2.id

(* "spread the 600000 hosts evenly over the 20 businesses": a run that     *)
(* finished inserted exactly TotalHosts hosts, each with its topology      *)
(* document in cc_ModuleHostConfig.                                         *)
HostTotalExact ==
    (pc = "idle" /\ lastExit = "ok") =>
        LET mine == {h \in BagToSet(hostDocs) : h.run = run}
        IN  /\ Cardinality(mine) = TotalHosts
            /\ \A h \in mine : \E c \in BagToSet(configDocs) : c.host = h.id

=============================================================================

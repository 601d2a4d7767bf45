-------------------------- MODULE IdempotentStore --------------------------
(***************************************************************************)
(* What the storage client promises its callers (spec sections 3, 4.2 and  *)
(* the glossary's "idempotent upsert"), stated without requests, failures   *)
(* or edge records:                                                         *)
(*                                                                          *)
(*   anodes : record id -> [created, updated], or Absent;                   *)
(*   rels   : the relations, as <<kind, from, to>> keys;                     *)
(*   clock  : the current time, as the number of the current run.           *)
(*                                                                          *)
(* A write stamps a set of records with one time: a record that exists     *)
(* keeps its created time, and its updated_at only advances.  Relations     *)
(* are only ever added.  Time advances one run at a time.                   *)
(***************************************************************************)
EXTENDS Naturals, FiniteSets

CONSTANTS NodeIds, Absent

VARIABLES anodes, rels, clock

avars == <<anodes, rels, clock>>

AInit ==
    /\ anodes = [id \in NodeIds |-> Absent]
    /\ rels = {}
    /\ clock = 0

(* The stamp a record gets when it is written at time t.                   *)
Stamped(rec, t) ==
    [created |-> IF rec = Absent THEN t ELSE rec.created, updated |-> t]

(* A new run starts: time moves on.                                         *)
Tick ==
    /\ clock' = clock + 1
    /\ UNCHANGED <<anodes, rels>>

(* Some records are written with a time t up to now that is no earlier    *)
(* than their last update; the others are left alone.                      *)
WriteNodes ==
    /\ anodes' # anodes
    /\ \E t \in 0..clock :
          \A id \in NodeIds :
             \/ anodes'[id] = anodes[id]
             \/ /\ anodes'[id] = Stamped(anodes[id], t)
                /\ anodes[id] # Absent => anodes[id].updated <= t
    /\ UNCHANGED <<rels, clock>>

(* One relation is added.                                                   *)
AddRelation ==
    /\ rels \subseteq rels'
    /\ Cardinality(rels' \ rels) = 1
    /\ UNCHANGED <<anodes, clock>>

ANext == Tick \/ WriteNodes \/ AddRelation

ASpec == AInit /\ [][ANext]_avars

=============================================================================

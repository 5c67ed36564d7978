------------------------ MODULE Configuration_proofs ------------------------
(***************************************************************************)
(* What holds of the configuration: of one id in the two-layer table, for  *)
(* every number of admins, every static entry and every set of bodies      *)
(* (ConfigTable); of memory and state.toml, for every set of ids, keys and *)
(* writers, as long as every writer takes persist_lock, that is without    *)
(* ApiKeyStore::issue (StateFile).                                         *)
(***************************************************************************)
EXTENDS ConfigTable, StateFile, SequenceTheorems, TLAPS

-----------------------------------------------------------------------------
(* ConfigTable *)

(* A request carries a body from its first step to its upsert, and an      *)
(* entry where it writes.                                                  *)
Carried ==
    \A a \in Admins :
        /\ task[a].at \in {"backfill_dynamic", "backfill_effective", "build"} =>
              task[a].payload # None
        /\ task[a].at \in {"insert", "upsert"} => task[a].entry # None

(* While a reset is between its publications the override is gone, and a   *)
(* decision that hides the id was there before.                            *)
ResetInv ==
    \A a \in Admins : At(a, "reset") =>
        /\ static_entry # None
        /\ dyn = None
        /\ decision = "disabled" => task[a].was = None

TableInv == TableTypeOK /\ Carried /\ StaticKeyStaysOut /\ ResetInv

-------------------------------------------------------------------------------
(* Merging.                                                                *)

LEMMA InheritTyped ==
    ASSUME NEW p \in Entry, NEW s \in Entry
    PROVE  inherit_from_static(p, s) \in Entry
<1>1. CASE p.kind = "direct" /\ s.kind = "direct" /\ p.key = NoKey
  <2>1. p \in [kind : {"direct"}, key : ApiKeys \cup {NoKey}, list : {None}, cooldown : {None}]
    BY <1>1 DEF Entry
  <2>2. s.key \in ApiKeys \cup {NoKey}
    BY <1>1 DEF Entry
  <2> QED  BY <1>1, <2>1, <2>2 DEF inherit_from_static, Entry
<1>2. CASE ~(p.kind = "direct" /\ s.kind = "direct" /\ p.key = NoKey)
  BY <1>2 DEF inherit_from_static
<1> QED  BY <1>1, <1>2

LEMMA EffectiveTyped ==
    ASSUME NEW s \in Entry \cup {None}, NEW d \in Entry \cup {None}, NEW mode \in DecisionModes
    PROVE  pick_with_inherit(s, d, mode) \in Entry \cup {None}
<1> DEFINE p == pick_effective(s, d, mode)
<1>1. p \in Entry \cup {None}
  BY DEF pick_effective, DecisionModes
<1> QED  BY <1>1, InheritTyped DEF pick_with_inherit

(* A static entry inherits nothing from itself.                            *)
LEMMA SelfInherit ==
    ASSUME NEW s \in Entry
    PROVE  inherit_from_static(s, s) = s
<1>1. CASE s.kind = "direct"
  <2>1. s \in [kind : {"direct"}, key : ApiKeys \cup {NoKey}, list : {None}, cooldown : {None}]
    BY <1>1 DEF Entry
  <2> QED  BY <2>1 DEF inherit_from_static
<1>2. CASE s.kind # "direct"
  BY <1>2 DEF inherit_from_static
<1> QED  BY <1>1, <1>2

(* Inheritance touches the key alone.                                      *)
LEMMA InheritKeepsRest ==
    ASSUME NEW p \in Entry, NEW s \in Entry
    PROVE  [inherit_from_static(p, s) EXCEPT !.key = p.key] = p
<1>1. p = [kind |-> p.kind, key |-> p.key, list |-> p.list, cooldown |-> p.cooldown]
  BY DEF Entry
<1>2. CASE p.kind = "direct" /\ s.kind = "direct" /\ p.key = NoKey
  BY <1>1, <1>2 DEF inherit_from_static
<1>3. CASE ~(p.kind = "direct" /\ s.kind = "direct" /\ p.key = NoKey)
  BY <1>1, <1>3 DEF inherit_from_static
<1> QED  BY <1>2, <1>3

LEMMA SourceTyped ==
    ASSUME NEW s \in BOOLEAN, NEW d \in BOOLEAN, NEW mode \in DecisionModes
    PROVE  classify_source(s, d, mode) \in Sources \cup {None}
BY DEF classify_source, Sources, DecisionModes

(* The two views of the table, from the types alone.                       *)
LEMMA SnapshotTyped ==
    ASSUME static_entry \in Entry \cup {None}, dyn \in Entry \cup {None}, decision \in DecisionModes
    PROVE  /\ get_effective \in Entry \cup {None}
           /\ effective_snapshot \in Shown \cup {None}
           /\ ViewsAgree
<1> DEFINE source == classify_source(static_entry # None, dyn # None, Mode)
<1>1. Mode \in DecisionModes
  BY DEF Mode, DecisionModes
<1>2. get_effective \in Entry \cup {None}
  BY <1>1, EffectiveTyped DEF get_effective
<1>3. None \notin Entry /\ None \notin Sources /\ None \notin Shown
  BY TableAssumption
<1>4. source \in Sources \cup {None}
  BY <1>1, SourceTyped
<1>5. effective_snapshot = IF source = None THEN None
                           ELSE [entry |-> get_effective, source |-> source]
  BY DEF effective_snapshot, get_effective
<1>6. source = None <=> get_effective = None
  <2>1. CASE static_entry = None
    BY <2>1, <1>3 DEF Mode, classify_source, get_effective, pick_with_inherit,
                      pick_effective, Sources
  <2>2. CASE static_entry # None
    <3>1. CASE Mode = "disabled"
      BY <3>1 DEF classify_source, get_effective, pick_with_inherit, pick_effective
    <3>2. CASE Mode = "prefer_static"
      BY <3>2, <2>2, <1>3 DEF classify_source, get_effective, pick_with_inherit,
                              pick_effective, Sources
    <3>3. CASE Mode = "default"
      <4>1. source # None
        BY <3>3, <2>2, <1>3 DEF classify_source, Sources
      <4>2. pick_effective(static_entry, dyn, Mode) \in Entry
        BY <3>3, <2>2 DEF pick_effective
      <4>3. get_effective = inherit_from_static(pick_effective(static_entry, dyn, Mode), static_entry)
        BY <4>2, <3>3, <2>2, <1>3 DEF get_effective, pick_with_inherit
      <4>4. [get_effective EXCEPT !.key = pick_effective(static_entry, dyn, Mode).key]
               = pick_effective(static_entry, dyn, Mode)
        BY <4>2, <4>3, <2>2, InheritKeepsRest
      <4>5. get_effective # None
        BY <4>2, <4>3, <2>2, <1>2, <1>3, InheritTyped
      <4> QED  BY <4>1, <4>5
    <3> QED  BY <3>1, <3>2, <3>3, <1>1 DEF DecisionModes
  <2> QED  BY <2>1, <2>2
<1>7. ASSUME source # None
      PROVE  LET shown == effective_snapshot
             IN  /\ shown.entry = get_effective
                 /\ shown.source = source
  BY <1>5, <1>7
<1>8. ASSUME source \in {"static", "static_preferred"}
      PROVE  get_effective = static_entry
  <2>1. static_entry # None /\ Mode \in {"default", "prefer_static"}
    BY <1>8, <1>3, <1>1 DEF classify_source, Sources, DecisionModes
  <2>2. CASE Mode = "prefer_static"
    BY <2>1, <2>2 DEF get_effective, pick_with_inherit, pick_effective
  <2>3. CASE Mode = "default"
    <3>1. dyn = None
      BY <1>8, <1>3, <2>1, <2>3 DEF classify_source, Sources
    <3> QED
      BY <2>1, <2>3, <3>1, SelfInherit DEF get_effective, pick_with_inherit, pick_effective
  <2> QED  BY <2>1, <2>2, <2>3
<1>9. source = "static_preferred" => dyn # None
  BY <1>3, <1>1 DEF classify_source, Sources, DecisionModes
<1>10. source = "dynamic" => static_entry = None /\ get_effective = dyn
  BY <1>3, <1>1 DEF classify_source, Sources, DecisionModes, get_effective, pick_with_inherit,
                    pick_effective
<1>11. ASSUME source = "dynamic_override"
       PROVE  static_entry # None /\ [get_effective EXCEPT !.key = dyn.key] = dyn
  <2>1. static_entry # None /\ dyn # None /\ Mode = "default"
    BY <1>11, <1>3, <1>1 DEF classify_source, Sources, DecisionModes
  <2>2. get_effective = inherit_from_static(dyn, static_entry)
    BY <2>1 DEF get_effective, pick_with_inherit, pick_effective
  <2> QED  BY <2>1, <2>2, InheritKeepsRest
<1>12. effective_snapshot = None <=> source = None
  <2>1. ASSUME source # None
        PROVE  effective_snapshot \in Shown
    BY <2>1, <1>2, <1>4, <1>5, <1>6 DEF Shown
  <2> QED  BY <2>1, <1>3, <1>5
<1> QED
  <2>1. effective_snapshot \in Shown \cup {None}
    BY <1>2, <1>4, <1>5, <1>6 DEF Shown
  <2>2. ViewsAgree
    BY <1>6, <1>7, <1>8, <1>9, <1>10, <1>11, <1>12 DEF ViewsAgree
  <2> QED  BY <1>2, <2>1, <2>2
-------------------------------------------------------------------------------
(* Bodies and entries.                                                     *)

LEMMA IntoTyped ==
    ASSUME NEW p \in Payload
    PROVE  into_provider(p) \in Entry
<1>1. CASE Explicit(p.members)
  <2>1. p.members \in Lists
    BY <1>1 DEF Explicit, Payload
  <2>2. default_pool_cooldown_secs \in Cooldowns
    BY TableAssumption DEF default_pool_cooldown_secs
  <2> QED  BY <1>1, <2>1, <2>2 DEF into_provider, Entry, Payload
<1>2. CASE ~Explicit(p.members) /\ Explicit(p.routes)
  <2>1. p.routes \in Lists
    BY <1>2 DEF Explicit, Payload
  <2> QED  BY <1>2, <2>1 DEF into_provider, Entry
<1>3. CASE ~Explicit(p.members) /\ ~Explicit(p.routes)
  BY <1>3 DEF into_provider, Entry, Payload
<1> QED  BY <1>1, <1>2, <1>3

(* The key of what is built: the body's, the empty one, or none.           *)
LEMMA IntoKey ==
    ASSUME NEW p \in Payload
    PROVE  into_provider(p).key \in {p.key, NoKey, None}
BY DEF into_provider

LEMMA FillTyped ==
    ASSUME NEW p \in Payload, NEW old \in Entry \cup {None}, NEW asked, NEW k \in BOOLEAN
    PROVE  /\ FilledFrom(p, asked, old, k) \in Payload
           /\ FilledFrom(p, asked, old, k).key # p.key =>
                 k /\ old # None /\ FilledFrom(p, asked, old, k).key = old.key
<1>0. None \notin Entry
  BY TableAssumption
<1>1. CASE old = None
  BY <1>1 DEF FilledFrom
<1>2. CASE old # None /\ old.kind = "direct"
  <2>1. old.key \in ApiKeys \cup {NoKey}
    BY <1>2 DEF Entry
  <2> QED  BY <1>2, <2>1 DEF FilledFrom, backfill_key, Payload
<1>3. CASE old # None /\ old.kind = "router"
  <2>1. old.list \in Lists
    BY <1>3 DEF Entry
  <2> QED  BY <1>3, <2>1 DEF FilledFrom, backfill_routes, Payload
<1>4. CASE old # None /\ old.kind = "pool"
  <2>1. old.list \in Lists /\ old.cooldown \in Cooldowns
    BY <1>4 DEF Entry
  <2> QED  BY <1>4, <2>1 DEF FilledFrom, backfill_pool, Payload
<1> QED  BY <1>0, <1>1, <1>2, <1>3, <1>4 DEF Entry

-------------------------------------------------------------------------------
(* The invariant.                                                          *)

LEMMA TableInitHolds == TableInit => TableInv
<1> SUFFICES ASSUME TableInit PROVE TableInv
  OBVIOUS
<1>1. TableTypeOK
  <2>1. IdleTask \in Task  BY DEF IdleTask, Task
  <2> QED  BY <2>1, TableAssumption DEF TableInit, TableTypeOK, At, IdleTask, DecisionModes
<1>2. Carried /\ ResetInv
  BY DEF TableInit, Carried, ResetInv, IdleTask, At
<1>3. StaticKeyStaysOut
  BY DEF TableInit, StaticKeyStaysOut, IdleTask
<1> QED  BY <1>1, <1>2, <1>3 DEF TableInv

(* What a step of one admin may do to its task without touching the table. *)
LEMMA TaskStep ==
    ASSUME TableInv, NEW a \in Admins, NEW t \in Task,
           task' = [task EXCEPT ![a] = t],
           UNCHANGED <<static_entry, dyn, decision, persist_lock>>,
           t.at # "reset", task[a].at # "reset",
           t.at \in {"backfill_dynamic", "backfill_effective", "build"} => t.payload # None,
           t.at \in {"insert", "upsert"} => t.entry # None,
           static_entry # None /\ static_entry.key \in ApiKeys =>
               /\ t.payload # None => t.payload.key # static_entry.key
               /\ t.at \in {"insert", "upsert"} => t.entry.key # static_entry.key
    PROVE  TableInv'
<1> USE DEF TableInv
<1>1. \A b \in Admins : task'[b] = IF b = a THEN t ELSE task[b]
  BY DEF TableTypeOK
<1>2. TableTypeOK'
  BY <1>1 DEF TableTypeOK, At
<1>3. Carried'
  BY <1>1 DEF Carried
<1>4. StaticKeyStaysOut'
  BY <1>1 DEF StaticKeyStaysOut
<1>5. ResetInv'
  BY <1>1 DEF ResetInv, At
<1> QED  BY <1>2, <1>3, <1>4, <1>5

LEMMA IdleTaskIs ==
    /\ IdleTask \in Task
    /\ IdleTask.at = "idle" /\ IdleTask.payload = None /\ IdleTask.entry = None
BY DEF IdleTask, Task

(* The handlers that end without a write, and the reads of a listing.      *)
LEMMA FinishStep ==
    ASSUME TableInv, NEW a \in Admins, Finish(a), task[a].at # "reset",
           UNCHANGED <<static_entry, dyn, decision, persist_lock>>
    PROVE  TableInv'
BY IdleTaskIs, TaskStep DEF Finish

(* What any step knows of the task it moves and of the table.              *)
LEMMA TaskKnown ==
    ASSUME TableInv, NEW a \in Admins
    PROVE  /\ task[a] \in Task
           /\ static_entry \in Entry \cup {None} /\ dyn \in Entry \cup {None} /\ decision \in DecisionModes
           /\ static_entry # None => static_entry \in Entry
           /\ None \notin ApiKeys /\ NoKey \notin ApiKeys
           /\ get_effective \in Entry \cup {None}
           /\ effective_snapshot \in Shown \cup {None}
           /\ \A p \in Payloads : p \in Payload /\ p # None /\
                 (static_entry # None /\ static_entry.key \in ApiKeys => p.key # static_entry.key)
<1>1. task[a] \in Task /\ static_entry \in Statics
  BY DEF TableInv, TableTypeOK
<1>2. static_entry \in Entry \cup {None} /\ dyn \in Entry \cup {None} /\ decision \in DecisionModes
  BY <1>1, TableAssumption DEF TableInv, TableTypeOK
<1>3. \A p \in Payloads : p \in Payload /\ p # None /\
                 (static_entry # None /\ static_entry.key \in ApiKeys => p.key # static_entry.key)
  BY <1>1, TableAssumption, StaticKeyAssumption
<1> QED  BY <1>1, <1>2, <1>3, SnapshotTyped, TableAssumption

LEMMA PostStep ==
    ASSUME TableInv, NEW a \in Admins, NEW p \in Payloads, Post(a, p)
    PROVE  TableInv'
<1> DEFINE t == [IdleTask EXCEPT !.at = "insert", !.asked = p, !.entry = into_provider(p)]
<1>1. into_provider(p) \in Entry /\ into_provider(p).key \in {p.key, NoKey, None}
  BY TaskKnown, IntoTyped, IntoKey
<1>2. t \in Task /\ t.at = "insert" /\ t.payload = None /\ t.entry = into_provider(p)
  BY <1>1, TaskKnown DEF IdleTask, Task
<1>3. t.entry # None
  BY <1>1, <1>2, TableAssumption
<1>4. static_entry # None /\ static_entry.key \in ApiKeys => t.entry.key # static_entry.key
  BY <1>1, <1>2, TaskKnown
<1> HIDE DEF t
<1> QED  BY <1>2, <1>3, <1>4, TaskStep DEF Post, IsIdle, t

LEMMA PutStep ==
    ASSUME TableInv, NEW a \in Admins, NEW p \in Payloads, Put(a, p)
    PROVE  TableInv'
<1> DEFINE t == [IdleTask EXCEPT !.at = "backfill_dynamic", !.asked = p, !.payload = p,
                             !.was = get_effective]
<1>1. t \in Task /\ t.at = "backfill_dynamic" /\ t.payload = p
  BY TaskKnown DEF IdleTask, Task
<1>2. t.payload # None /\ (static_entry # None /\ static_entry.key \in ApiKeys => t.payload.key # static_entry.key)
  BY <1>1, TaskKnown
<1> HIDE DEF t
<1> QED  BY <1>1, <1>2, TaskStep DEF Put, IsIdle, t

(* Filling from an entry with its key asks that the key be not the static  *)
(* one.                                                                    *)
LEMMA FillStep ==
    ASSUME TableInv, NEW a \in Admins, NEW from, NEW to \in {"backfill_effective", "build"},
           NEW old \in Entry \cup {None}, NEW k \in BOOLEAN,
           from \in {"backfill_dynamic", "backfill_effective"},
           k /\ old # None /\ static_entry # None /\ static_entry.key \in ApiKeys => old.key # static_entry.key,
           Fill(a, from, to, old, k)
    PROVE  TableInv'
<1> DEFINE filled == FilledFrom(task[a].payload, task[a].asked, old, k)
           t == [task[a] EXCEPT !.at = to, !.payload = filled]
<1>1. task[a] \in Task /\ task[a].at = from /\ task[a].payload \in Payload
  <2>1. task[a].payload # None
    BY DEF TableInv, Carried, Fill, At
  <2> QED  BY <2>1, TaskKnown DEF Fill, At, Task
<1>2. /\ filled \in Payload
      /\ filled.key # task[a].payload.key => k /\ old # None /\ filled.key = old.key
  BY <1>1, FillTyped
<1>3. filled # None
  BY <1>2, TableAssumption
<1>4. static_entry # None /\ static_entry.key \in ApiKeys => filled.key # static_entry.key
  <2>1. static_entry # None /\ static_entry.key \in ApiKeys => task[a].payload.key # static_entry.key
    BY <1>1, TableAssumption DEF TableInv, StaticKeyStaysOut
  <2> QED  BY <1>2, <2>1
<1> HIDE DEF filled
<1>5. t \in Task /\ t.at = to /\ t.payload = filled /\ t.entry = task[a].entry
  BY <1>1, <1>2 DEF Task
<1>6. task' = [task EXCEPT ![a] = t]
  BY DEF Fill, filled, TableInv, TableTypeOK
<1> HIDE DEF t
<1> QED  BY <1>1, <1>3, <1>4, <1>5, <1>6, TaskStep DEF Fill

LEMMA BackfillSteps ==
    ASSUME TableInv, NEW a \in Admins, BackfillDynamic(a) \/ BackfillEffective(a)
    PROVE  TableInv'
<1>1. CASE BackfillDynamic(a)
  <2>1. static_entry # None /\ static_entry.key \in ApiKeys /\ dyn # None => dyn.key # static_entry.key
    BY DEF TableInv, StaticKeyStaysOut
  <2> QED  BY <1>1, <2>1, TaskKnown, FillStep DEF BackfillDynamic
<1>2. CASE BackfillEffective(a)
  BY <1>2, TaskKnown, FillStep DEF BackfillEffective
<1> QED  BY <1>1, <1>2

LEMMA BuildStep ==
    ASSUME TableInv, NEW a \in Admins, Build(a)
    PROVE  TableInv'
<1>1. task[a] \in Task /\ task[a].at = "build" /\ task[a].payload \in Payload
  <2>1. task[a].payload # None
    BY DEF TableInv, Carried, Build, At
  <2> QED  BY <2>1, TaskKnown DEF Build, At, Task
<1>2. CASE Accepted(task[a].payload)
  <2> DEFINE e == into_provider(task[a].payload)
             t == [task[a] EXCEPT !.at = "upsert", !.entry = e]
  <2>1. e \in Entry /\ e.key \in {task[a].payload.key, NoKey, None}
    BY <1>1, IntoTyped, IntoKey
  <2>2. e # None
    BY <2>1, TableAssumption
  <2>3. static_entry # None /\ static_entry.key \in ApiKeys =>
            task[a].payload.key # static_entry.key /\ e.key # static_entry.key
    BY <1>1, <2>1, TaskKnown, TableAssumption DEF TableInv, StaticKeyStaysOut
  <2> HIDE DEF e
  <2>4. t \in Task /\ t.at = "upsert" /\ t.entry = e /\ t.payload = task[a].payload
    BY <1>1, <2>1 DEF Task
  <2>5. task' = [task EXCEPT ![a] = t]
    BY <1>2 DEF Build, e, TableInv, TableTypeOK
  <2> HIDE DEF t
  <2> QED  BY <1>1, <2>2, <2>3, <2>4, <2>5, TaskStep DEF Build
<1>3. CASE ~Accepted(task[a].payload)
  BY <1>1, <1>3, FinishStep DEF Build
<1> QED  BY <1>2, <1>3

LEMMA LookStep ==
    ASSUME TableInv, NEW a \in Admins, Look(a)
    PROVE  TableInv'
<1>1. CASE List(a)
  <2> DEFINE t == [IdleTask EXCEPT !.at = "list", !.seen = effective_snapshot]
  <2>1. t \in Task /\ t.at = "list" /\ t.payload = None
    BY TaskKnown DEF IdleTask, Task
  <2> HIDE DEF t
  <2> QED  BY <1>1, <2>1, TaskStep DEF List, IsIdle, t
<1>2. CASE ListDisabled(a)
  <2> DEFINE e == IF disabled_statics THEN static_entry ELSE None
             t == [task[a] EXCEPT !.at = "listed", !.entry = e]
  <2>1. e \in Entry \cup {None} /\ task[a] \in Task
    BY TaskKnown
  <2> HIDE DEF e
  <2>2. t \in Task /\ t.at = "listed" /\ t.payload = task[a].payload
    BY <2>1 DEF Task
  <2>3. task' = [task EXCEPT ![a] = t]
    BY <1>2 DEF ListDisabled, e, TableInv, TableTypeOK
  <2>4. static_entry # None /\ static_entry.key \in ApiKeys =>
            (task[a].payload # None => task[a].payload.key # static_entry.key)
    BY DEF TableInv, StaticKeyStaysOut
  <2> HIDE DEF t
  <2> QED  BY <1>2, <2>2, <2>3, <2>4, TaskStep DEF ListDisabled, At
<1>3. CASE Listed(a)
  BY <1>3, FinishStep DEF Listed, At
<1> QED  BY <1>1, <1>2, <1>3 DEF Look

(* The steps that write wait for the lock, so no reset is under way.       *)
LEMMA NoReset ==
    ASSUME TableInv, persist_lock = None
    PROVE  \A b \in Admins : task[b].at # "reset"
BY TableAssumption DEF TableInv, TableTypeOK, At

LEMMA StoreStep ==
    ASSUME TableInv, NEW a \in Admins, Store(a)
    PROVE  TableInv'
<1>1. \A b \in Admins : task[b].at # "reset"
  BY NoReset DEF Store
<1>2. /\ task[a] \in Task /\ task[a].at \in {"insert", "upsert"}
      /\ task[a].entry \in Entry /\ dyn' = task[a].entry
  <2>1. task[a].entry # None
    BY DEF TableInv, Carried, Store, At
  <2> QED  BY <2>1, TaskKnown DEF Store, At, Task
<1>3. PICK t \in {IdleTask, [task[a] EXCEPT !.at = "refetch"]} : task' = [task EXCEPT ![a] = t]
  BY DEF Store, Finish, TableInv, TableTypeOK
<1>4. t \in Task /\ t.at \in {"idle", "refetch"} /\ t.payload \in {None, task[a].payload}
  BY <1>2, <1>3, IdleTaskIs DEF Task
<1>5. \A b \in Admins : task'[b] = IF b = a THEN t ELSE task[b]
  BY <1>3 DEF TableInv, TableTypeOK
<1>6. TableTypeOK'
  BY <1>1, <1>2, <1>3, <1>4, <1>5, TableAssumption DEF Store, TableInv, TableTypeOK, At
<1>7. Carried'
  BY <1>4, <1>5 DEF TableInv, Carried
<1>8. StaticKeyStaysOut'
  <2>1. static_entry' = static_entry
    BY DEF Store
  <2>2. static_entry # None /\ static_entry.key \in ApiKeys => dyn'.key # static_entry.key
    BY <1>2 DEF TableInv, StaticKeyStaysOut
  <2>3. static_entry # None /\ static_entry.key \in ApiKeys =>
            \A b \in Admins :
               /\ task'[b].payload # None => task'[b].payload.key # static_entry.key
               /\ task'[b].at \in {"insert", "upsert"} => task'[b].entry.key # static_entry.key
    BY <1>4, <1>5 DEF TableInv, StaticKeyStaysOut
  <2> QED  BY <2>1, <2>2, <2>3 DEF StaticKeyStaysOut
<1>9. ResetInv'
  BY <1>1, <1>4, <1>5 DEF ResetInv, At
<1> QED  BY <1>6, <1>7, <1>8, <1>9 DEF TableInv

LEMMA ResetStep ==
    ASSUME TableInv, NEW a \in Admins, ResetDynamic(a) \/ ResetDecision(a)
    PROVE  TableInv'
<1>1. CASE ResetDynamic(a)
  <2>1. \A b \in Admins : task[b].at # "reset"
    BY <1>1, NoReset DEF ResetDynamic
  <2> DEFINE t == [IdleTask EXCEPT !.at = "reset", !.was = get_effective]
  <2>2. t \in Task /\ t.at = "reset" /\ t.payload = None /\ t.was = get_effective
    BY TaskKnown DEF IdleTask, Task
  <2>3. decision = "disabled" => get_effective = None
    BY <1>1 DEF ResetDynamic, get_effective, Mode, pick_with_inherit, pick_effective
  <2> HIDE DEF t
  <2>4. \A b \in Admins : task'[b] = IF b = a THEN t ELSE task[b]
    BY <1>1 DEF ResetDynamic, t, TableInv, TableTypeOK
  <2>5. TableTypeOK'
    BY <1>1, <2>1, <2>2, <2>4 DEF ResetDynamic, t, TableInv, TableTypeOK, At
  <2>6. Carried' /\ StaticKeyStaysOut'
    BY <1>1, <2>2, <2>4 DEF ResetDynamic, TableInv, Carried, StaticKeyStaysOut
  <2>7. ResetInv'
    BY <1>1, <2>1, <2>2, <2>3, <2>4 DEF ResetDynamic, ResetInv, At
  <2> QED  BY <2>5, <2>6, <2>7 DEF TableInv
<1>2. CASE ResetDecision(a)
  <2>1. \A b \in Admins : b # a => task[b].at # "reset"
    BY <1>2 DEF ResetDecision, TableInv, TableTypeOK, At
  <2>2. \A b \in Admins : task'[b] = IF b = a THEN IdleTask ELSE task[b]
    BY <1>2 DEF ResetDecision, Finish, TableInv, TableTypeOK
  <2>3. TableTypeOK'
    BY <1>2, <2>1, <2>2, IdleTaskIs, TableAssumption
       DEF ResetDecision, Finish, TableInv, TableTypeOK, At, DecisionModes
  <2>4. Carried' /\ StaticKeyStaysOut'
    BY <1>2, <2>2, IdleTaskIs DEF ResetDecision, TableInv, Carried, StaticKeyStaysOut
  <2>5. ResetInv'
    BY <2>1, <2>2, IdleTaskIs DEF ResetInv, At
  <2> QED  BY <2>3, <2>4, <2>5 DEF TableInv
<1> QED  BY <1>1, <1>2

LEMMA OtherWrites ==
    ASSUME TableInv, NEW a \in Admins, DeleteFlow(a) \/ \E mode \in AskedModes : Decide(a, mode)
    PROVE  TableInv'
<1>1. \A b \in Admins : task[b].at # "reset"
  BY NoReset DEF DeleteFlow, Decide
<1>2. /\ UNCHANGED <<static_entry, persist_lock, task>>
      /\ dyn' \in {dyn, None} /\ decision' \in DecisionModes
  BY TableAssumption DEF DeleteFlow, Decide, TableInv, TableTypeOK
<1>3. TableTypeOK'
  BY <1>2 DEF TableInv, TableTypeOK, At
<1>4. Carried' /\ StaticKeyStaysOut'
  BY <1>2 DEF TableInv, Carried, StaticKeyStaysOut
<1>5. ResetInv'
  BY <1>1, <1>2 DEF ResetInv, At
<1> QED  BY <1>3, <1>4, <1>5 DEF TableInv

LEMMA TableNextKeeps == TableInv /\ [TableNext]_table_vars => TableInv'
<1> SUFFICES ASSUME TableInv, [TableNext]_table_vars PROVE TableInv'
  OBVIOUS
<1>1. ASSUME NEW a \in Admins, Edit(a) PROVE TableInv'
  <2>1. ASSUME NEW p \in Payloads, Post(a, p) \/ Put(a, p) PROVE TableInv'
    BY <2>1, PostStep, PutStep
  <2>2. CASE BackfillDynamic(a) \/ BackfillEffective(a)
    BY <2>2, BackfillSteps
  <2>3. CASE Build(a)
    BY <2>3, BuildStep
  <2>4. CASE Store(a)
    BY <2>4, StoreStep
  <2>5. CASE StoreFails(a) \/ Refetch(a)
    BY <2>5, FinishStep DEF StoreFails, Refetch, At
  <2>6. CASE DeleteFlow(a) \/ \E mode \in AskedModes : Decide(a, mode)
    BY <2>6, OtherWrites
  <2>7. CASE ResetDynamic(a) \/ ResetDecision(a)
    BY <2>7, ResetStep
  <2> QED  BY <1>1, <2>1, <2>2, <2>3, <2>4, <2>5, <2>6, <2>7 DEF Edit
<1>2. ASSUME NEW a \in Admins, Look(a) PROVE TableInv'
  BY <1>2, LookStep
<1>3. CASE UNCHANGED table_vars
  BY <1>3 DEF table_vars, TableInv, TableTypeOK, Carried, StaticKeyStaysOut, ResetInv, At
<1> QED  BY <1>1, <1>2, <1>3 DEF TableNext

LEMMA TableInvariant == TableSpec => []TableInv
BY TableInitHolds, TableNextKeeps, PTL DEF TableSpec

-------------------------------------------------------------------------------
(* The variables keep their types and the lock marks the resets under way. *)
THEOREM TableTypeCorrect == TableSpec => []TableTypeOK
BY TableInvariant, PTL DEF TableInv

(* CFG-1, CFG-2: the listing and forwarding agree on every id, and the     *)
(* source the listing names is the layer the entry comes from.             *)
THEOREM TableViewsAgree == TableSpec => []ViewsAgree
<1>1. TableInv => ViewsAgree
  BY SnapshotTyped, TableAssumption DEF TableInv, TableTypeOK
<1> QED  BY <1>1, TableInvariant, PTL

(* #157: no sequence of edits, of any number of admins, moves the key of   *)
(* the static configuration into the layer that is written to disk.        *)
THEOREM TableStaticKeyStaysOut == TableSpec => []StaticKeyStaysOut
BY TableInvariant, PTL DEF TableInv

(* #348: a forward between the two publications of a reset finds the       *)
(* provider of before or the static one.                                   *)
THEOREM TableResetShowsOldOrStatic == TableSpec => []ResetShowsOldOrStatic
<1>1. TableInv => ResetShowsOldOrStatic
  <2> SUFFICES ASSUME TableInv, NEW a \in Admins, At(a, "reset")
               PROVE  get_effective \in {task[a].was, static_entry}
    BY DEF ResetShowsOldOrStatic
  <2>1. /\ static_entry \in Entry /\ dyn = None
        /\ decision \in DecisionModes
        /\ decision = "disabled" => task[a].was = None
    BY TaskKnown DEF TableInv, ResetInv
  <2>2. get_effective \in {None, static_entry} /\ (get_effective = None => decision = "disabled")
    BY <2>1, SelfInherit, TableAssumption
       DEF get_effective, Mode, pick_with_inherit, pick_effective, DecisionModes
  <2> QED  BY <2>1, <2>2
<1> QED  BY <1>1, TableInvariant, PTL
-------------------------------------------------------------------------------
(* A PUT without another admin between its steps.                          *)

(* The body with what each of the two reads has put into it.               *)
FilledOnce(asked, d) == FilledFrom(asked, asked, d, TRUE)
FilledTwice(asked, d, was) == FilledFrom(FilledOnce(asked, d), asked, was, FALSE)

(* backfill_key: a Direct provider fills the key, once it may.             *)
LEMMA FilledByDirect ==
    ASSUME NEW p \in Payload, NEW asked, NEW old \in Entry, old.kind = "direct"
    PROVE  /\ FilledFrom(p, asked, old, FALSE) = p
           /\ LET q == FilledFrom(p, asked, old, TRUE)
              IN  /\ q.members = p.members /\ q.routes = p.routes
                  /\ q.key = IF p.key = None THEN old.key ELSE p.key
<1>1. old # None
  BY TableAssumption
<1> QED  BY <1>1 DEF FilledFrom, backfill_key, Payload

(* A router fills its list, unless the body says that it is a pool.        *)
ByRouter(q, p, asked, old) ==
    /\ q.members = p.members /\ q.key = p.key /\ q.cooldown = p.cooldown
    /\ q.routes = IF p.routes = None /\ ~Explicit(asked.members) THEN old.list ELSE p.routes

(* backfill_routes is what ByRouter says, by either read.                  *)
LEMMA FilledByRouter ==
    ASSUME NEW p \in Payload, NEW asked, NEW old \in Entry, old.kind = "router"
    PROVE  /\ ByRouter(FilledFrom(p, asked, old, TRUE), p, asked, old)
           /\ ByRouter(FilledFrom(p, asked, old, FALSE), p, asked, old)
<1>1. old # None
  BY TableAssumption
<1> QED  BY <1>1 DEF FilledFrom, backfill_routes, Payload, ByRouter

(* A pool fills its members, unless the body says that it is a router, and *)
(* its cooldown.                                                           *)
ByPool(q, p, asked, old) ==
    /\ q.routes = p.routes /\ q.key = p.key
    /\ q.members = IF p.members = None /\ ~Explicit(asked.routes) THEN old.list ELSE p.members
    /\ q.cooldown = IF p.cooldown = None THEN old.cooldown ELSE p.cooldown

(* backfill_pool is what ByPool says, by either read.                      *)
LEMMA FilledByPool ==
    ASSUME NEW p \in Payload, NEW asked, NEW old \in Entry, old.kind = "pool"
    PROVE  /\ ByPool(FilledFrom(p, asked, old, TRUE), p, asked, old)
           /\ ByPool(FilledFrom(p, asked, old, FALSE), p, asked, old)
<1>1. old # None
  BY TableAssumption
<1> QED  BY <1>1 DEF FilledFrom, backfill_pool, Payload, ByPool

(* What an entry is, by its construct.                                     *)
LEMMA EntryIs ==
    ASSUME NEW e \in Entry
    PROVE  /\ e.kind \in {"direct", "router", "pool"}
           /\ e.kind = "direct" => e.key \in ApiKeys \cup {NoKey} /\ e.list = None
           /\ e.kind = "router" => e.list \in Lists
           /\ e.kind = "pool" => e.list \in Lists /\ e.cooldown \in Cooldowns
BY DEF Entry

(* A body that omits the construct, the key, the cooldown.                 *)
Kept(p, was, now) ==
    /\ p.members = None /\ p.routes = None => now.kind = was.kind /\ now.list = was.list
    /\ p.key = None /\ was.kind = "direct" /\ now.kind = "direct" => now.key = was.key
    /\ p.cooldown = None /\ was.kind = "pool" /\ now.kind = "pool" => now.cooldown = was.cooldown

(* An override over a static entry, if there is one.                       *)
Inherits(e, s) == IF s = None THEN e ELSE inherit_from_static(e, s)

(* With the override, as it is merged, filling the body.                   *)
LEMMA OverrideKept ==
    ASSUME NEW d \in Entry, NEW s \in Entry \cup {None}, NEW p \in Payload
    PROVE  Kept(p, Inherits(d, s), Inherits(into_provider(FilledTwice(p, d, Inherits(d, s))), s))
<1> DEFINE was == Inherits(d, s)
           once == FilledOnce(p, d)
           q == FilledTwice(p, d, was)
           e == into_provider(q)
           now == Inherits(e, s)
<1>1. None \notin Entry /\ None \notin Lists /\ EmptyList \notin Lists /\ None \notin ApiKeys
      /\ None # EmptyList /\ None # NoKey /\ NoKey \notin ApiKeys /\ None \notin Cooldowns
  BY TableAssumption
<1>2. once \in Payload /\ q = FilledFrom(once, p, was, FALSE)
  BY FillTyped DEF FilledOnce, FilledTwice
<1>3. /\ was \in Entry /\ was.kind = d.kind /\ was.list = d.list /\ was.cooldown = d.cooldown
      /\ was.key = IF s # None /\ s.kind = "direct" /\ d.kind = "direct" /\ d.key = NoKey
                   THEN s.key ELSE d.key
  <2>1. was \in Entry
    BY InheritTyped DEF Inherits
  <2>2. d = [kind |-> d.kind, key |-> d.key, list |-> d.list, cooldown |-> d.cooldown]
    BY DEF Entry
  <2> QED
    BY <2>1, <2>2 DEF Inherits, inherit_from_static
<1>4. q \in Payload
  BY <1>2, <1>3, FillTyped
<1>5. e \in Entry
  BY <1>4, IntoTyped
<1>6. /\ now.kind = e.kind /\ now.list = e.list /\ now.cooldown = e.cooldown
      /\ now.key = IF s # None /\ s.kind = "direct" /\ e.kind = "direct" /\ e.key = NoKey
                   THEN s.key ELSE e.key
  <2>1. e = [kind |-> e.kind, key |-> e.key, list |-> e.list, cooldown |-> e.cooldown]
    BY <1>5 DEF Entry
  <2> HIDE DEF e
  <2> QED
    BY <2>1 DEF Inherits, inherit_from_static
<1>7. /\ e.kind = IF Explicit(q.members) THEN "pool"
                  ELSE IF Explicit(q.routes) THEN "router" ELSE "direct"
      /\ e.kind = "pool" => /\ e.list = q.members
                            /\ q.cooldown # None => e.cooldown = q.cooldown
      /\ e.kind = "router" => e.list = q.routes
      /\ e.kind = "direct" => e.list = None /\ e.key = IF q.key = None THEN NoKey ELSE q.key
  <2> HIDE DEF q
  <2> QED
    BY DEF into_provider
<1> HIDE DEF was, once, q, e, now
<1>8. CASE d.kind = "direct"
  <2>1. /\ once.members = p.members /\ once.routes = p.routes
        /\ once.key = IF p.key = None THEN d.key ELSE p.key
    BY <1>8, FilledByDirect DEF once, FilledOnce
  <2>2. q = once
    BY <1>2, <1>3, <1>8, FilledByDirect
  <2>3. d.key # None /\ d.list = None
    BY <1>1, <1>8, EntryIs
  <2> QED
    BY <1>1, <1>3, <1>6, <1>7, <1>8, <2>1, <2>2, <2>3 DEF Kept, Explicit, was, now, e, q
<1>9. CASE d.kind = "router"
  <2>1. /\ once.members = p.members /\ once.key = p.key /\ once.cooldown = p.cooldown
        /\ once.routes = IF p.routes = None /\ ~Explicit(p.members) THEN d.list ELSE p.routes
    BY <1>9, FilledByRouter DEF once, FilledOnce, ByRouter
  <2>2. /\ q.members = once.members /\ q.key = once.key /\ q.cooldown = once.cooldown
        /\ q.routes = IF once.routes = None /\ ~Explicit(p.members) THEN was.list ELSE once.routes
    <3>1. once \in Payload /\ was \in Entry /\ was.kind = "router"
      BY <1>2, <1>3, <1>9
    <3>2. ByRouter(FilledFrom(once, p, was, FALSE), once, p, was)
      BY <3>1, FilledByRouter
    <3>3. ByRouter(q, once, p, was)
      BY <1>2, <3>2
    <3> QED
      BY <3>3 DEF ByRouter
  <2>3. d.list \in Lists
    BY <1>9, EntryIs
  <2> QED
    BY <1>1, <1>3, <1>6, <1>7, <1>9, <2>1, <2>2, <2>3 DEF Kept, Explicit, was, now, e, q
<1>10. CASE d.kind = "pool"
  <2>1. /\ once.routes = p.routes /\ once.key = p.key
        /\ once.members = IF p.members = None /\ ~Explicit(p.routes) THEN d.list ELSE p.members
        /\ once.cooldown = IF p.cooldown = None THEN d.cooldown ELSE p.cooldown
    BY <1>10, FilledByPool DEF once, FilledOnce, ByPool
  <2>2. /\ q.routes = once.routes /\ q.key = once.key
        /\ q.members = IF once.members = None /\ ~Explicit(p.routes) THEN was.list ELSE once.members
        /\ q.cooldown = IF once.cooldown = None THEN was.cooldown ELSE once.cooldown
    <3>1. once \in Payload /\ was \in Entry /\ was.kind = "pool"
      BY <1>2, <1>3, <1>10
    <3>2. ByPool(FilledFrom(once, p, was, FALSE), once, p, was)
      BY <3>1, FilledByPool
    <3>3. ByPool(q, once, p, was)
      BY <1>2, <3>2
    <3> QED
      BY <3>3 DEF ByPool
  <2>3. d.list \in Lists /\ d.cooldown \in Cooldowns
    BY <1>10, EntryIs
  <2> QED
    BY <1>1, <1>3, <1>6, <1>7, <1>10, <2>1, <2>2, <2>3 DEF Kept, Explicit, was, now, e, q
<1> QED
  BY <1>8, <1>9, <1>10, EntryIs DEF was, now, e, q

(* Without an override: the static entry alone fills it.                   *)
LEMMA StaticKept ==
    ASSUME NEW s \in Entry, NEW p \in Payload
    PROVE  Kept(p, s, Inherits(into_provider(FilledTwice(p, None, s)), s))
<1> DEFINE q == FilledTwice(p, None, s)
           e == into_provider(q)
           now == Inherits(e, s)
<1>1. None \notin Entry /\ None \notin Lists /\ EmptyList \notin Lists /\ None \notin ApiKeys
      /\ None # EmptyList /\ None # NoKey /\ NoKey \notin ApiKeys /\ None \notin Cooldowns
  BY TableAssumption
<1>2. q = FilledFrom(p, p, s, FALSE)
  BY DEF FilledTwice, FilledOnce, FilledFrom
<1>3. q \in Payload
  BY <1>2, FillTyped
<1>4. e \in Entry
  BY <1>3, IntoTyped
<1>5. /\ now.kind = e.kind /\ now.list = e.list /\ now.cooldown = e.cooldown
      /\ now.key = IF s.kind = "direct" /\ e.kind = "direct" /\ e.key = NoKey
                   THEN s.key ELSE e.key
  <2>1. e = [kind |-> e.kind, key |-> e.key, list |-> e.list, cooldown |-> e.cooldown]
    BY <1>4 DEF Entry
  <2> HIDE DEF e
  <2> QED
    BY <1>1, <2>1 DEF Inherits, inherit_from_static
<1>6. /\ e.kind = IF Explicit(q.members) THEN "pool"
                  ELSE IF Explicit(q.routes) THEN "router" ELSE "direct"
      /\ e.kind = "pool" => /\ e.list = q.members
                            /\ q.cooldown # None => e.cooldown = q.cooldown
      /\ e.kind = "router" => e.list = q.routes
      /\ e.kind = "direct" => e.list = None /\ e.key = IF q.key = None THEN NoKey ELSE q.key
  <2> HIDE DEF q
  <2> QED
    BY DEF into_provider
<1> HIDE DEF q, e, now
<1>7. CASE s.kind = "direct"
  <2>1. q = p
    BY <1>2, <1>7, FilledByDirect
  <2> QED
    BY <1>1, <1>5, <1>6, <1>7, <2>1, EntryIs DEF Kept, Explicit, now, e, q
<1>8. CASE s.kind = "router"
  <2>1. /\ q.members = p.members /\ q.key = p.key /\ q.cooldown = p.cooldown
        /\ q.routes = IF p.routes = None /\ ~Explicit(p.members) THEN s.list ELSE p.routes
    BY <1>2, <1>8, FilledByRouter DEF ByRouter
  <2> QED
    BY <1>1, <1>5, <1>6, <1>8, <2>1, EntryIs DEF Kept, Explicit, now, e, q
<1>9. CASE s.kind = "pool"
  <2>1. /\ q.routes = p.routes /\ q.key = p.key
        /\ q.members = IF p.members = None /\ ~Explicit(p.routes) THEN s.list ELSE p.members
        /\ q.cooldown = IF p.cooldown = None THEN s.cooldown ELSE p.cooldown
    BY <1>2, <1>9, FilledByPool DEF ByPool
  <2> QED
    BY <1>1, <1>5, <1>6, <1>9, <2>1, EntryIs DEF Kept, Explicit, now, e, q
<1> QED
  BY <1>7, <1>8, <1>9, EntryIs DEF now, e, q

(* Whatever the layers hold and whatever the decision is.                  *)
LEMMA PutKeeps ==
    ASSUME NEW s \in Entry \cup {None}, NEW d \in Entry \cup {None}, NEW mode \in DecisionModes,
           NEW p \in Payload, pick_with_inherit(s, d, mode) # None
    PROVE  LET was == pick_with_inherit(s, d, mode)
           IN  Kept(p, was, pick_with_inherit(s, into_provider(FilledTwice(p, d, was)), mode))
<1> DEFINE was == pick_with_inherit(s, d, mode)
           e == into_provider(FilledTwice(p, d, was))
<1>1. None \notin Entry
  BY TableAssumption
<1>2. was \in Entry
  BY EffectiveTyped
<1>3. e \in Entry
  <2>1. FilledOnce(p, d) \in Payload
    BY FillTyped DEF FilledOnce
  <2>2. FilledTwice(p, d, was) \in Payload
    BY <1>2, <2>1, FillTyped DEF FilledTwice
  <2> QED
    BY <2>2, IntoTyped
<1>4. mode # "disabled"
  BY DEF pick_with_inherit, pick_effective
<1>5. CASE mode = "prefer_static"
  <2>1. was = s /\ pick_with_inherit(s, e, mode) = s
    BY <1>5 DEF pick_with_inherit, pick_effective
  <2> HIDE DEF was, e
  <2> QED
    BY <2>1 DEF Kept, was, e
<1>6. CASE mode = "default"
  <2>1. pick_with_inherit(s, e, mode) = Inherits(e, s)
    <3> HIDE DEF e
    <3> QED
      BY <1>1, <1>3, <1>6 DEF pick_with_inherit, pick_effective, Inherits
  <2>2. CASE d = None
    <3>1. was = s /\ s \in Entry
      BY <1>1, <1>6, <2>2, SelfInherit DEF pick_with_inherit, pick_effective
    <3> QED
      BY <2>1, <2>2, <3>1, StaticKept
  <2>3. CASE d # None
    <3>1. was = Inherits(d, s)
      BY <1>6, <2>3 DEF pick_with_inherit, pick_effective, Inherits
    <3>2. d \in Entry
      BY <2>3
    <3>3. Kept(p, Inherits(d, s), Inherits(into_provider(FilledTwice(p, d, Inherits(d, s))), s))
      BY <3>2, OverrideKept
    <3> QED
      BY <2>1, <3>1, <3>3
  <2> QED
    BY <2>2, <2>3
<1> QED
  BY <1>4, <1>5, <1>6 DEF DecisionModes

(* Nobody else is there to come between.                                   *)
OneAdmin == \A a, b \in Admins : a = b

(* Where a PUT stands between its first read and its write.                *)
PutSteps == {"backfill_dynamic", "backfill_effective", "build", "upsert"}

(* A PUT under way, over an override d under which forwarding uses was.    *)
PutTask(t, d, was) ==
    t.at \in PutSteps =>
        /\ t.asked \in Payload /\ was # None /\ t.was = was
        /\ t.at = "backfill_dynamic" => t.payload = t.asked
        /\ t.at = "backfill_effective" => t.payload = FilledOnce(t.asked, d)
        /\ t.at \in {"build", "upsert"} => t.payload = FilledTwice(t.asked, d, was)
        /\ t.at = "upsert" => t.entry = into_provider(t.payload)

(* The inductive invariant: what a PUT has filled in is a function of its  *)
(* body, the override and the entry it found, and they are still there.    *)
PutInv == \A a \in Admins : PutTask(task[a], dyn, get_effective)

(* A step of the only admin, by the task it leaves.                        *)
LEMMA OnlyTask ==
    ASSUME TableInv, OneAdmin, NEW a \in Admins, NEW t, task' = [task EXCEPT ![a] = t],
           PutTask(t, dyn', get_effective')
    PROVE  PutInv'
<1>1. task'[a] = t
  BY DEF TableInv, TableTypeOK
<1>2. \A b \in Admins : b = a
  BY DEF OneAdmin
<1> QED  BY <1>1, <1>2 DEF PutInv

(* What forwarding uses follows from the layers and the decision.          *)
LEMMA TableKept ==
    ASSUME UNCHANGED <<static_entry, dyn, decision>>
    PROVE  get_effective' = get_effective
BY DEF get_effective, Mode

(* A task that is no PUT under way owes nothing.                           *)
LEMMA OtherTask ==
    ASSUME NEW t, t.at \notin PutSteps, NEW d, NEW was
    PROVE  PutTask(t, d, was)
BY DEF PutTask

(* The steps of an edit: those of a PUT fill the body as PutTask says, the *)
(* others leave no PUT under way.                                          *)
LEMMA PutEdits ==
    ASSUME TableInv, PutInv, OneAdmin, NEW a \in Admins, Edit(a)
    PROVE  PutInv'
<1>1. PutTask(task[a], dyn, get_effective) /\ task[a] \in Task
  BY TaskKnown DEF PutInv
<1>2. ASSUME NEW p \in Payloads, Post(a, p) PROVE PutInv'
  <2> DEFINE t == [IdleTask EXCEPT !.at = "insert", !.asked = p, !.entry = into_provider(p)]
  <2>1. t.at \notin PutSteps
    BY DEF IdleTask, PutSteps
  <2>2. task' = [task EXCEPT ![a] = t]
    BY <1>2 DEF Post
  <2> HIDE DEF t
  <2> QED  BY <2>1, <2>2, OtherTask, OnlyTask
<1>3. ASSUME NEW p \in Payloads, Put(a, p) PROVE PutInv'
  <2> DEFINE t == [IdleTask EXCEPT !.at = "backfill_dynamic", !.asked = p, !.payload = p,
                                   !.was = get_effective]
  <2>1. t.at = "backfill_dynamic" /\ t.asked = p /\ t.payload = p /\ t.was = get_effective
    BY DEF IdleTask
  <2>2. task' = [task EXCEPT ![a] = t] /\ UNCHANGED <<static_entry, dyn, decision>>
    BY <1>3 DEF Put
  <2>3. p \in Payload
    BY TaskKnown
  <2>4. get_effective # None
    BY <1>3, TaskKnown, SnapshotTyped DEF Put, ViewsAgree
  <2> HIDE DEF t
  <2>5. PutTask(t, dyn', get_effective')
    BY <2>1, <2>2, <2>3, <2>4, TableKept DEF PutTask
  <2> QED  BY <2>2, <2>5, OnlyTask
<1>4. CASE BackfillDynamic(a) \/ BackfillEffective(a)
  <2>1. PICK from, to, old, k : /\ Fill(a, from, to, old, k)
                                /\ \/ /\ from = "backfill_dynamic" /\ to = "backfill_effective"
                                      /\ old = dyn /\ k = TRUE
                                   \/ /\ from = "backfill_effective" /\ to = "build"
                                      /\ old = get_effective /\ k = FALSE
    BY <1>4 DEF BackfillDynamic, BackfillEffective
  <2> DEFINE filled == FilledFrom(task[a].payload, task[a].asked, old, k)
             t == [task[a] EXCEPT !.at = to, !.payload = filled]
  <2>2. task' = [task EXCEPT ![a] = t] /\ UNCHANGED <<static_entry, dyn, decision>>
    BY <2>1 DEF Fill, TableInv, TableTypeOK
  <2>3. task[a].at = from
    BY <2>1 DEF Fill, At
  <2>4. filled = IF to = "build" THEN FilledTwice(task[a].asked, dyn, get_effective)
                 ELSE FilledOnce(task[a].asked, dyn)
    BY <1>1, <2>1, <2>3 DEF PutTask, PutSteps, FilledOnce, FilledTwice
  <2> HIDE DEF filled
  <2>5. t.at = to /\ t.asked = task[a].asked /\ t.was = task[a].was /\ t.payload = filled
    BY <1>1 DEF Task
  <2> HIDE DEF t
  <2>6. PutTask(t, dyn', get_effective')
    BY <1>1, <2>1, <2>2, <2>3, <2>4, <2>5, TableKept DEF PutTask, PutSteps
  <2> QED  BY <2>2, <2>6, OnlyTask
<1>5. CASE Build(a) /\ Accepted(task[a].payload)
  <2> DEFINE e == into_provider(task[a].payload)
             t == [task[a] EXCEPT !.at = "upsert", !.entry = e]
  <2>1. task' = [task EXCEPT ![a] = t] /\ UNCHANGED <<static_entry, dyn, decision>>
    BY <1>5 DEF Build, TableInv, TableTypeOK
  <2>2. task[a].at = "build"
    BY <1>5 DEF Build, At
  <2> HIDE DEF e
  <2>3. /\ t.at = "upsert" /\ t.asked = task[a].asked /\ t.was = task[a].was
        /\ t.payload = task[a].payload /\ t.entry = e
    BY <1>1 DEF Task
  <2> HIDE DEF t
  <2>4. PutTask(t, dyn', get_effective')
    BY <1>1, <2>1, <2>2, <2>3, TableKept DEF PutTask, PutSteps, e
  <2> QED  BY <2>1, <2>4, OnlyTask
<1>6. ASSUME Finish(a) PROVE PutInv'
  BY <1>6, IdleTaskIs, OtherTask, OnlyTask DEF Finish, PutSteps
<1>7. CASE Store(a) /\ ~Finish(a)
  <2> DEFINE t == [task[a] EXCEPT !.at = "refetch"]
  <2>1. task' = [task EXCEPT ![a] = t]
    BY <1>7 DEF Store, TableInv, TableTypeOK
  <2>2. t.at \notin PutSteps
    BY <1>1 DEF Task, PutSteps
  <2> HIDE DEF t
  <2> QED  BY <2>1, <2>2, OtherTask, OnlyTask
<1>8. CASE ResetDynamic(a)
  <2> DEFINE t == [IdleTask EXCEPT !.at = "reset", !.was = get_effective]
  <2>1. t.at \notin PutSteps
    BY DEF IdleTask, PutSteps
  <2>2. task' = [task EXCEPT ![a] = t]
    BY <1>8 DEF ResetDynamic
  <2> HIDE DEF t
  <2> QED  BY <2>1, <2>2, OtherTask, OnlyTask
<1>9. CASE DeleteFlow(a) \/ \E mode \in AskedModes : Decide(a, mode)
  <2>1. task' = task /\ task[a].at = "idle"
    BY <1>9 DEF DeleteFlow, Decide, IsIdle
  <2>2. task' = [task EXCEPT ![a] = task[a]]
    BY <2>1 DEF TableInv, TableTypeOK
  <2> QED  BY <2>1, <2>2, OtherTask, OnlyTask DEF PutSteps
<1>10. Finish(a) \/ ~(StoreFails(a) \/ Refetch(a) \/ ResetDecision(a))
  BY DEF StoreFails, Refetch, ResetDecision
<1>11. Build(a) => Accepted(task[a].payload) \/ Finish(a)
  BY DEF Build
<1> QED  BY <1>2, <1>3, <1>4, <1>5, <1>6, <1>7, <1>8, <1>9, <1>10, <1>11 DEF Edit

(* An admin who looks at the list has no PUT under way.                    *)
LEMMA PutLooks ==
    ASSUME TableInv, OneAdmin, NEW a \in Admins, Look(a)
    PROVE  PutInv'
<1>1. task[a] \in Task
  BY TaskKnown
<1>2. CASE List(a)
  <2> DEFINE t == [IdleTask EXCEPT !.at = "list", !.seen = effective_snapshot]
  <2>1. t.at \notin PutSteps
    BY DEF IdleTask, PutSteps
  <2>2. task' = [task EXCEPT ![a] = t]
    BY <1>2 DEF List
  <2> HIDE DEF t
  <2> QED  BY <2>1, <2>2, OtherTask, OnlyTask
<1>3. CASE ListDisabled(a)
  <2> DEFINE e == IF disabled_statics THEN static_entry ELSE None
             t == [task[a] EXCEPT !.at = "listed", !.entry = e]
  <2>1. task' = [task EXCEPT ![a] = t]
    BY <1>3 DEF ListDisabled, TableInv, TableTypeOK
  <2> HIDE DEF e
  <2>2. t.at \notin PutSteps
    BY <1>1 DEF Task, PutSteps
  <2> HIDE DEF t
  <2> QED  BY <2>1, <2>2, OtherTask, OnlyTask
<1>4. CASE Listed(a)
  BY <1>4, IdleTaskIs, OtherTask, OnlyTask DEF Listed, Finish, PutSteps
<1> QED  BY <1>2, <1>3, <1>4 DEF Look

(* PutInv with TableInv is inductive if there is one admin.                *)
LEMMA PutInductive ==
    ASSUME TableInv, PutInv, OneAdmin, [TableNext]_table_vars
    PROVE  PutInv'
<1>1. CASE UNCHANGED table_vars
  BY <1>1, TableKept DEF table_vars, PutInv
<1> QED  BY <1>1, PutEdits, PutLooks DEF TableNext

(* The write that ends a PUT.                                              *)
LEMMA PutStored ==
    ASSUME TableInv, PutInv, NEW a \in Admins, [TableNext]_table_vars, OneAdmin,
           At(a, "upsert"), task'[a].at = "refetch"
    PROVE  Kept(task[a].asked, task[a].was, get_effective')
<1>1. PutTask(task[a], dyn, get_effective) /\ task[a] \in Task /\ task[a].at = "upsert"
  BY TaskKnown DEF PutInv, At
<1>2. Store(a)
  <2>1. PICK b \in Admins : Edit(b) \/ Look(b)
    <3>1. task' # task
      BY DEF At
    <3> QED  BY <3>1 DEF TableNext, table_vars
  <2>2. a = b
    BY DEF OneAdmin
  <2>3. Store(a) \/ StoreFails(a)
    BY <1>1, <2>1, <2>2 DEF Edit, Look, Post, Put, BackfillDynamic, BackfillEffective, Fill, Build,
         Refetch, DeleteFlow, ResetDynamic, ResetDecision, Decide, List, ListDisabled, Listed,
         At, IsIdle
  <2>4. ~Finish(a)
    BY IdleTaskIs DEF Finish, TableInv, TableTypeOK
  <2> QED  BY <2>3, <2>4 DEF StoreFails
<1>3. /\ task[a].asked \in Payload /\ get_effective # None /\ task[a].was = get_effective
      /\ task[a].entry = into_provider(FilledTwice(task[a].asked, dyn, get_effective))
  BY <1>1 DEF PutTask, PutSteps
<1>4. dyn' = task[a].entry /\ static_entry' = static_entry /\ Mode' = Mode
  BY <1>2 DEF Store, Mode
<1>5. Mode \in DecisionModes
  BY TaskKnown DEF Mode, DecisionModes
<1> DEFINE p == task[a].asked
<1>6. Kept(p, get_effective, pick_with_inherit(static_entry, into_provider(FilledTwice(p, dyn, get_effective)), Mode))
  <2>1. /\ static_entry \in Entry \cup {None} /\ dyn \in Entry \cup {None} /\ p \in Payload
        /\ pick_with_inherit(static_entry, dyn, Mode) # None
    BY <1>3, TaskKnown DEF get_effective
  <2> HIDE DEF p
  <2> QED  BY <1>5, <2>1, PutKeeps DEF get_effective
<1>7. get_effective' = pick_with_inherit(static_entry, into_provider(FilledTwice(p, dyn, get_effective)), Mode)
  BY <1>3, <1>4 DEF get_effective
<1> QED  BY <1>3, <1>6, <1>7

(* PUT keeps what its body leaves out, as forwarding sees it, if no other  *)
(* admin comes between its reads and its write (the doc of update_flow     *)
(* allows for lost edits): the construct with its list, the key of a       *)
(* Direct provider even if it comes from the static layer, the cooldown.   *)
THEOREM TableOmittedIsKept ==
    ASSUME OneAdmin
    PROVE  TableSpec => OmittedIsKept
<1>1. TableInit => PutInv
  <2> SUFFICES ASSUME TableInit, NEW a \in Admins PROVE PutTask(task[a], dyn, get_effective)
    BY DEF PutInv
  <2>1. task[a].at = "idle"
    BY DEF TableInit, IdleTask
  <2> QED  BY <2>1, OtherTask DEF PutSteps
<1>2. TableInv /\ PutInv /\ [TableNext]_table_vars => PutInv'
  BY PutInductive
<1>3. TableInv /\ PutInv /\ [TableNext]_table_vars =>
          \A a \in Admins : Upserts(a) =>
              LET was == task[a].was
                  now == get_effective'
                  p   == task[a].asked
              IN  /\ p.members = None /\ p.routes = None =>
                        now.kind = was.kind /\ now.list = was.list
                  /\ p.key = None /\ was.kind = "direct" /\ now.kind = "direct" =>
                        now.key = was.key
                  /\ p.cooldown = None /\ was.kind = "pool" /\ now.kind = "pool" =>
                        now.cooldown = was.cooldown
  BY PutStored DEF Upserts, Kept
<1> QED
  BY <1>1, <1>2, <1>3, TableInvariant, PTL DEF TableSpec, OmittedIsKept
-----------------------------------------------------------------------------
(***************************************************************************)
(* StateFile.  The inductive invariant: whoever is at work holds the lock; *)
(* the cells it is about to write are consistent with each other; the copy *)
(* of the file it has loaded is still what the file says; and once the     *)
(* file is renamed, the cells it has not published yet are what the file   *)
(* says.                                                                   *)
(***************************************************************************)

\* Whoever is between two steps of a write holds persist_lock.
WorkUnderLock == \A w \in Writers : job[w].pc # "idle" => lock = w

\* Until the rename nothing of a write is published.
Preparing(w) == job[w].pc \in {"computed", "loaded"}

AllToDo == \A w \in Writers : Preparing(w) =>
    \A c \in DOMAIN job[w].new : \E i \in DOMAIN job[w].todo : job[w].todo[i] = c

\* The list of keys and its index are written together and agree.
KeysWithIndex == \A w \in Writers : Preparing(w) =>
    /\ "index" \in DOMAIN job[w].new <=> "keys" \in DOMAIN job[w].new
    /\ "index" \in DOMAIN job[w].new => job[w].new["index"] = Index(job[w].new["keys"])

\* The loaded copy is what the file says.
FileIsFresh == \A w \in Writers : job[w].pc = "loaded" =>
    \A s \in Sections : Alike(s, job[w].file[s], disk[s], static)

\* What is published after the rename is what the file says.
PublishesTheFile == \A w \in Writers : job[w].pc = "renamed" =>
    \A c \in DOMAIN job[w].new : Alike(c, job[w].new[c], InFile(c), static)

FileInv == TypeOK /\ WorkUnderLock /\ AllToDo /\ KeysWithIndex /\ FileIsFresh
            /\ PublishesTheFile /\ MemoryIsPersisted
-----------------------------------------------------------------------------
(* What it means for two cells to be alike *)

LEMMA AlikeReflexive == \A c, x, st : Alike(c, x, x, st)
BY DEF Alike, SameEntry

LEMMA AlikeSymmetric ==
    ASSUME NEW c, NEW x, NEW y, NEW st, Alike(c, x, y, st)
    PROVE  Alike(c, y, x, st)
BY DEF Alike, SameEntry

LEMMA AlikeTransitive ==
    ASSUME NEW c, NEW x, NEW y, NEW z, NEW st, Alike(c, x, y, st), Alike(c, y, z, st)
    PROVE  Alike(c, x, z, st)
<1>1. CASE c = "secrets"   BY <1>1 DEF Alike, SameEntry
<1>2. CASE c = "decisions" BY <1>2 DEF Alike
<1>3. CASE c # "secrets" /\ c # "decisions" BY <1>3 DEF Alike
<1> QED BY <1>1, <1>2, <1>3

\* Neither the writer of the secrets, nor a start, nor the writing of a loaded
\* file touches anything of a secret but its generator.
LEMMA StripOnly ==
    ASSUME NEW s \in [Ids -> Secrets(MemGens) \cup {Absent}], NEW st
    PROVE  /\ Regen(s, Strip) \in [Ids -> Secrets(FileGens) \cup {Absent}]
           /\ Alike("secrets", Regen(s, Strip), s, st)
BY AbsentAssumption DEF Regen, Strip, Secrets, MemGens, FileGens, Alike, SameEntry

LEMMA ReadOnly ==
    ASSUME NEW s \in [Ids -> Secrets(FileGens) \cup {Absent}], NEW st
    PROVE  /\ Regen(s, Read) \in [Ids -> Secrets(MemGens) \cup {Absent}]
           /\ Alike("secrets", Regen(s, Read), s, st)
BY AbsentAssumption DEF Regen, Read, Secrets, MemGens, FileGens, Alike, SameEntry

LEMMA SerializedOnly ==
    ASSUME NEW s \in [Ids -> Secrets(FileGens) \cup {Absent}], NEW st
    PROVE  /\ Regen(s, Serialized) \in [Ids -> Secrets(FileGens) \cup {Absent}]
           /\ Alike("secrets", Regen(s, Serialized), s, st)
BY AbsentAssumption DEF Regen, Serialized, Secrets, MemGens, FileGens, Alike, SameEntry

LEMMA PersistedOnly ==
    ASSUME NEW c \in Sections, NEW x \in CellType(c, MemGens), NEW st
    PROVE  Persisted(c, x) \in CellType(c, FileGens) /\ Alike(c, Persisted(c, x), x, st)
<1>1. CASE c = "secrets"
  <2>1. x \in [Ids -> Secrets(MemGens) \cup {Absent}] BY <1>1 DEF CellType
  <2> QED BY <1>1, <2>1, StripOnly DEF Persisted, CellType
<1>2. CASE c # "secrets" BY <1>2, AlikeReflexive DEF Persisted, CellType
<1> QED BY <1>1, <1>2
-----------------------------------------------------------------------------
(* The beginning of a write *)

\* The new cells are well typed, all to be published, and consistent.
Proper(todo, new) ==
    /\ todo \in Seq(DOMAIN new) /\ todo # <<>>
    /\ \A c \in DOMAIN new : c \in Cells /\ new[c] \in CellType(c, MemGens)
    /\ \A c \in DOMAIN new : \E i \in DOMAIN todo : todo[i] = c
    /\ "index" \in DOMAIN new <=> "keys" \in DOMAIN new
    /\ "index" \in DOMAIN new => new["index"] = Index(new["keys"])

LEMMA StartKeeps ==
    ASSUME FileInv, NEW w \in Writers, NEW todo, NEW new, Proper(todo, new),
           Start(w, todo, new), UNCHANGED <<mem, disk, static, issued>>
    PROVE  FileInv'
<1> DEFINE j == [pc |-> "computed", todo |-> todo, new |-> new, file |-> Absent]
<1>1. /\ DOMAIN job = Writers
      /\ \A v \in Writers : job'[v] = IF v = w THEN j ELSE job[v]
      /\ DOMAIN job' = Writers
  BY DEF FileInv, TypeOK, Start
<1>2. \A v \in Writers : job[v].pc = "idle"
  BY AbsentAssumption DEF FileInv, WorkUnderLock, Start, Free
<1>3. \A v \in Writers : job'[v].pc # "idle" => v = w
  BY <1>1, <1>2
<1>4. TypeOK'
  <2>1. IsJob(j) BY DEF IsJob, Proper
  <2>2. \A v \in Writers : IsJob(job'[v]) BY <1>1, <2>1 DEF FileInv, TypeOK
  <2>3. lock' \in Writers \cup {Free} BY DEF Start
  <2> QED BY <1>1, <2>2, <2>3 DEF FileInv, TypeOK, IsJob, IsFile
<1>5. WorkUnderLock' BY <1>3 DEF WorkUnderLock, Start
<1>6. AllToDo' BY <1>1, <1>3 DEF AllToDo, Preparing, Proper
<1>7. KeysWithIndex' BY <1>1, <1>3 DEF KeysWithIndex, Preparing, Proper
<1>8. FileIsFresh' BY <1>1, <1>2 DEF FileIsFresh
<1>9. PublishesTheFile' BY <1>1, <1>2 DEF PublishesTheFile
<1>10. MemoryIsPersisted'
  <2>1. \A c \in Cells : Alike(c, mem[c], InFile(c), static)
    BY <1>2 DEF FileInv, MemoryIsPersisted, AboutToPublish
  <2> QED BY <2>1 DEF MemoryIsPersisted, InFile
<1> QED BY <1>4, <1>5, <1>6, <1>7, <1>8, <1>9, <1>10 DEF FileInv

LEMMA OneCellIsProper ==
    ASSUME NEW c \in Cells \ {"index", "keys"}, NEW x \in CellType(c, MemGens)
    PROVE  Proper(<<c>>, [d \in {c} |-> x])
<1>1. <<c>> \in Seq({c}) /\ <<c>> # <<>> /\ DOMAIN <<c>> = {1} /\ <<c>>[1] = c
  OBVIOUS
<1> QED BY <1>1 DEF Proper

LEMMA KeyCellsAreProper ==
    ASSUME NEW keys \in [Keys -> KeyStates]
    PROVE  Proper(<<"index", "keys">>, KeyCells(keys))
<1> DEFINE t == <<"index", "keys">>
<1>1. /\ t \in Seq({"index", "keys"}) /\ t # <<>>
      /\ DOMAIN t = {1, 2} /\ t[1] = "index" /\ t[2] = "keys"
  OBVIOUS
<1>2. /\ DOMAIN KeyCells(keys) = {"index", "keys"}
      /\ KeyCells(keys)["index"] = Index(keys) /\ KeyCells(keys)["keys"] = keys
  BY DEF KeyCells
<1>3. Index(keys) \in CellType("index", MemGens) /\ keys \in CellType("keys", MemGens)
  BY DEF Index, CellType
<1> QED BY <1>1, <1>2, <1>3 DEF Proper, Cells, Sections

LEMMA UpsertKeeps ==
    ASSUME FileInv, NEW w \in Writers, Upsert(w)
    PROVE  FileInv'
<1>1. ASSUME NEW id \in Ids, NEW v \in Values, Change(w, "providers", id, v)
      PROVE  FileInv'
  <2>1. [mem["providers"] EXCEPT ![id] = v] \in CellType("providers", MemGens)
    BY DEF FileInv, TypeOK, Cells, Sections, CellType, Entries
  <2> QED BY <1>1, <2>1, OneCellIsProper, StartKeeps DEF Change, Cells, Sections
<1>2. ASSUME NEW id \in Ids, NEW s \in Secrets(MemGens), Change(w, "secrets", id, s)
      PROVE  FileInv'
  <2>1. [mem["secrets"] EXCEPT ![id] = s] \in CellType("secrets", MemGens)
    BY DEF FileInv, TypeOK, Cells, Sections, CellType
  <2> QED BY <1>2, <2>1, OneCellIsProper, StartKeeps DEF Change, Cells, Sections
<1> QED BY <1>1, <1>2 DEF Upsert

LEMMA DeleteKeeps ==
    ASSUME FileInv, NEW w \in Writers, Delete(w)
    PROVE  FileInv'
<1>1. PICK t \in Tables, id \in Ids : Change(w, t, id, Absent) BY DEF Delete
<1>2. [mem[t] EXCEPT ![id] = Absent] \in CellType(t, MemGens)
  BY DEF FileInv, TypeOK, Tables, Cells, Sections, CellType, Entries
<1> QED BY <1>1, <1>2, OneCellIsProper, StartKeeps DEF Change, Tables, Cells, Sections

LEMMA DecidedIsTyped ==
    ASSUME TypeOK, NEW t \in Tables, NEW id \in Ids, NEW mode \in Modes
    PROVE  Decided(t, id, mode) \in CellType("decisions", MemGens)
BY DEF TypeOK, Decided, Cells, Sections, CellType

LEMMA SetDecisionKeeps ==
    ASSUME FileInv, NEW w \in Writers, SetDecision(w)
    PROVE  FileInv'
<1>1. PICK t \in Tables, mode \in Modes : \E id \in static[t] :
        Start(w, <<"decisions">>, [c \in {"decisions"} |-> Decided(t, id, mode)])
  BY DEF SetDecision
<1>0. PICK id \in static[t] :
        Start(w, <<"decisions">>, [c \in {"decisions"} |-> Decided(t, id, mode)])
  BY <1>1
<1>2. id \in Ids BY DEF FileInv, TypeOK
<1>3. Proper(<<"decisions">>, [c \in {"decisions"} |-> Decided(t, id, mode)])
  BY <1>2, DecidedIsTyped, OneCellIsProper DEF FileInv, Cells, Sections
<1>4. UNCHANGED <<mem, disk, static, issued>> BY DEF SetDecision
<1> QED BY <1>0, <1>3, <1>4, StartKeeps

LEMMA SetCaptureKeeps ==
    ASSUME FileInv, NEW w \in Writers, SetCapture(w)
    PROVE  FileInv'
<1>1. PICK m \in Captures : Start(w, <<"capture">>, [c \in {"capture"} |-> m])
  BY DEF SetCapture
<1>2. Proper(<<"capture">>, [c \in {"capture"} |-> m])
  <2>1. m \in CellType("capture", MemGens) BY DEF CellType
  <2> QED BY <2>1, OneCellIsProper DEF Cells, Sections
<1>3. UNCHANGED <<mem, disk, static, issued>> BY DEF SetCapture
<1> QED BY <1>1, <1>2, <1>3, StartKeeps

LEMMA ResetKeeps ==
    ASSUME FileInv, NEW w \in Writers, Reset(w)
    PROVE  FileInv'
<1>1. PICK t \in Tables : \E id \in static[t] :
        Start(w, <<t, "decisions">>,
              [c \in {t, "decisions"} |-> IF c = t THEN [mem[t] EXCEPT ![id] = Absent]
                                          ELSE Decided(t, id, "default")])
  BY DEF Reset
<1>0. PICK id \in static[t] :
        Start(w, <<t, "decisions">>,
              [c \in {t, "decisions"} |-> IF c = t THEN [mem[t] EXCEPT ![id] = Absent]
                                          ELSE Decided(t, id, "default")])
  BY <1>1
<1> DEFINE todo == <<t, "decisions">>
           new == [c \in {t, "decisions"} |-> IF c = t THEN [mem[t] EXCEPT ![id] = Absent]
                                              ELSE Decided(t, id, "default")]
<1>2. id \in Ids BY DEF FileInv, TypeOK
<1>3. /\ [mem[t] EXCEPT ![id] = Absent] \in CellType(t, MemGens)
      /\ t \in Cells /\ t \notin {"index", "keys", "decisions"}
  BY <1>2 DEF FileInv, TypeOK, Tables, Cells, Sections, CellType, Entries
<1>4. Decided(t, id, "default") \in CellType("decisions", MemGens)
  BY <1>2, DecidedIsTyped DEF FileInv, Modes
<1>5. /\ todo \in Seq({t, "decisions"}) /\ todo # <<>>
      /\ DOMAIN todo = {1, 2} /\ todo[1] = t /\ todo[2] = "decisions"
  OBVIOUS
<1>6. /\ DOMAIN new = {t, "decisions"}
      /\ new[t] = [mem[t] EXCEPT ![id] = Absent]
      /\ new["decisions"] = Decided(t, id, "default")
  BY <1>3
<1>7. Proper(todo, new)
  <2> HIDE DEF todo, new
  <2> QED BY <1>3, <1>4, <1>5, <1>6 DEF Proper, Cells, Sections
<1>8. UNCHANGED <<mem, disk, static, issued>> BY DEF Reset
<1> QED BY <1>0, <1>7, <1>8, StartKeeps

LEMMA ChangeKeyKeeps ==
    ASSUME FileInv, NEW w \in Writers, ChangeKey(w)
    PROVE  FileInv'
<1>1. PICK k \in Keys, s \in KeyStates :
        Start(w, <<"index", "keys">>, KeyCells([mem.keys EXCEPT ![k] = s]))
  BY DEF ChangeKey
<1>2. [mem.keys EXCEPT ![k] = s] \in [Keys -> KeyStates]
  BY DEF FileInv, TypeOK, Cells, Sections, CellType
<1>3. UNCHANGED <<mem, disk, static, issued>> BY DEF ChangeKey
<1> QED BY <1>1, <1>2, <1>3, KeyCellsAreProper, StartKeeps
-----------------------------------------------------------------------------
(* The steps of a write *)

\* Two writers are never at work at the same time.
LEMMA OneAtWork ==
    ASSUME FileInv, NEW w \in Writers, job[w].pc # "idle"
    PROVE  \A v \in Writers : v # w => job[v].pc = "idle"
BY DEF FileInv, WorkUnderLock

\* As long as nothing is renamed, memory is what the file says.
LEMMA NothingPending ==
    ASSUME FileInv, \A v \in Writers : job[v].pc # "renamed"
    PROVE  \A c \in Cells : Alike(c, mem[c], InFile(c), static)
BY DEF FileInv, MemoryIsPersisted, AboutToPublish

LEMMA LoadKeeps ==
    ASSUME FileInv, NEW w \in Writers, Load(w)
    PROVE  FileInv'
<1> DEFINE file == [disk EXCEPT !.secrets = Regen(disk.secrets, Serialized)]
           j == [job[w] EXCEPT !.pc = "loaded", !.file = file]
<1>1. /\ DOMAIN job = Writers /\ IsJob(job[w]) /\ IsFile(disk)
      /\ job[w].pc = "computed"
  BY DEF FileInv, TypeOK, Load
<1>2. /\ DOMAIN job' = Writers
      /\ \A v \in Writers : job'[v] = IF v = w THEN j ELSE job[v]
  BY <1>1 DEF Load
<1>3. /\ DOMAIN j = {"pc", "todo", "new", "file"}
      /\ j.pc = "loaded" /\ j.todo = job[w].todo /\ j.new = job[w].new /\ j.file = file
  BY <1>1 DEF IsJob
<1>4. IsFile(file) /\ \A s \in Sections : Alike(s, file[s], disk[s], static)
  <2>1. /\ disk.secrets \in [Ids -> Secrets(FileGens) \cup {Absent}]
        /\ DOMAIN disk = Sections
    BY <1>1 DEF IsFile, Sections, CellType
  <2>2. /\ DOMAIN file = Sections
        /\ file["secrets"] = Regen(disk.secrets, Serialized)
        /\ \A s \in Sections : s # "secrets" => file[s] = disk[s]
    BY <2>1 DEF Sections
  <2>3. /\ file["secrets"] \in CellType("secrets", FileGens)
        /\ Alike("secrets", file["secrets"], disk["secrets"], static)
    BY <2>1, <2>2, SerializedOnly DEF CellType
  <2> HIDE DEF file
  <2> QED BY <1>1, <2>2, <2>3, AlikeReflexive DEF IsFile
<1> HIDE DEF j, file
<1>5. \A v \in Writers : v # w => job[v].pc = "idle" BY <1>1, OneAtWork
<1>6. lock = w BY <1>1 DEF FileInv, WorkUnderLock
<1>7. TypeOK'
  <2>1. IsJob(j) BY <1>1, <1>3, <1>4 DEF IsJob
  <2>2. \A v \in Writers : IsJob(job'[v]) BY <1>2, <2>1 DEF FileInv, TypeOK
  <2> QED BY <1>2, <2>2 DEF FileInv, TypeOK, Load, IsJob, IsFile
<1>8. WorkUnderLock' BY <1>2, <1>5, <1>6 DEF WorkUnderLock, Load
<1>9. AllToDo' /\ KeysWithIndex'
  BY <1>1, <1>2, <1>3, <1>5 DEF FileInv, AllToDo, KeysWithIndex, Preparing
<1>10. FileIsFresh'
  <2>1. ASSUME NEW v \in Writers, job'[v].pc = "loaded"
        PROVE  job'[v].file = file
    BY <1>2, <1>3, <1>5, <2>1
  <2>2. disk' = disk /\ static' = static BY DEF Load
  <2> QED BY <1>4, <2>1, <2>2 DEF FileIsFresh
<1>11. PublishesTheFile' BY <1>2, <1>3, <1>5 DEF PublishesTheFile
<1>12. MemoryIsPersisted'
  <2>1. \A c \in Cells : Alike(c, mem[c], InFile(c), static)
    BY <1>1, <1>5, NothingPending
  <2> QED BY <2>1 DEF MemoryIsPersisted, InFile, Load
<1> QED BY <1>7, <1>8, <1>9, <1>10, <1>11, <1>12 DEF FileInv

\* What a write leaves in the file: its own cells as they are, the rest as it was.
LEMMA WrittenOnly ==
    ASSUME FileInv, NEW w \in Writers, job[w].pc = "loaded"
    PROVE  /\ IsFile(Written(job[w]))
           /\ \A s \in Sections \cap DOMAIN job[w].new :
                 Alike(s, job[w].new[s], Written(job[w])[s], static)
           /\ \A s \in Sections \ DOMAIN job[w].new :
                 Alike(s, disk[s], Written(job[w])[s], static)
<1>1. IsJob(job[w]) /\ IsFile(job[w].file) BY DEF FileInv, TypeOK, IsJob
<1>2. /\ DOMAIN Written(job[w]) = Sections
      /\ \A s \in Sections : Written(job[w])[s] =
            IF s \in DOMAIN job[w].new THEN Persisted(s, job[w].new[s]) ELSE job[w].file[s]
  BY DEF Written
<1>3. ASSUME NEW s \in Sections, s \in DOMAIN job[w].new
      PROVE  /\ Written(job[w])[s] \in CellType(s, FileGens)
             /\ Alike(s, job[w].new[s], Written(job[w])[s], static)
  <2>1. job[w].new[s] \in CellType(s, MemGens) BY <1>1, <1>3 DEF IsJob
  <2> QED BY <1>2, <1>3, <2>1, PersistedOnly, AlikeSymmetric
<1>4. ASSUME NEW s \in Sections, s \notin DOMAIN job[w].new
      PROVE  /\ Written(job[w])[s] \in CellType(s, FileGens)
             /\ Alike(s, disk[s], Written(job[w])[s], static)
  <2>1. Alike(s, job[w].file[s], disk[s], static) BY DEF FileInv, FileIsFresh
  <2> QED BY <1>1, <1>2, <1>4, <2>1, AlikeSymmetric DEF IsFile
<1> QED BY <1>2, <1>3, <1>4 DEF IsFile

LEMMA RenameKeeps ==
    ASSUME FileInv, NEW w \in Writers, Rename(w)
    PROVE  FileInv'
<1> DEFINE j == [job[w] EXCEPT !.pc = "renamed", !.file = Absent]
<1>1. /\ DOMAIN job = Writers /\ IsJob(job[w]) /\ job[w].pc = "loaded"
      /\ disk' = Written(job[w])
      /\ UNCHANGED <<mem, static, lock, issued>>
  BY DEF FileInv, TypeOK, Rename
<1>2. /\ DOMAIN job' = Writers
      /\ \A v \in Writers : job'[v] = IF v = w THEN j ELSE job[v]
  BY <1>1 DEF Rename
<1>3. /\ DOMAIN j = {"pc", "todo", "new", "file"}
      /\ j.pc = "renamed" /\ j.todo = job[w].todo /\ j.new = job[w].new
  BY <1>1 DEF IsJob
<1> HIDE DEF j
<1>4. \A v \in Writers : v # w => job[v].pc = "idle" BY <1>1, OneAtWork
<1>5. lock = w BY <1>1 DEF FileInv, WorkUnderLock
<1>6. /\ IsFile(disk')
      /\ \A s \in Sections \cap DOMAIN j.new : Alike(s, j.new[s], disk'[s], static)
      /\ \A s \in Sections \ DOMAIN j.new : Alike(s, disk[s], disk'[s], static)
  BY <1>1, <1>3, WrittenOnly
<1>7. TypeOK'
  <2>1. IsJob(j) BY <1>1, <1>3 DEF IsJob
  <2>2. \A v \in Writers : IsJob(job'[v]) BY <1>2, <2>1 DEF FileInv, TypeOK
  <2>3. IsFile(disk)' BY <1>6 DEF IsFile
  <2> QED BY <1>1, <1>2, <2>2, <2>3 DEF FileInv, TypeOK, IsJob
<1>8. WorkUnderLock' BY <1>1, <1>2, <1>4, <1>5 DEF WorkUnderLock
<1>9. AllToDo' /\ KeysWithIndex' /\ FileIsFresh'
  BY <1>2, <1>3, <1>4 DEF AllToDo, KeysWithIndex, FileIsFresh, Preparing
<1>10. /\ "index" \in DOMAIN j.new <=> "keys" \in DOMAIN j.new
       /\ "index" \in DOMAIN j.new => j.new["index"] = Index(j.new["keys"])
  BY <1>1, <1>3 DEF FileInv, KeysWithIndex, Preparing
\* What the file says of a cell, before and after.
<1>11. ASSUME NEW c \in Cells
       PROVE  /\ c \in DOMAIN j.new => Alike(c, j.new[c], InFile(c)', static)
              /\ c \notin DOMAIN j.new => Alike(c, InFile(c), InFile(c)', static)
  <2>1. CASE c = "index"
    <3>1. "keys" \in Sections BY DEF Sections
    <3>2. Alike("keys", j.new["keys"], disk'["keys"], static) => j.new["keys"] = disk'["keys"]
      BY DEF Alike
    <3>3. Alike("keys", disk["keys"], disk'["keys"], static) => disk["keys"] = disk'["keys"]
      BY DEF Alike
    <3> QED BY <1>6, <1>10, <2>1, <3>1, <3>2, <3>3, AlikeReflexive DEF InFile
  <2>2. CASE c # "index" BY <1>6, <2>2 DEF InFile, Cells
  <2> QED BY <2>1, <2>2
<1>12. PublishesTheFile'
  <2>1. ASSUME NEW v \in Writers, job'[v].pc = "renamed"
        PROVE  job'[v].new = j.new
    BY <1>2, <1>4, <2>1
  <2>2. \A c \in DOMAIN j.new : c \in Cells BY <1>1, <1>3 DEF IsJob
  <2> QED BY <1>1, <1>11, <2>1, <2>2 DEF PublishesTheFile
<1>13. MemoryIsPersisted'
  <2> SUFFICES ASSUME NEW c \in Cells
               PROVE  \/ Alike(c, mem[c], InFile(c)', static)
                      \/ \E v \in Writers : AboutToPublish(v, c)'
    BY <1>1 DEF MemoryIsPersisted
  <2>1. CASE c \in DOMAIN j.new
    <3>1. \E i \in DOMAIN j.todo : j.todo[i] = c
      BY <1>1, <1>3, <2>1 DEF FileInv, AllToDo, Preparing
    <3> QED BY <1>2, <1>3, <3>1 DEF AboutToPublish
  <2>2. CASE c \notin DOMAIN j.new
    <3>1. Alike(c, mem[c], InFile(c), static)
      BY <1>1, <1>4, NothingPending
    <3> QED BY <1>11, <2>2, <3>1, AlikeTransitive
  <2> QED BY <2>1, <2>2
<1> QED BY <1>7, <1>8, <1>9, <1>12, <1>13 DEF FileInv

LEMMA AbortKeeps ==
    ASSUME FileInv, NEW w \in Writers, Abort(w)
    PROVE  FileInv'
<1>1. /\ DOMAIN job = Writers /\ job[w].pc \in {"computed", "loaded"}
      /\ lock' = Unlocked(w)
      /\ UNCHANGED <<mem, disk, static, issued>>
  BY DEF FileInv, TypeOK, Abort
<1>2. /\ DOMAIN job' = Writers
      /\ \A v \in Writers : job'[v] = IF v = w THEN Idle ELSE job[v]
  BY <1>1 DEF Abort
<1>3. \A v \in Writers : v # w => job[v].pc = "idle" BY <1>1, OneAtWork
<1>4. \A v \in Writers : job'[v].pc = "idle" BY <1>2, <1>3 DEF Idle
<1>5. TypeOK'
  <2>1. IsJob(Idle) BY DEF IsJob, Idle
  <2>2. \A v \in Writers : IsJob(job'[v]) BY <1>2, <2>1 DEF FileInv, TypeOK
  <2>3. lock' \in Writers \cup {Free} BY <1>1 DEF FileInv, TypeOK, Unlocked
  <2> QED BY <1>1, <1>2, <2>2, <2>3 DEF FileInv, TypeOK, IsJob, IsFile
<1>6. WorkUnderLock' /\ AllToDo' /\ KeysWithIndex' /\ FileIsFresh' /\ PublishesTheFile'
  BY <1>4 DEF WorkUnderLock, AllToDo, KeysWithIndex, FileIsFresh, PublishesTheFile,
              Preparing, AboutToPublish
<1>7. MemoryIsPersisted'
  <2>1. \A c \in Cells : Alike(c, mem[c], InFile(c), static)
    BY <1>1, <1>3, NothingPending
  <2> QED BY <1>1, <2>1 DEF MemoryIsPersisted, InFile
<1> QED BY <1>5, <1>6, <1>7 DEF FileInv

LEMMA TailFacts ==
    ASSUME NEW D, NEW q \in Seq(D), q # <<>>
    PROVE  /\ Len(q) \in Nat \ {0} /\ DOMAIN q = 1 .. Len(q)
           /\ Head(q) = q[1] /\ q[1] \in D
           /\ Tail(q) \in Seq(D) /\ DOMAIN Tail(q) = 1 .. Len(q) - 1
           /\ \A i \in 1 .. Len(q) - 1 : Tail(q)[i] = q[i + 1]
           /\ Len(q) # 1 => Tail(q) # <<>>
<1>1. Len(q) \in Nat \ {0} /\ DOMAIN q = 1 .. Len(q) OBVIOUS
<1>2. /\ Tail(q) \in Seq(D) /\ Len(Tail(q)) = Len(q) - 1
      /\ \A i \in 1 .. Len(Tail(q)) : Tail(q)[i] = q[i + 1]
  BY HeadTailProperties
<1>3. DOMAIN Tail(q) = 1 .. Len(q) - 1 BY <1>2
<1>4. Len(q) # 1 => Tail(q) # <<>>
  <2>1. Len(<<>>) = 0 BY EmptySeq
  <2>2. Len(q) # 1 => Len(Tail(q)) # 0 BY <1>1, <1>2
  <2> QED BY <2>1, <2>2
<1> QED BY <1>1, <1>2, <1>3, <1>4

LEMMA PublishKeeps ==
    ASSUME FileInv, NEW w \in Writers, Publish(w)
    PROVE  FileInv'
<1> DEFINE h == Head(job[w].todo)
           last == Len(job[w].todo) = 1
           j == IF last THEN Idle ELSE [job[w] EXCEPT !.todo = Tail(@)]
<1>1. /\ DOMAIN job = Writers /\ IsJob(job[w]) /\ job[w].pc = "renamed"
      /\ mem' = [mem EXCEPT ![h] = job[w].new[h]]
      /\ lock' = IF last THEN Unlocked(w) ELSE lock
      /\ UNCHANGED <<disk, static, issued>>
  BY DEF FileInv, TypeOK, Publish
<1>2. /\ DOMAIN job' = Writers
      /\ \A v \in Writers : job'[v] = IF v = w THEN j ELSE job[v]
  BY <1>1 DEF Publish
<1>3. /\ job[w].todo \in Seq(DOMAIN job[w].new) /\ job[w].todo # <<>>
      /\ h \in DOMAIN job[w].new /\ h \in Cells
      /\ job[w].new[h] \in CellType(h, MemGens)
  BY <1>1 DEF IsJob
<1>4. /\ ~last => /\ DOMAIN j = {"pc", "todo", "new", "file"}
                  /\ j.pc = "renamed" /\ j.new = job[w].new /\ j.file = job[w].file
                  /\ j.todo = Tail(job[w].todo)
                  /\ j.todo \in Seq(DOMAIN job[w].new) /\ j.todo # <<>>
      /\ last => j = Idle
  <2>1. /\ Tail(job[w].todo) \in Seq(DOMAIN job[w].new)
        /\ ~last => Tail(job[w].todo) # <<>>
    BY <1>3, TailFacts
  <2> QED BY <1>1, <2>1 DEF IsJob
\* The cells still to be published are those to publish before, but the first.
<1>5. ASSUME NEW c
      PROVE  (\E i \in DOMAIN job[w].todo : job[w].todo[i] = c)
               => c = h \/ (~last /\ \E i \in DOMAIN Tail(job[w].todo) : Tail(job[w].todo)[i] = c)
  <2> SUFFICES ASSUME NEW i \in DOMAIN job[w].todo, job[w].todo[i] = c, c # h
               PROVE  ~last /\ \E k \in DOMAIN Tail(job[w].todo) : Tail(job[w].todo)[k] = c
    OBVIOUS
  <2>1. i \in 2 .. Len(job[w].todo) BY <1>3, TailFacts
  <2>2. i - 1 \in DOMAIN Tail(job[w].todo) /\ Tail(job[w].todo)[i - 1] = job[w].todo[i]
    BY <1>3, <2>1, TailFacts
  <2> QED BY <2>1, <2>2
<1> HIDE DEF j
<1>7. \A v \in Writers : v # w => job[v].pc = "idle" BY <1>1, OneAtWork
<1>8. lock = w BY <1>1 DEF FileInv, WorkUnderLock
<1>9. TypeOK'
  <2>1. IsJob(j)
    <3>1. CASE last
      <4>1. IsJob(Idle) BY DEF IsJob, Idle
      <4> QED BY <1>4, <3>1, <4>1
    <3>2. CASE ~last BY <1>1, <1>4, <3>2 DEF IsJob
    <3> QED BY <3>1, <3>2
  <2>2. \A v \in Writers : IsJob(job'[v]) BY <1>2, <2>1 DEF FileInv, TypeOK
  <2>3. lock' \in Writers \cup {Free} BY <1>1 DEF FileInv, TypeOK, Unlocked
  <2>4. DOMAIN mem' = Cells /\ \A c \in Cells : mem'[c] \in CellType(c, MemGens)
    BY <1>1, <1>3 DEF FileInv, TypeOK
  <2> QED BY <1>1, <1>2, <2>2, <2>3, <2>4 DEF FileInv, TypeOK, IsJob, IsFile
<1>10. WorkUnderLock' BY <1>1, <1>2, <1>4, <1>7, <1>8 DEF WorkUnderLock, Idle
<1>11. AllToDo' /\ KeysWithIndex' /\ FileIsFresh'
  BY <1>2, <1>4, <1>7 DEF AllToDo, KeysWithIndex, FileIsFresh, Preparing, Idle
<1>12. \A c \in Cells : InFile(c)' = InFile(c) BY <1>1 DEF InFile
<1>13. PublishesTheFile'
  <2>1. ASSUME NEW v \in Writers, job'[v].pc = "renamed"
        PROVE  job'[v].new = job[w].new
    BY <1>2, <1>4, <1>7, <2>1 DEF Idle
  <2>2. \A c \in DOMAIN job[w].new : c \in Cells BY <1>1 DEF IsJob
  <2> QED BY <1>1, <1>12, <2>1, <2>2 DEF FileInv, PublishesTheFile
<1>14. MemoryIsPersisted'
  <2> SUFFICES ASSUME NEW c \in Cells
               PROVE  \/ Alike(c, mem'[c], InFile(c), static)
                      \/ \E v \in Writers : AboutToPublish(v, c)'
    BY <1>1, <1>12 DEF MemoryIsPersisted
  <2>1. CASE c = h
    <3>1. mem'[c] = job[w].new[c] BY <1>1, <2>1 DEF FileInv, TypeOK
    <3> QED BY <1>1, <1>3, <2>1, <3>1 DEF FileInv, PublishesTheFile
  <2>2. CASE c # h
    <3>1. mem'[c] = mem[c] BY <1>1, <2>2 DEF FileInv, TypeOK
    <3>2. CASE Alike(c, mem[c], InFile(c), static) BY <3>1, <3>2
    <3>3. CASE \E v \in Writers : AboutToPublish(v, c)
      <4>1. AboutToPublish(w, c) BY <1>7, <3>3 DEF AboutToPublish
      <4>2. ~last /\ \E i \in DOMAIN Tail(job[w].todo) : Tail(job[w].todo)[i] = c
        BY <1>5, <2>2, <4>1 DEF AboutToPublish
      <4>3. AboutToPublish(w, c)' BY <1>2, <1>4, <4>2 DEF AboutToPublish
      <4> QED BY <4>3
    <3> QED BY <3>1, <3>2, <3>3 DEF FileInv, MemoryIsPersisted
  <2> QED BY <2>1, <2>2
<1> QED BY <1>9, <1>10, <1>11, <1>13, <1>14 DEF FileInv
-----------------------------------------------------------------------------
(* The beginning, and every new beginning *)

\* Pruning touches no decision on a static id.
LEMMA PrunedOnly ==
    ASSUME NEW d \in [Tables -> [Ids -> Modes]], NEW st \in [Tables -> SUBSET Ids]
    PROVE  /\ Pruned(d, st) \in [Tables -> [Ids -> Modes]]
           /\ Alike("decisions", Pruned(d, st), d, st)
<1>1. Pruned(d, st) \in [Tables -> [Ids -> Modes]] BY DEF Pruned, Modes
<1>2. \A t \in Tables : \A id \in st[t] : Pruned(d, st)[t][id] = d[t][id]
  BY DEF Pruned
<1> QED BY <1>1, <1>2 DEF Alike

LEMMA BootedOnly ==
    ASSUME NEW f, NEW st \in [Tables -> SUBSET Ids], IsFile(f)
    PROVE  /\ DOMAIN Booted(f, st) = Cells
           /\ \A c \in Cells : Booted(f, st)[c] \in CellType(c, MemGens)
           /\ \A s \in Sections : Alike(s, Booted(f, st)[s], f[s], st)
           /\ Booted(f, st)["index"] = Index(f["keys"])
<1> DEFINE b == Booted(f, st)
<1>1. /\ DOMAIN b = Cells /\ b["providers"] = f["providers"]
      /\ b["secrets"] = Regen(f["secrets"], Read)
      /\ b["decisions"] = Pruned(f["decisions"], st)
      /\ b["keys"] = f["keys"] /\ b["index"] = Index(f["keys"])
      /\ b["capture"] = f["capture"]
  BY DEF Booted, Cells, Sections
<1>2. /\ f["providers"] \in [Ids -> Entries]
      /\ f["secrets"] \in [Ids -> Secrets(FileGens) \cup {Absent}]
      /\ f["decisions"] \in [Tables -> [Ids -> Modes]]
      /\ f["keys"] \in [Keys -> KeyStates]
      /\ f["capture"] \in Captures
  BY DEF IsFile, Sections, CellType
<1>3. /\ b["secrets"] \in [Ids -> Secrets(MemGens) \cup {Absent}]
      /\ Alike("secrets", b["secrets"], f["secrets"], st)
  BY <1>1, <1>2, ReadOnly
<1>4. /\ b["decisions"] \in [Tables -> [Ids -> Modes]]
      /\ Alike("decisions", b["decisions"], f["decisions"], st)
  BY <1>1, <1>2, PrunedOnly
<1>5. b["index"] \in SUBSET Keys BY <1>1 DEF Index
<1> HIDE DEF b
<1>6. \A c \in Cells : b[c] \in CellType(c, MemGens)
  BY <1>1, <1>2, <1>3, <1>4, <1>5 DEF CellType, Cells, Sections
<1>7. \A s \in Sections : Alike(s, b[s], f[s], st)
  BY <1>1, <1>3, <1>4, AlikeReflexive DEF Sections
<1> QED BY <1>1, <1>6, <1>7 DEF b

\* What a start leaves of the file agrees with what it read.
LEMMA WrittenBackOnly ==
    ASSUME IsFile(disk), NEW st \in [Tables -> SUBSET Ids]
    PROVE  /\ IsFile(WrittenBack(st))
           /\ \A s \in Sections : Alike(s, disk[s], WrittenBack(st)[s], st)
<1> DEFINE b == WrittenBack(st)
<1>1. /\ DOMAIN b = Sections
      /\ b["secrets"] = Regen(disk["secrets"], Serialized)
      /\ b["decisions"] = Pruned(disk["decisions"], st)
      /\ \A s \in Sections \ {"secrets", "decisions"} : b[s] = disk[s]
  BY DEF WrittenBack, IsFile, Sections
<1>2. /\ disk["secrets"] \in [Ids -> Secrets(FileGens) \cup {Absent}]
      /\ disk["decisions"] \in [Tables -> [Ids -> Modes]]
  BY DEF IsFile, Sections, CellType
<1>3. /\ b["secrets"] \in CellType("secrets", FileGens)
      /\ Alike("secrets", disk["secrets"], b["secrets"], st)
  BY <1>1, <1>2, SerializedOnly, AlikeSymmetric DEF CellType
<1>4. /\ b["decisions"] \in CellType("decisions", FileGens)
      /\ Alike("decisions", disk["decisions"], b["decisions"], st)
  BY <1>1, <1>2, PrunedOnly, AlikeSymmetric DEF CellType
<1> HIDE DEF b
<1>5. \A s \in Sections : b[s] \in CellType(s, FileGens) /\ Alike(s, disk[s], b[s], st)
  BY <1>1, <1>3, <1>4, AlikeReflexive DEF IsFile
<1> QED BY <1>1, <1>5 DEF b, IsFile

LEMMA RestartKeeps ==
    ASSUME FileInv, Restart
    PROVE  FileInv'
<1>1. /\ static' \in [Tables -> SUBSET Ids]
      /\ mem' = Booted(disk, static')
      /\ disk' \in {disk, WrittenBack(static')}
      /\ lock' = Free
      /\ job' = [w \in Writers |-> Idle]
      /\ issued' = issued
  BY DEF Restart
<1>2. IsFile(disk) BY DEF FileInv, TypeOK
<1>3. /\ IsFile(disk')
      /\ \A s \in Sections : Alike(s, disk[s], disk'[s], static')
  BY <1>1, <1>2, WrittenBackOnly, AlikeReflexive
<1>4. /\ DOMAIN mem' = Cells
      /\ \A c \in Cells : mem'[c] \in CellType(c, MemGens)
      /\ \A s \in Sections : Alike(s, mem'[s], disk[s], static')
      /\ mem'["index"] = Index(disk["keys"])
  BY <1>1, <1>2, BootedOnly
<1>5. TypeOK'
  <2>1. IsJob(Idle) BY DEF IsJob, Idle
  <2>2. DOMAIN job' = Writers /\ \A w \in Writers : IsJob(job'[w]) BY <1>1, <2>1
  <2>3. IsFile(disk)' BY <1>3 DEF IsFile
  <2> QED BY <1>1, <1>4, <2>2, <2>3 DEF FileInv, TypeOK, IsJob
<1>6. WorkUnderLock' /\ AllToDo' /\ KeysWithIndex' /\ FileIsFresh' /\ PublishesTheFile'
  BY <1>1 DEF WorkUnderLock, AllToDo, KeysWithIndex, FileIsFresh, PublishesTheFile,
              Preparing, AboutToPublish, Idle
<1>7. MemoryIsPersisted'
  <2>1. ASSUME NEW c \in Cells
        PROVE  Alike(c, mem'[c], InFile(c)', static')
    <3>1. CASE c = "index"
      <4>1. "keys" \in Sections BY DEF Sections
      <4>2. Alike("keys", disk["keys"], disk'["keys"], static') => disk["keys"] = disk'["keys"]
        BY DEF Alike
      <4> QED BY <1>3, <1>4, <3>1, <4>1, <4>2, AlikeReflexive DEF InFile
    <3>2. CASE c # "index"
      <4>1. c \in Sections BY <3>2 DEF Cells
      <4> QED BY <1>3, <1>4, <3>2, <4>1, AlikeTransitive DEF InFile
    <3> QED BY <3>1, <3>2
  <2> QED BY <2>1 DEF MemoryIsPersisted
<1> QED BY <1>5, <1>6, <1>7 DEF FileInv

LEMMA FileInitHolds == Init => FileInv
<1> SUFFICES ASSUME Init PROVE FileInv OBVIOUS
<1>1. /\ static \in [Tables -> SUBSET Ids] /\ disk = Empty /\ mem = Booted(disk, static)
      /\ lock = Free /\ job = [w \in Writers |-> Idle] /\ issued = {}
  BY DEF Init
<1>2. IsFile(Empty)
  <2>1. /\ DOMAIN Empty = Sections
        /\ Empty["providers"] \in [Ids -> Entries]
        /\ Empty["secrets"] \in [Ids -> Secrets(FileGens) \cup {Absent}]
        /\ Empty["decisions"] \in [Tables -> [Ids -> Modes]]
        /\ Empty["keys"] \in [Keys -> KeyStates]
        /\ Empty["capture"] \in Captures
    BY CapturesAssumption DEF Empty, Sections, Entries, Modes, KeyStates
  <2> QED BY <2>1 DEF IsFile, Sections, CellType
<1>3. IsFile(disk) BY <1>1, <1>2 DEF IsFile
<1>4. /\ DOMAIN mem = Cells
      /\ \A c \in Cells : mem[c] \in CellType(c, MemGens)
      /\ \A s \in Sections : Alike(s, mem[s], disk[s], static)
      /\ mem["index"] = Index(disk["keys"])
  BY <1>1, <1>3, BootedOnly
<1>5. IsJob(Idle) BY DEF IsJob, Idle
<1>6. TypeOK BY <1>1, <1>3, <1>4, <1>5 DEF TypeOK
<1>7. WorkUnderLock /\ AllToDo /\ KeysWithIndex /\ FileIsFresh /\ PublishesTheFile
  BY <1>1 DEF WorkUnderLock, AllToDo, KeysWithIndex, FileIsFresh, PublishesTheFile,
              Preparing, AboutToPublish, Idle
<1>8. MemoryIsPersisted
  <2>1. \A c \in Cells : Alike(c, mem[c], InFile(c), static)
    BY <1>4, AlikeReflexive DEF InFile, Cells
  <2> QED BY <2>1 DEF MemoryIsPersisted
<1> QED BY <1>6, <1>7, <1>8 DEF FileInv

LEMMA StutterKeeps ==
    ASSUME FileInv, UNCHANGED vars
    PROVE  FileInv'
<1>1. TypeOK' BY DEF FileInv, TypeOK, IsJob, IsFile, vars
<1>2. WorkUnderLock' /\ AllToDo' /\ KeysWithIndex' /\ FileIsFresh'
  BY DEF FileInv, WorkUnderLock, AllToDo, KeysWithIndex, FileIsFresh, Preparing, vars
<1>3. PublishesTheFile' /\ MemoryIsPersisted'
  BY DEF FileInv, PublishesTheFile, MemoryIsPersisted, AboutToPublish, InFile, vars
<1> QED BY <1>1, <1>2, <1>3 DEF FileInv

LEMMA FileNextKeeps ==
    ASSUME "issue" \notin Ops, FileInv, [Next]_vars
    PROVE  FileInv'
<1>1. CASE Restart BY <1>1, RestartKeeps
<1>2. ASSUME NEW w \in Writers, WriterStep(w) PROVE FileInv'
  <2>1. CASE Upsert(w)      BY <2>1, UpsertKeeps
  <2>2. CASE Delete(w)      BY <2>2, DeleteKeeps
  <2>3. CASE SetDecision(w) BY <2>3, SetDecisionKeeps
  <2>4. CASE Reset(w)       BY <2>4, ResetKeeps
  <2>5. CASE SetCapture(w)  BY <2>5, SetCaptureKeeps
  <2>6. CASE ChangeKey(w)   BY <2>6, ChangeKeyKeeps
  <2>7. CASE Load(w)        BY <2>7, LoadKeeps
  <2>8. CASE Rename(w)      BY <2>8, RenameKeeps
  <2>9. CASE Abort(w)       BY <2>9, AbortKeeps
  <2>10. CASE Publish(w)    BY <2>10, PublishKeeps
  <2>11. ~IssueKey(w)       BY DEF IssueKey
  <2> QED BY <1>2, <2>1, <2>2, <2>3, <2>4, <2>5, <2>6, <2>7, <2>8, <2>9, <2>10, <2>11
          DEF WriterStep
<1>3. CASE UNCHANGED vars BY <1>3, StutterKeeps
<1> QED BY <1>1, <1>2, <1>3 DEF Next

LEMMA FileInvariant ==
    ASSUME "issue" \notin Ops
    PROVE  Spec => []FileInv
<1>1. Init => FileInv BY FileInitHolds
<1>2. FileInv /\ [Next]_vars => FileInv' BY FileNextKeeps
<1> QED BY <1>1, <1>2, PTL DEF Spec
-----------------------------------------------------------------------------
(* Theorems *)

\* The variables have their types, whatever the disk does and whenever the
\* process stops, when the writers of state.toml all take persist_lock.
THEOREM FileTypeCorrect ==
    ASSUME "issue" \notin Ops
    PROVE  Spec => []TypeOK
<1>1. FileInv => TypeOK BY DEF FileInv
<1> QED BY <1>1, FileInvariant, PTL

\* Persist first, then memory (CFG-4, CFG-5): a cell differs from its section
\* of the file only while the writer that renamed the file is about to publish
\* it.  The writers are all but ApiKeyStore::issue, which takes no lock.
THEOREM FileMemoryIsPersisted ==
    ASSUME "issue" \notin Ops
    PROVE  Spec => []MemoryIsPersisted
<1>1. FileInv => MemoryIsPersisted BY DEF FileInv
<1> QED BY <1>1, FileInvariant, PTL

\* When no writer is at work, every write that was answered is in the file.
THEOREM FileNoLostUpdate ==
    ASSUME "issue" \notin Ops
    PROVE  Spec => []NoLostUpdate
<1>1. FileInv => NoLostUpdate
  <2> SUFFICES ASSUME FileInv, Quiet
               PROVE  \A c \in Cells : Alike(c, mem[c], InFile(c), static)
    BY DEF NoLostUpdate
  <2>1. \A w \in Writers : job[w].pc # "renamed" BY DEF Quiet
  <2> QED BY <2>1, NothingPending
<1> QED BY <1>1, FileInvariant, PTL

LEMMA AlikeOnFewer ==
    ASSUME NEW c, NEW x, NEW y, NEW st, NEW fewer, Alike(c, x, y, st),
           \A t \in Tables : fewer[t] \subseteq st[t]
    PROVE  Alike(c, x, y, fewer)
<1>1. CASE c = "decisions" BY <1>1 DEF Alike
<1>2. CASE c # "decisions" BY <1>2 DEF Alike
<1> QED BY <1>1, <1>2

\* A start finds all of a write or nothing of it, and nothing that was there
\* before is lost (CFG-4); in particular a reset drops the override and the
\* decision together.
THEOREM FileRestartKeepsWholeWrites ==
    ASSUME "issue" \notin Ops
    PROVE  Spec => RestartKeepsWholeWrites
<1> DEFINE Whole ==
      \/ \A c \in Cells : Alike(c, mem'[c], mem[c], StillStatic)
      \/ \E w \in Writers :
           /\ job[w].pc = "renamed"
           /\ \A c \in Cells : Alike(c, mem'[c], After(w)[c], StillStatic)
<1>1. ASSUME FileInv, Restart PROVE Whole
  <2>1. static' \in [Tables -> SUBSET Ids] /\ mem' = Booted(disk, static')
    BY <1>1 DEF Restart
  <2>2. IsFile(disk) BY <1>1 DEF FileInv, TypeOK
  <2>3. ASSUME NEW c \in Cells PROVE Alike(c, mem'[c], InFile(c), StillStatic)
    <3>1. Alike(c, mem'[c], InFile(c), static')
      BY <2>1, <2>2, BootedOnly, AlikeReflexive DEF InFile, Cells
    <3>2. \A t \in Tables : StillStatic[t] \subseteq static'[t] BY DEF StillStatic
    <3> QED BY <3>1, <3>2, AlikeOnFewer
  <2>4. \A t \in Tables : StillStatic[t] \subseteq static[t] BY DEF StillStatic
  <2>5. CASE \A w \in Writers : job[w].pc # "renamed"
    <3>1. ASSUME NEW c \in Cells PROVE Alike(c, mem'[c], mem[c], StillStatic)
      <4>1. Alike(c, InFile(c), mem[c], StillStatic)
        BY <1>1, <2>4, <2>5, NothingPending, AlikeSymmetric, AlikeOnFewer
      <4> QED BY <2>3, <4>1, AlikeTransitive
    <3> QED BY <3>1
  <2>6. ASSUME NEW w \in Writers, job[w].pc = "renamed" PROVE Whole
    <3>1. ASSUME NEW c \in Cells PROVE Alike(c, After(w)[c], InFile(c), static)
      <4>1. CASE c \in DOMAIN job[w].new
        BY <1>1, <2>6, <4>1 DEF After, FileInv, PublishesTheFile
      <4>2. CASE c \notin DOMAIN job[w].new
        <5>1. \A v \in Writers : ~AboutToPublish(v, c)
          BY <1>1, <2>6, <4>2, OneAtWork DEF AboutToPublish, FileInv, TypeOK, IsJob
        <5> QED BY <1>1, <4>2, <5>1 DEF After, FileInv, MemoryIsPersisted
      <4> QED BY <4>1, <4>2
    <3>2. ASSUME NEW c \in Cells PROVE Alike(c, mem'[c], After(w)[c], StillStatic)
      <4>1. Alike(c, InFile(c), After(w)[c], StillStatic)
        BY <2>4, <3>1, AlikeSymmetric, AlikeOnFewer
      <4> QED BY <2>3, <4>1, AlikeTransitive
    <3> QED BY <2>6, <3>2
  <2> QED BY <2>5, <2>6
<1>2. FileInv /\ [Next]_vars => [Restart => Whole]_vars BY <1>1
<1> QED BY <1>2, FileInvariant, PTL DEF Spec, RestartKeepsWholeWrites
-----------------------------------------------------------------------------
(* Decisions *)

\* Every copy of the decisions speaks of static ids only; the file and what was
\* loaded from it do so when pruning can write.
OnStatics(decisions) ==
    \A t \in Tables : \A id \in Ids \ static[t] : decisions[t][id] = "default"

DecisionsInv ==
    /\ OnStatics(mem["decisions"])
    /\ \A w \in Writers :
         "decisions" \in DOMAIN job[w].new => OnStatics(job[w].new["decisions"])
    /\ ~DiskFails =>
         /\ OnStatics(disk["decisions"])
         /\ \A w \in Writers :
              job[w].pc = "loaded" => OnStatics(job[w].file["decisions"])

LEMMA StartKeepsDecisions ==
    ASSUME FileInv, DecisionsInv, NEW w \in Writers, NEW todo, NEW new,
           Start(w, todo, new), UNCHANGED <<mem, disk, static, issued>>,
           "decisions" \in DOMAIN new => OnStatics(new["decisions"])
    PROVE  DecisionsInv'
<1>1. \A v \in Writers : job'[v] =
        IF v = w THEN [pc |-> "computed", todo |-> todo, new |-> new, file |-> Absent]
                 ELSE job[v]
  BY DEF Start, FileInv, TypeOK
<1> QED BY <1>1 DEF DecisionsInv, OnStatics

LEMMA NextDecisions ==
    ASSUME "issue" \notin Ops, FileInv, DecisionsInv, [Next]_vars
    PROVE  DecisionsInv'
<1>1. ASSUME Restart PROVE DecisionsInv'
  <2>1. /\ mem' = Booted(disk, static') /\ job' = [w \in Writers |-> Idle]
        /\ ~DiskFails => disk' = IF Pruned(disk.decisions, static') = disk.decisions
                                   THEN disk ELSE WrittenBack(static')
    BY <1>1 DEF Restart
  <2>2. \A t \in Tables : \A id \in Ids \ static'[t] :
          Pruned(disk["decisions"], static')[t][id] = "default"
    BY DEF Pruned
  <2>3. OnStatics(mem["decisions"])' BY <2>1, <2>2 DEF OnStatics, Booted
  <2>4. WrittenBack(static')["decisions"] = Pruned(disk["decisions"], static')
    BY DEF WrittenBack, FileInv, TypeOK, IsFile, Sections
  <2>5. ~DiskFails => OnStatics(disk["decisions"])' BY <2>1, <2>2, <2>4 DEF OnStatics
  <2>6. \A w \in Writers : job'[w].pc = "idle" /\ DOMAIN job'[w].new = {}
    BY <2>1 DEF Idle
  <2> QED BY <2>3, <2>5, <2>6 DEF DecisionsInv
<1>2. ASSUME NEW w \in Writers, NEW t, NEW id, NEW x, t \in Tables,
             Change(w, t, id, x)
      PROVE  DecisionsInv'
  BY <1>2, StartKeepsDecisions DEF Change, Tables
<1>3. ASSUME NEW w \in Writers, Upsert(w) PROVE DecisionsInv'
  BY <1>2, <1>3 DEF Upsert, Tables
<1>4. ASSUME NEW w \in Writers, Delete(w) PROVE DecisionsInv'
  BY <1>2, <1>4 DEF Delete
<1>5. ASSUME NEW t \in Tables, NEW id \in static[t], NEW mode
      PROVE  OnStatics(Decided(t, id, mode))
  BY DEF DecisionsInv, OnStatics, Decided, FileInv, TypeOK, Cells, Sections, CellType
<1>6. ASSUME NEW w \in Writers, SetDecision(w) PROVE DecisionsInv'
  <2>1. PICK t \in Tables, mode \in Modes : \E id \in static[t] :
          Start(w, <<"decisions">>, [c \in {"decisions"} |-> Decided(t, id, mode)])
    BY <1>6 DEF SetDecision
  <2> QED BY <1>5, <1>6, <2>1, StartKeepsDecisions DEF SetDecision
<1>7. ASSUME NEW w \in Writers, Reset(w) PROVE DecisionsInv'
  <2>1. PICK t \in Tables : \E id \in static[t] :
          Start(w, <<t, "decisions">>,
                [c \in {t, "decisions"} |-> IF c = t THEN [mem[t] EXCEPT ![id] = Absent]
                                            ELSE Decided(t, id, "default")])
    BY <1>7 DEF Reset
  <2>2. t # "decisions" BY DEF Tables
  <2> QED BY <1>5, <1>7, <2>1, <2>2, StartKeepsDecisions DEF Reset
<1>8. ASSUME NEW w \in Writers, SetCapture(w) PROVE DecisionsInv'
  BY <1>8, StartKeepsDecisions DEF SetCapture
<1>9. ASSUME NEW w \in Writers, ChangeKey(w) PROVE DecisionsInv'
  <2>1. \A keys : DOMAIN KeyCells(keys) = {"index", "keys"} BY DEF KeyCells
  <2> QED BY <1>9, <2>1, StartKeepsDecisions DEF ChangeKey
<1>10. ASSUME NEW w \in Writers, Load(w) PROVE DecisionsInv'
  <2>1. \A v \in Writers : job'[v].new = job[v].new
    BY <1>10 DEF Load, FileInv, TypeOK, IsJob
  <2>2. \A v \in Writers : job'[v].pc = "loaded" =>
          job'[v].file["decisions"] \in {disk["decisions"], job[v].file["decisions"]}
          /\ (v # w => job[v].pc = "loaded")
          /\ (v = w => job'[v].file["decisions"] = disk["decisions"])
    BY <1>10 DEF Load, FileInv, TypeOK, IsJob, IsFile, Sections
  <2>3. mem' = mem /\ disk' = disk /\ static' = static BY <1>10 DEF Load
  <2>4. \A v \in Writers :
          "decisions" \in DOMAIN job'[v].new => OnStatics(job'[v].new["decisions"])
    BY <2>1 DEF DecisionsInv
  <2>5. ~DiskFails => \A v \in Writers :
          job'[v].pc = "loaded" => OnStatics(job'[v].file["decisions"])
    BY <2>2 DEF DecisionsInv
  <2> QED BY <2>3, <2>4, <2>5 DEF DecisionsInv, OnStatics
<1>11. ASSUME NEW w \in Writers, Rename(w) PROVE DecisionsInv'
  <2>1. \A v \in Writers : job'[v].new = job[v].new
    BY <1>11 DEF Rename, FileInv, TypeOK, IsJob
  <2>2. \A v \in Writers : job'[v].pc # "loaded"
    <3>1. \A v \in Writers : v # w => job[v].pc = "idle"
      BY <1>11, OneAtWork DEF Rename
    <3> QED BY <1>11, <3>1 DEF Rename, FileInv, TypeOK, IsJob
  <2>3. ~DiskFails => OnStatics(disk'["decisions"])
    <3>1. disk'["decisions"] = IF "decisions" \in DOMAIN job[w].new
            THEN job[w].new["decisions"] ELSE job[w].file["decisions"]
      BY <1>11 DEF Rename, Written, Sections, Persisted
    <3> QED BY <1>11, <3>1 DEF Rename, DecisionsInv
  <2>4. mem' = mem /\ static' = static BY <1>11 DEF Rename
  <2>5. \A v \in Writers :
          "decisions" \in DOMAIN job'[v].new => OnStatics(job'[v].new["decisions"])
    BY <2>1 DEF DecisionsInv
  <2> QED BY <2>2, <2>3, <2>4, <2>5 DEF DecisionsInv, OnStatics
<1>12. ASSUME NEW w \in Writers, Abort(w) PROVE DecisionsInv'
  <2>1. \A v \in Writers : job'[v] = IF v = w THEN Idle ELSE job[v]
    BY <1>12 DEF Abort, FileInv, TypeOK
  <2>2. Idle.pc = "idle" /\ DOMAIN Idle.new = {} BY DEF Idle
  <2> QED BY <1>12, <2>1, <2>2 DEF Abort, DecisionsInv, OnStatics
<1>13. ASSUME NEW w \in Writers, Publish(w) PROVE DecisionsInv'
  <2> DEFINE h == Head(job[w].todo)
  <2>1. \A v \in Writers : job'[v].new = job[v].new \/ job'[v] = Idle
    <3>1. \/ job' = [job EXCEPT ![w] = Idle]
          \/ job' = [job EXCEPT ![w].todo = Tail(@)]
      BY <1>13 DEF Publish
    <3>2. DOMAIN job = Writers /\ DOMAIN job[w] = {"pc", "todo", "new", "file"}
      BY DEF FileInv, TypeOK, IsJob
    <3> QED BY <3>1, <3>2
  <2>2. \A v \in Writers : job'[v].pc # "loaded"
    <3>1. \A v \in Writers : v # w => job[v].pc = "idle"
      BY <1>13, OneAtWork DEF Publish
    <3> QED BY <1>13, <3>1 DEF Publish, FileInv, TypeOK, IsJob, Idle
  <2>3. mem'["decisions"] = mem["decisions"]
        \/ ("decisions" \in DOMAIN job[w].new /\ mem'["decisions"] = job[w].new["decisions"])
    <3>1. h \in DOMAIN job[w].new
      BY <1>13, TailFacts DEF Publish, FileInv, TypeOK, IsJob
    <3> QED BY <1>13, <3>1 DEF Publish, FileInv, TypeOK, Cells, Sections
  <2>4. Idle.pc = "idle" /\ DOMAIN Idle.new = {} BY DEF Idle
  <2> QED BY <1>13, <2>1, <2>2, <2>3, <2>4 DEF Publish, DecisionsInv, OnStatics
<1>14. ASSUME UNCHANGED vars PROVE DecisionsInv'
  BY <1>14 DEF vars, DecisionsInv, OnStatics
<1>15. \A w \in Writers : ~IssueKey(w) BY DEF IssueKey
<1> QED BY <1>1, <1>3, <1>4, <1>6, <1>7, <1>8, <1>9, <1>10, <1>11, <1>12, <1>13, <1>14, <1>15
        DEF Next, WriterStep

LEMMA InitDecisions == Init => DecisionsInv
BY DEF Init, DecisionsInv, OnStatics, Booted, Pruned, Empty, Idle

\* A decision counts for ids of the static configuration only, through every
\* edit, failed write and restart with another configuration (CFG-6).
THEOREM FileDecisionsAreOnStatics ==
    ASSUME "issue" \notin Ops
    PROVE  Spec => []DecisionsAreOnStatics
<1>1. Init => DecisionsInv BY InitDecisions
<1>2. FileInv /\ DecisionsInv /\ [Next]_vars => DecisionsInv' BY NextDecisions
<1>3. DecisionsInv => DecisionsAreOnStatics
  BY DEF DecisionsInv, DecisionsAreOnStatics, OnStatics
<1> QED BY <1>1, <1>2, <1>3, FileInvariant, PTL DEF Spec

\* An id that comes back into the static configuration starts with no decision,
\* when the files can be written: pruning has reached the file before (CFG-6).
THEOREM FileRevivedIdStartsClean ==
    ASSUME "issue" \notin Ops, ~DiskFails
    PROVE  Spec => RevivedIdStartsClean
<1> DEFINE Clean == \A t \in Tables : \A id \in static'[t] \ static[t] :
                        mem'.decisions[t][id] = "default"
<1>1. Init => DecisionsInv BY InitDecisions
<1>2. FileInv /\ DecisionsInv /\ [Next]_vars => DecisionsInv' BY NextDecisions
<1>3. ASSUME FileInv, DecisionsInv, Restart PROVE Clean
  <2>1. static' \in [Tables -> SUBSET Ids] /\ mem'.decisions = Pruned(disk.decisions, static')
    BY <1>3 DEF Restart, Booted
  <2>2. \A t \in Tables : \A id \in Ids \ static[t] : disk.decisions[t][id] = "default"
    BY <1>3 DEF DecisionsInv, OnStatics
  <2> QED BY <2>1, <2>2 DEF Pruned
<1>4. FileInv /\ DecisionsInv /\ [Next]_vars => [Restart => Clean]_vars BY <1>3
<1> QED BY <1>1, <1>2, <1>4, FileInvariant, PTL DEF Spec, RevivedIdStartsClean
=============================================================================

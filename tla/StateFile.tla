------------------------------ MODULE StateFile ------------------------------
(***************************************************************************)
(* The dynamic state of secret-guard: the sections of state.toml, their    *)
(* copies in memory, and the writers that keep the two together            *)
(* (DynamicTable in src/config/mod.rs, ApiKeyStore in src/auth/apikey.rs,  *)
(* AuditCapture and PrivacyScanGroups in src/state.rs).                    *)
(*                                                                         *)
(* Every writer does the same thing: compute the new content of its cells  *)
(* from memory, load the whole file, replace its own sections, write the   *)
(* file to a temporary name, rename it, then publish the cells in memory,  *)
(* one after the other.  Nearly every writer holds persist_lock meanwhile. *)
(* A crash may come between any two of these steps; a restart loads the    *)
(* file and may find another static configuration beside it.               *)
(***************************************************************************)
EXTENDS Naturals, Sequences

CONSTANTS
    Ids,        \* ids of entries, the same pool for both tables
    Values,     \* what an entry may hold
    Keys,       \* API keys that may ever be issued
    Captures,   \* capture modes, for the scalar sections
    Absent,     \* no entry
    Writers,    \* concurrent handlers
    Ops,        \* the kinds of operation in use
    DiskFails,  \* whether a load or a write of the file may fail
    Restarts    \* whether the process may crash and start again

ASSUME SwitchAssumption == DiskFails \in BOOLEAN /\ Restarts \in BOOLEAN
ASSUME CapturesAssumption == Captures # {}

VARIABLES
    mem,        \* the cells in memory
    disk,       \* the sections of state.toml
    static,     \* per table, the ids of the static configuration
    lock,       \* the writer that holds persist_lock, or Free
    job,        \* per writer: what it is about to write, and how far it is
    issued      \* keys issued so far: a key is random and never issued twice

vars == <<mem, disk, static, lock, job, issued>>

Tables == {"providers", "secrets"}
Free == Absent
Modes == {"default", "prefer_static", "disabled"}
KeyStates == {"none", "enabled", "disabled"}

(***************************************************************************)
(* An entry of the secrets table carries the generator of its mock value:  *)
(* in memory it was inferred or given by the user; in the file it is       *)
(* there or it is not.  Provider entries have no such run-time state.      *)
(***************************************************************************)
MemGens == {"inferred", "user"}
FileGens == {"none", "spec"}
Secrets(gens) == [val : Values, gen : gens]

\* No entry is not an entry, and a free lock is held by nobody.
ASSUME AbsentAssumption ==
    Absent \notin Values \cup Secrets(MemGens \cup FileGens) \cup Writers

Sections == {"providers", "secrets", "decisions", "keys", "capture"}
Cells == Sections \cup {"index"}

Regen(secrets, Gen(_)) ==
    [id \in Ids |-> IF secrets[id] = Absent THEN Absent
                    ELSE [secrets[id] EXCEPT !.gen = Gen(secrets[id].gen)]]

\* strip_runtime_state: what was inferred is left out of the file.
Strip(gen) == IF gen = "inferred" THEN "none" ELSE "spec"
\* A generator read from the file counts as the user's; a missing one is inferred.
Read(gen) == IF gen = "none" THEN "inferred" ELSE "user"
\* to_toml writes a generator whether it was inferred or not.
Serialized(gen) == "spec"

\* The form a cell takes in the file when its own writer puts it there.
Persisted(c, content) == IF c = "secrets" THEN Regen(content, Strip) ELSE content

\* The index of enabled keys that lookup reads.
Index(keys) == {k \in Keys : keys[k] = "enabled"}

(***************************************************************************)
(* prune_dangling_decisions: a decision counts only for an id that the     *)
(* static configuration has.                                               *)
(***************************************************************************)
\* Variant: no pruning.
PrunedNot(decisions, st) == decisions

Pruned(decisions, st) ==
    [t \in Tables |-> [id \in Ids |->
        IF id \in st[t] THEN decisions[t][id] ELSE "default"]]

\* What a start makes of the file.
Booted(file, st) ==
    [providers |-> file.providers,
     secrets   |-> Regen(file.secrets, Read),
     decisions |-> Pruned(file.decisions, st),
     keys      |-> file.keys,
     index     |-> Index(file.keys),
     capture   |-> file.capture]

Empty ==
    [providers |-> [id \in Ids |-> Absent],
     secrets   |-> [id \in Ids |-> Absent],
     decisions |-> [t \in Tables |-> [id \in Ids |-> "default"]],
     keys      |-> [k \in Keys |-> "none"],
     capture   |-> CHOOSE m \in Captures : TRUE]

Idle == [pc |-> "idle", todo |-> <<>>, new |-> <<>>, file |-> Absent]

Init ==
    /\ disk = Empty
    /\ static \in [Tables -> SUBSET Ids]
    /\ mem = Booted(Empty, static)
    /\ lock = Free
    /\ job = [w \in Writers |-> Idle]
    /\ issued = {}
-----------------------------------------------------------------------------
(* The writers *)

\* Take the lock and compute the new content of the cells from memory.
Start(w, todo, new) ==
    /\ job[w].pc = "idle" /\ lock = Free
    /\ lock' = w
    /\ job' = [job EXCEPT ![w] = [pc |-> "computed", todo |-> todo, new |-> new, file |-> Absent]]

Change(w, t, id, entry) ==
    /\ Start(w, <<t>>, [c \in {t} |-> [mem[t] EXCEPT ![id] = entry]])
    /\ UNCHANGED <<mem, disk, static, issued>>

\* upsert_dynamic; the web handler has resolved a secret before.
Upsert(w) ==
    /\ "upsert" \in Ops
    /\ \E id \in Ids :
         \/ \E v \in Values : Change(w, "providers", id, v)
         \/ \E s \in Secrets(MemGens) : Change(w, "secrets", id, s)

\* delete_dynamic; an id without a dynamic entry returns at once.
Delete(w) ==
    /\ "delete" \in Ops
    /\ \E t \in Tables, id \in Ids : mem[t][id] # Absent /\ Change(w, t, id, Absent)

Decided(t, id, mode) == [mem.decisions EXCEPT ![t][id] = mode]

\* set_decision; the handler lets it through for static ids only.
SetDecision(w) ==
    /\ "decide" \in Ops
    /\ \E t \in Tables, mode \in Modes : \E id \in static[t] :
         Start(w, <<"decisions">>, [c \in {"decisions"} |-> Decided(t, id, mode)])
    /\ UNCHANGED <<mem, disk, static, issued>>

\* reset_dynamic: one write of the file for both sections.
Reset(w) ==
    /\ "reset" \in Ops
    /\ \E t \in Tables : \E id \in static[t] :
         Start(w, <<t, "decisions">>,
               [c \in {t, "decisions"} |-> IF c = t THEN [mem[t] EXCEPT ![id] = Absent]
                                           ELSE Decided(t, id, "default")])
    /\ UNCHANGED <<mem, disk, static, issued>>

\* AuditCapture::set_mode; PrivacyScanGroups::set_groups is its twin.
SetCapture(w) ==
    /\ "capture" \in Ops
    /\ \E m \in Captures : Start(w, <<"capture">>, [c \in {"capture"} |-> m])
    /\ UNCHANGED <<mem, disk, static, issued>>

KeyCells(keys) == [c \in {"index", "keys"} |-> IF c = "keys" THEN keys ELSE Index(keys)]

\* revoke and set_disabled.
ChangeKey(w) ==
    /\ "keys" \in Ops
    /\ \E k \in Keys, s \in KeyStates :
         /\ mem.keys[k] # "none"
         /\ Start(w, <<"index", "keys">>, KeyCells([mem.keys EXCEPT ![k] = s]))
    /\ UNCHANGED <<mem, disk, static, issued>>

\* issue: like the others, but the lock is not taken.
IssueKey(w) ==
    /\ "issue" \in Ops
    /\ job[w].pc = "idle"
    /\ \E k \in Keys \ issued :
         /\ issued' = issued \cup {k}
         /\ job' = [job EXCEPT ![w] =
                      [pc |-> "computed", todo |-> <<"index", "keys">>,
                       new |-> KeyCells([mem.keys EXCEPT ![k] = "enabled"]), file |-> Absent]]
    /\ UNCHANGED <<mem, disk, static, lock>>

\* load_or_empty: every secret of the file is resolved on the way.
Load(w) ==
    /\ job[w].pc = "computed"
    /\ job' = [job EXCEPT ![w].pc = "loaded",
                          ![w].file = [disk EXCEPT !.secrets = Regen(disk.secrets, Serialized)]]
    /\ UNCHANGED <<mem, disk, static, lock, issued>>

\* Variant: only the first section of a write reaches the file.
WrittenInPart(j) ==
    [s \in Sections |-> IF s = Head(j.todo) THEN Persisted(s, j.new[s]) ELSE j.file[s]]

\* The text of the file to write.
Written(j) ==
    [s \in Sections |-> IF s \in DOMAIN j.new THEN Persisted(s, j.new[s]) ELSE j.file[s]]

\* atomic_write: the temporary file has a name of its own; the rename is the
\* moment of the change.
Rename(w) ==
    /\ job[w].pc = "loaded"
    /\ disk' = Written(job[w])
    /\ job' = [job EXCEPT ![w].pc = "renamed", ![w].file = Absent]
    /\ UNCHANGED <<mem, static, lock, issued>>

Unlocked(w) == IF lock = w THEN Free ELSE lock

\* Variant: memory is changed although the file is not.
AbortPublishing(w) ==
    /\ DiskFails /\ job[w].pc \in {"computed", "loaded"}
    /\ mem' = [mem EXCEPT ![Head(job[w].todo)] = job[w].new[Head(job[w].todo)]]
    /\ job' = [job EXCEPT ![w] = Idle]
    /\ lock' = Unlocked(w)
    /\ UNCHANGED <<disk, static, issued>>

\* The load or the write fails: the handler answers 500 and nothing has changed.
Abort(w) ==
    /\ DiskFails /\ job[w].pc \in {"computed", "loaded"}
    /\ job' = [job EXCEPT ![w] = Idle]
    /\ lock' = Unlocked(w)
    /\ UNCHANGED <<mem, disk, static, issued>>

\* Memory follows, cell by cell; after the last one the lock is dropped.
Publish(w) ==
    /\ job[w].pc = "renamed"
    /\ LET c == Head(job[w].todo) IN mem' = [mem EXCEPT ![c] = job[w].new[c]]
    /\ IF Len(job[w].todo) = 1
         THEN job' = [job EXCEPT ![w] = Idle] /\ lock' = Unlocked(w)
         ELSE job' = [job EXCEPT ![w].todo = Tail(@)] /\ lock' = lock
    /\ UNCHANGED <<disk, static, issued>>
-----------------------------------------------------------------------------
(***************************************************************************)
(* A crash at any point, and the next start, possibly with another static  *)
(* configuration.  When decisions were pruned the whole loaded state is    *)
(* written back; a failure of that write is only logged.                   *)
(***************************************************************************)
WrittenBack(st) ==
    [disk EXCEPT !.secrets = Regen(disk.secrets, Serialized),
                 !.decisions = Pruned(disk.decisions, st)]

Restart ==
    /\ Restarts
    /\ static' \in [Tables -> SUBSET Ids]
    /\ mem' = Booted(disk, static')
    /\ \/ disk' = IF Pruned(disk.decisions, static') = disk.decisions
                    THEN disk ELSE WrittenBack(static')
       \/ DiskFails /\ disk' = disk
    /\ lock' = Free
    /\ job' = [w \in Writers |-> Idle]
    /\ UNCHANGED issued

WriterStep(w) ==
    \/ Upsert(w) \/ Delete(w) \/ SetDecision(w) \/ Reset(w)
    \/ SetCapture(w) \/ ChangeKey(w) \/ IssueKey(w)
    \/ Load(w) \/ Rename(w) \/ Abort(w) \/ Publish(w)

Next == Restart \/ \E w \in Writers : WriterStep(w)

Spec == Init /\ [][Next]_vars
-----------------------------------------------------------------------------
(* Types *)

Entries == Values \cup {Absent}
CellType(c, gens) ==
    CASE c = "providers" -> [Ids -> Entries]
      [] c = "secrets"   -> [Ids -> Secrets(gens) \cup {Absent}]
      [] c = "decisions" -> [Tables -> [Ids -> Modes]]
      [] c = "keys"      -> [Keys -> KeyStates]
      [] c = "index"     -> SUBSET Keys
      [] OTHER           -> Captures

IsFile(f) ==
    /\ DOMAIN f = Sections
    /\ \A s \in Sections : f[s] \in CellType(s, FileGens)

IsJob(j) ==
    /\ DOMAIN j = {"pc", "todo", "new", "file"}
    /\ j.pc \in {"idle", "computed", "loaded", "renamed"}
    /\ j.todo \in Seq(DOMAIN j.new)
    /\ j.pc # "idle" => j.todo # <<>>
    /\ \A c \in DOMAIN j.new : c \in Cells /\ j.new[c] \in CellType(c, MemGens)
    /\ j.pc = "loaded" => IsFile(j.file)

TypeOK ==
    /\ DOMAIN mem = Cells /\ \A c \in Cells : mem[c] \in CellType(c, MemGens)
    /\ IsFile(disk)
    /\ static \in [Tables -> SUBSET Ids]
    /\ lock \in Writers \cup {Free}
    /\ DOMAIN job = Writers /\ \A w \in Writers : IsJob(job[w])
    /\ issued \subseteq Keys
-----------------------------------------------------------------------------
(* Safety *)

\* A cell in memory says what its section says.  The generator of a secret is
\* left aside here, and so is a decision on an id that is not static: it stays
\* in the file when pruning could not write.
SameEntry(m, f) == IF m = Absent \/ f = Absent THEN m = f ELSE m.val = f.val

Alike(c, x, y, st) ==
    CASE c = "secrets"   -> \A id \in Ids : SameEntry(x[id], y[id])
      [] c = "decisions" -> \A t \in Tables : \A id \in st[t] : x[t][id] = y[t][id]
      [] OTHER           -> x = y

InFile(c) == IF c = "index" THEN Index(disk.keys) ELSE disk[c]

AboutToPublish(w, c) ==
    job[w].pc = "renamed" /\ \E i \in DOMAIN job[w].todo : job[w].todo[i] = c

\* Persist first, then memory (CFG-4): a cell differs from its section only
\* while the one writer that renamed the file has not published it yet.  So no
\* writer has put back an old copy of another writer's section (CFG-5), and no
\* failure has left memory ahead of the file.
MemoryIsPersisted ==
    \A c \in Cells : \/ Alike(c, mem[c], InFile(c), static)
                     \/ \E w \in Writers : AboutToPublish(w, c)

\* A start finds all of a write or nothing of it, and all that was there
\* before: the override and the decision that a reset drops go together, and a
\* change that was answered is not forgotten (CFG-4).
After(w) == [c \in Cells |-> IF c \in DOMAIN job[w].new THEN job[w].new[c] ELSE mem[c]]

StillStatic == [t \in Tables |-> static[t] \cap static'[t]]

RestartKeepsWholeWrites ==
    [][Restart =>
         \/ \A c \in Cells : Alike(c, mem'[c], mem[c], StillStatic)
         \/ \E w \in Writers :
              /\ job[w].pc = "renamed"
              /\ \A c \in Cells : Alike(c, mem'[c], After(w)[c], StillStatic)]_vars

\* A static id that comes back into the configuration does not find the
\* decision of its former life (CFG-6), when the files can be written.
RevivedIdStartsClean ==
    [][Restart => \A t \in Tables : \A id \in static'[t] \ static[t] :
         mem'.decisions[t][id] = "default"]_vars

\* Decisions apply to static ids only, in memory and whatever was restarted.
DecisionsAreOnStatics ==
    \A t \in Tables : \A id \in Ids \ static[t] : mem.decisions[t][id] = "default"

\* The file holds what the user declared: a generator that was inferred is not
\* written, so that every start infers it anew (doc of gen_inferred in
\* src/mock.rs and of strip_runtime_state in src/config/mod.rs).
Quiet == \A w \in Writers : job[w].pc = "idle"

InferredIsNotPersisted ==
    Quiet => \A id \in Ids :
        mem.secrets[id] # Absent /\ mem.secrets[id].gen = "inferred" =>
            disk.secrets[id].gen = "none"

\* Every writer of the file is serialized with the others (doc of ApiKeyStore in
\* src/auth/apikey.rs): a write that was answered is in the file.
NoLostUpdate == Quiet => \A c \in Cells : Alike(c, mem[c], InFile(c), static)
=============================================================================

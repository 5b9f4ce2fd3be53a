---------------------------- MODULE ConfigReload ----------------------------
(***************************************************************************)
(* The database-backed configuration (internal/config/store.go), how pods  *)
(* start from it and poll it (cmd/gateway/main.go) and how administrators  *)
(* edit it (internal/ui/handlers.go).                                      *)
(*                                                                         *)
(* Each SQL statement or transaction is a step.  A provider's row is its   *)
(* entry, a model's row the provider it names.  An entry is good, or it    *)
(* passes the checks of the admin API and buildProvider refuses it (an     *)
(* unknown type, no key, no endpoint).  No name here is one of             *)
(* CircuitBreaker, so that one module can extend both.                     *)
(***************************************************************************)
EXTENDS Integers, FiniteSets

CONSTANTS
    Pods,           \* gateway instances
    Providers,      \* provider names
    Models,         \* model names
    GoodEntries,    \* provider entries that buildProvider accepts
    BadEntry,       \* one that it refuses
    SeedProviders,  \* the file GATEWAY_CONFIG names: provider -> entry
    SeedModels,     \*                                model -> provider
    Versions,       \* the embedded schema migrations, 1 .. n
    MaxEdits,       \* bound: admin requests
    MaxCrashes      \* bound: pods that die or are redeployed

Absent == "absent"
NoPod == "nobody"

ASSUME ConstantsAssumption ==
    /\ NoPod \notin Pods
    /\ BadEntry \notin GoodEntries
    /\ Absent \notin GoodEntries \cup {BadEntry} \cup Providers
    /\ SeedProviders \in [Providers -> GoodEntries \cup {Absent}]
    /\ SeedModels \in [Models -> Providers \cup {Absent}]
    /\ \E n \in Providers : SeedProviders[n] # Absent
    /\ \A m \in Models : SeedModels[m] # Absent => SeedProviders[SeedModels[m]] # Absent
    /\ {MaxEdits, MaxCrashes} \subseteq Nat

VARIABLES
    applied,    \* rows of config_schema_migrations
    provRows,   \* table providers
    modelRows,  \* table models
    lock,       \* who holds providers in SHARE ROW EXCLUSIVE mode
    pc,         \* where a pod is in loadConfig, or in its polling goroutine
    todo,       \* the migrations a starting pod has found missing
    provRead,   \* what a pod's ListProviders returned
    regProv,    \* the pod's registry: providers
    regModel,   \* and models
    edits, crashes

configVars == <<applied, provRows, modelRows, lock, pc, todo, provRead, regProv,
          regModel, edits, crashes>>

tables == <<provRows, modelRows>>
podRegistry == <<regProv, regModel>>
bounds == <<edits, crashes>>

NoProviders == [n \in Providers |-> Absent]
NoModels == [m \in Models |-> Absent]

Starting == {"migrate", "apply", "check", "lock", "locked", "seed", "list", "models"}
Serving == {"running", "polled"}

\* All pods of a new deployment start on an empty database.
ConfigInit ==
    /\ applied = {}
    /\ provRows = NoProviders
    /\ modelRows = NoModels
    /\ lock = NoPod
    /\ pc = [p \in Pods |-> "migrate"]
    /\ todo = [p \in Pods |-> {}]
    /\ provRead = [p \in Pods |-> NoProviders]
    /\ regProv = [p \in Pods |-> NoProviders]
    /\ regModel = [p \in Pods |-> NoModels]
    /\ edits = 0
    /\ crashes = 0

Goto(p, l) == pc' = [pc EXCEPT ![p] = l]

\* log.Fatalf or os.Exit: nothing of the process is left.
Exit(p) ==
    /\ Goto(p, "down")
    /\ todo' = [todo EXCEPT ![p] = {}]
    /\ provRead' = [provRead EXCEPT ![p] = NoProviders]
    /\ regProv' = [regProv EXCEPT ![p] = NoProviders]
    /\ regModel' = [regModel EXCEPT ![p] = NoModels]

Local == <<todo, provRead, podRegistry>>

----------------------------------------------------------------------------
(* Migrate, without a lock                                                 *)

ReadApplied(p) ==
    /\ pc[p] = "migrate"
    /\ todo' = [todo EXCEPT ![p] = Versions \ applied]
    /\ Goto(p, "apply")
    /\ UNCHANGED <<applied, tables, lock, provRead, podRegistry, bounds>>

\* The versions are applied in order, each in a transaction with its row.
Pending(p) == CHOOSE v \in todo[p] : \A w \in todo[p] : v <= w

ApplyMigration(p) ==
    /\ pc[p] = "apply"
    /\ todo[p] # {}
    /\ Pending(p) \notin applied
    /\ applied' = applied \cup {Pending(p)}
    /\ todo' = [todo EXCEPT ![p] = @ \ {Pending(p)}]
    /\ UNCHANGED <<tables, lock, pc, provRead, podRegistry, bounds>>

\* Another pod has applied the version since: the primary key refuses the row
\* and the start fails.
ApplyRefused(p) ==
    /\ pc[p] = "apply"
    /\ todo[p] # {}
    /\ Pending(p) \in applied
    /\ Exit(p)
    /\ UNCHANGED <<applied, tables, lock, bounds>>

Migrated(p) ==
    /\ pc[p] = "apply"
    /\ todo[p] = {}
    /\ Goto(p, "check")
    /\ UNCHANGED <<applied, tables, lock, Local, bounds>>

----------------------------------------------------------------------------
(* IsSeeded and SeedIfEmpty                                                *)

IsSeeded(p) ==
    /\ pc[p] = "check"
    /\ Goto(p, IF provRows # NoProviders THEN "list" ELSE "lock")
    /\ UNCHANGED <<applied, tables, lock, Local, bounds>>

\* LOCK TABLE waits for another seeding pod.
LockProviders(p) ==
    /\ pc[p] = "lock"
    /\ lock = NoPod
    /\ lock' = p
    /\ Goto(p, "locked")
    /\ UNCHANGED <<applied, tables, Local, bounds>>

\* Faulty variant: IsSeeded has looked already.
CheckUnderLockSkipped(p) ==
    /\ pc[p] = "locked"
    /\ Goto(p, "seed")
    /\ UNCHANGED <<applied, tables, lock, Local, bounds>>

\* The table is looked at again under the lock.
CheckUnderLock(p) ==
    /\ pc[p] = "locked"
    /\ \/ /\ provRows # NoProviders
          /\ Goto(p, "list")
          /\ lock' = NoPod
       \/ /\ provRows = NoProviders
          /\ Goto(p, "seed")
          /\ UNCHANGED lock
    /\ UNCHANGED <<applied, tables, Local, bounds>>

\* Rows of the file replace rows of the same name; the transaction commits.
Merge(old, new) == [x \in DOMAIN old |-> IF new[x] # Absent THEN new[x] ELSE old[x]]

SeedCommit(p) ==
    /\ pc[p] = "seed"
    /\ provRows' = Merge(provRows, SeedProviders)
    /\ modelRows' = Merge(modelRows, SeedModels)
    /\ lock' = NoPod
    /\ Goto(p, "list")
    /\ UNCHANGED <<applied, Local, bounds>>

----------------------------------------------------------------------------
(* Building a registry from two SELECTs                                    *)

Buildable(rows) == \A n \in Providers : rows[n] # BadEntry

\* Config.Validate, at the start only: no model without its provider.
Valid(rows, mods) ==
    \A m \in Models : mods[m] # Absent => rows[mods[m]] \in GoodEntries

ListProviders(p) ==
    /\ pc[p] \in {"list", "running"}
    /\ provRead' = [provRead EXCEPT ![p] = provRows]
    /\ Goto(p, IF pc[p] = "list" THEN "models" ELSE "polled")
    /\ UNCHANGED <<applied, tables, lock, todo, podRegistry, bounds>>

\* NewRegistryHolder, or Swap.
SetRegistry(p) ==
    /\ regProv' = [regProv EXCEPT ![p] = provRead[p]]
    /\ regModel' = [regModel EXCEPT ![p] = modelRows]
    /\ provRead' = [provRead EXCEPT ![p] = NoProviders]
    /\ Goto(p, "running")
    /\ UNCHANGED todo

\* ListModels, Validate and buildRegistry of a starting pod.
Start(p) ==
    /\ pc[p] = "models"
    /\ \/ /\ Valid(provRead[p], modelRows) /\ Buildable(provRead[p])
          /\ SetRegistry(p)
       \/ /\ ~(Valid(provRead[p], modelRows) /\ Buildable(provRead[p]))
          /\ Exit(p)
    /\ UNCHANGED <<applied, tables, lock, bounds>>

\* A poll whose query or build fails goes on with the registry it has.
KeepRegistry(p) ==
    /\ provRead' = [provRead EXCEPT ![p] = NoProviders]
    /\ Goto(p, "running")
    /\ UNCHANGED <<todo, podRegistry>>

\* Faulty variant: the registry is only replaced if the providers differ.
PollIfProvidersDiffer(p) ==
    /\ pc[p] = "polled"
    /\ \/ Buildable(provRead[p]) /\ provRead[p] # regProv[p] /\ SetRegistry(p)
       \/ ~(Buildable(provRead[p]) /\ provRead[p] # regProv[p]) /\ KeepRegistry(p)
    /\ UNCHANGED <<applied, tables, lock, bounds>>

\* ListModels, buildRegistry and Swap of the polling goroutine.
Poll(p) ==
    /\ pc[p] = "polled"
    /\ \/ Buildable(provRead[p]) /\ SetRegistry(p)
       \/ ~Buildable(provRead[p]) /\ KeepRegistry(p)
    /\ UNCHANGED <<applied, tables, lock, bounds>>

PollQueryFails(p) ==
    /\ pc[p] = "polled"
    /\ KeepRegistry(p)
    /\ UNCHANGED <<applied, tables, lock, bounds>>

----------------------------------------------------------------------------
(* The admin API of a serving pod; a write waits for a seeding transaction *)

Edit ==
    /\ \E p \in Pods : pc[p] \in Serving
    /\ edits < MaxEdits
    /\ edits' = edits + 1
    /\ UNCHANGED <<applied, lock, pc, Local, crashes>>

\* createProvider and PUT: only name and type are required.
UpsertProvider(n, e) ==
    /\ Edit
    /\ lock = NoPod
    /\ provRows' = [provRows EXCEPT ![n] = e]
    /\ UNCHANGED modelRows

DeleteProvider(n) ==
    /\ Edit
    /\ lock = NoPod
    /\ provRows' = [provRows EXCEPT ![n] = Absent]
    /\ UNCHANGED modelRows

\* POST and PUT of a model: the provider it names need not exist.
UpsertModel(m, n) ==
    /\ Edit
    /\ modelRows' = [modelRows EXCEPT ![m] = n]
    /\ UNCHANGED provRows

DeleteModel(m) ==
    /\ Edit
    /\ modelRows' = [modelRows EXCEPT ![m] = Absent]
    /\ UNCHANGED provRows

----------------------------------------------------------------------------
(* Pods come and go                                                        *)

\* A pod dies, or a statement of its start fails; its transaction is undone.
Crash(p) ==
    /\ pc[p] # "down"
    /\ crashes < MaxCrashes
    /\ crashes' = crashes + 1
    /\ lock' = IF lock = p THEN NoPod ELSE lock
    /\ Exit(p)
    /\ UNCHANGED <<applied, tables, edits>>

\* The orchestrator starts it again.
Restart(p) ==
    /\ pc[p] = "down"
    /\ Goto(p, "migrate")
    /\ UNCHANGED <<applied, tables, lock, Local, bounds>>

PodStep(p) ==
    \/ ReadApplied(p)
    \/ ApplyMigration(p)
    \/ ApplyRefused(p)
    \/ Migrated(p)
    \/ IsSeeded(p)
    \/ LockProviders(p)
    \/ CheckUnderLock(p)
    \/ SeedCommit(p)
    \/ ListProviders(p)
    \/ Start(p)
    \/ Restart(p)

Admin ==
    \/ \E n \in Providers, e \in GoodEntries \cup {BadEntry} : UpsertProvider(n, e)
    \/ \E n \in Providers : DeleteProvider(n)
    \/ \E m \in Models, n \in Providers : UpsertModel(m, n)
    \/ \E m \in Models : DeleteModel(m)

ConfigNext ==
    \/ \E p \in Pods : PodStep(p)
    \/ \E p \in Pods : Poll(p)
    \/ \E p \in Pods : PollQueryFails(p)
    \/ \E p \in Pods : Crash(p)
    \/ Admin

\* A pod that can go on does, a down pod is restarted, the ticker fires, and
\* polls do not fail for ever.  Nothing makes an administrator act.
ConfigFairness ==
    \A p \in Pods : WF_configVars(PodStep(p)) /\ SF_configVars(Poll(p))

ConfigSpec == ConfigInit /\ [][ConfigNext]_configVars /\ ConfigFairness

----------------------------------------------------------------------------
(* Properties                                                              *)

\* Concurrent starts cannot double-seed (SeedIfEmpty): no step of a pod changes
\* a provider row that exists, be it another pod's seed or an administrator's
\* edit made since IsSeeded looked.
RowsSurviveSeeding ==
    [][pc' # pc => \A n \in Providers :
         provRows[n] # Absent => provRows'[n] = provRows[n]]_configVars

\* Every pod ends up with the configuration of the database, although each
\* reads it in two statements and the start may collide with other starts:
\* a serving pod if the providers can be built, and all pods, serving, if
\* moreover no model lacks its provider.
PodsConverge ==
    <>[](Buildable(provRows) =>
           \A p \in Pods :
             /\ pc[p] \in Serving => regProv[p] = provRows /\ regModel[p] = modelRows
             /\ Valid(provRows, modelRows) => pc[p] \in Serving)
=============================================================================

------------------------------ MODULE ConfigStore ------------------------------
(***************************************************************************)
(* The configuration core of package config: one config.core shared by the *)
(* configuration models of a process.                                      *)
(*                                                                         *)
(* A value lives in one of three layers of the viper instance: "override"  *)
(* (SetValue, a model's Save), "file" (the last ReadInConfig) and          *)
(* "default" (Save while savingDefaults is up).  A model is a section of   *)
(* the tree and keeps its own copy of its fields, "live", which the        *)
(* program reads without asking the core.  Three goroutines meet here: the *)
(* assembling "caller" (Register, Unregister, Load, SetValue, SaveToFile), *)
(* the "app", which assigns model fields and calls Save outside any lock,  *)
(* and the "watch" goroutine that rereads the file and reloads the models. *)
(*                                                                         *)
(* A key is a pair <<model, field>>.  Ref stands for a ${VAR} reference,   *)
(* Secret for what it expands to.  viper is external: what is modelled is  *)
(* that a section is decoded from the highest layer that has any of it.    *)
(***************************************************************************)
EXTENDS Naturals, FiniteSets

CONSTANTS
    Models, Fields,
    Code,              \* the value every field has in the code
    Plain,             \* literal values a user or a program may write
    Ref, Secret,       \* a ${VAR} reference, and the variable's value
    NoVal,             \* a layer does not have the key
    Nobody,            \* applyMu is free, no model at hand
    Valid(_),          \* the Validate of a model, on its fields
    Overlap,           \* Unregister may run while another goroutine loads
    EditKeys, EditVals,\* what the user of the file may write, NoVal removes a key
    SetKeys,           \* the keys the program sets, the fields the app assigns
    EditBound,         \* edits of the file by its user
    CallBound          \* calls of the caller and of the app

ASSUME ConfigConstants ==
    /\ Code \in Plain /\ NoVal \notin Plain
    /\ {Ref, Secret} \cap (Plain \cup {NoVal}) = {} /\ Ref # Secret
    /\ Overlap \in BOOLEAN
    /\ EditVals \subseteq Plain \cup {Ref, NoVal}
    /\ EditKeys \subseteq Models \X Fields /\ SetKeys \subseteq Models \X Fields
    /\ EditBound \in Nat /\ CallBound \in Nat

VARIABLES
    disk,        \* the file: a layer
    torn,        \* the file is half written and does not parse
    event,       \* fsnotify events for the file not yet read
    layer,       \* the three layers of the viper instance
    overrideKeys,
    live,        \* the fields of the model objects
    models,      \* core.models
    refuses,     \* the models whose OnReload is ErrReloadUnsupported
    savingDefaults,
    applyMu,
    pc,          \* per goroutine: the operation it is in
    edits, calls,
    asked,       \* history: keys a user wrote or a program set
    assigned     \* history: models whose fields the app assigned itself

vars == <<disk, torn, event, layer, overrideKeys, live, models, refuses, savingDefaults,
          applyMu, pc, edits, calls, asked, assigned>>

Threads == {"caller", "app", "watch"}
Keys    == Models \X Fields
Stored  == Plain \cup {Ref, Secret, NoVal}
NoLayer == [m \in Models |-> [f \in Fields |-> NoVal]]
Idle    == [op |-> "idle", todo |-> {}, keys |-> {}, cur |-> Nobody]

(***************************************************************************)
(* The tree                                                                *)
(***************************************************************************)
\* InConfig: the file as last read has the section.
InConfig(m) == \E f \in Fields : layer.file[m][f] # NoVal

\* viper's Get(section): the section of the highest layer that has any of it.
Section(m) ==
    IF \E f \in Fields : layer.override[m][f] # NoVal THEN layer.override[m]
    ELSE IF InConfig(m) THEN layer.file[m] ELSE layer.default[m]

\* viper's Get(key).
Effective(m, f) ==
    IF layer.override[m][f] # NoVal THEN layer.override[m][f]
    ELSE IF layer.file[m][f] # NoVal THEN layer.file[m][f] ELSE layer.default[m][f]

\* Origin: where a key's value comes from.
Origin(m, f) ==
    IF <<m, f>> \in overrideKeys THEN "runtime"
    ELSE IF layer.file[m][f] # NoVal THEN "file"
    ELSE IF Effective(m, f) # NoVal THEN "default" ELSE "unknown"

\* UnmarshalKey into an object that already holds "fields": keys the section
\* does not have leave the field alone.
UnmarshalKey(m, fields) ==
    [f \in Fields |-> IF Section(m)[f] # NoVal THEN Section(m)[f] ELSE fields[f]]

expandEnvRefs(fields) == [f \in Fields |-> IF fields[f] = Ref THEN Secret ELSE fields[f]]

SetValue(ks, v) ==
    /\ layer' = [layer EXCEPT !.override =
                   [m \in Models |-> [f \in Fields |->
                      IF <<m, f>> \in ks THEN v[m][f] ELSE @[m][f]]]]
    /\ overrideKeys' = overrideKeys \cup ks

SetDefault(m, f) ==
    /\ layer' = [layer EXCEPT !.default[m][f] = live[m][f]]
    /\ UNCHANGED overrideKeys

\* Mutant: a Delete that forgets the accounts.
DeleteKeepsKeys(m) ==
    /\ layer' = [layer EXCEPT !.override[m] = [f \in Fields |-> NoVal]]
    /\ UNCHANGED overrideKeys

\* Delete sets the section to nil and drops its keys from the accounts.
Delete(m) ==
    /\ layer' = [layer EXCEPT !.override[m] = [f \in Fields |-> NoVal]]
    /\ overrideKeys' = {k \in overrideKeys : k[1] # m}

\* persistableLeaves: what was set at run time and what the file already has.
persistableLeaves ==
    [m \in Models |-> [f \in Fields |->
       IF <<m, f>> \in overrideKeys \/ layer.file[m][f] # NoVal
       THEN Effective(m, f) ELSE NoVal]]

(***************************************************************************)
(* The user of the file                                                    *)
(***************************************************************************)
\* The user changes one key; some editors write in place, and the file does
\* not parse until the rest has been written.
Edit(m, f, v, inPlace) ==
    /\ edits < EditBound /\ ~torn /\ disk[m][f] # v
    /\ edits' = edits + 1
    /\ disk' = [disk EXCEPT ![m][f] = v]
    /\ torn' = inPlace /\ event' = TRUE
    /\ asked' = asked \cup {<<m, f>>}
    /\ UNCHANGED <<refuses, layer, overrideKeys, live, models, savingDefaults, applyMu, pc,
                   calls, assigned>>

EditEnds ==
    /\ torn
    /\ torn' = FALSE /\ event' = TRUE
    /\ UNCHANGED <<refuses, disk, layer, overrideKeys, live, models, savingDefaults, applyMu,
                   pc, edits, calls, asked, assigned>>

(***************************************************************************)
(* Calls that write models: Register and LoadFromFile                      *)
(***************************************************************************)
Begins(t, op, todo, keys) ==
    /\ pc[t].op = "idle" /\ calls < CallBound
    /\ calls' = calls + 1
    /\ pc' = [pc EXCEPT ![t] = [Idle EXCEPT !.op = op, !.todo = todo, !.keys = keys]]

\* Register: the model is in core.models before the lock is taken.
Register(m) ==
    /\ Begins("caller", "register", {m}, {m} \X Fields)
    /\ models' = models \cup {m}
    /\ UNCHANGED <<refuses, disk, torn, event, layer, overrideKeys, live, savingDefaults, applyMu,
                   edits, asked, assigned>>

\* LoadFromFile: a file that does not parse ends the call.
LoadFromFile ==
    /\ IF torn THEN Begins("caller", "idle", {}, {}) ELSE Begins("caller", "load", {}, {})
    /\ layer' = IF torn THEN layer ELSE [layer EXCEPT !.file = disk]
    /\ UNCHANGED <<refuses, disk, torn, event, overrideKeys, live, models, savingDefaults, applyMu,
                   edits, asked, assigned>>

\* applyMu is taken.  Register saves the defaults first; LoadFromFile and the
\* reload walk over core.models.
Lock(t) ==
    /\ pc[t].op \in {"register", "load", "reload"} /\ applyMu = Nobody
    /\ applyMu' = t
    /\ IF pc[t].op = "register"
       THEN savingDefaults' = TRUE /\ pc' = [pc EXCEPT ![t].op = "saving"]
       ELSE /\ UNCHANGED savingDefaults
            /\ pc' = [pc EXCEPT ![t].op = IF @ = "load" THEN "loading" ELSE "reloading",
                                ![t].todo = models]
    /\ UNCHANGED <<refuses, disk, torn, event, layer, overrideKeys, live, models,
                   edits, calls, asked, assigned>>

\* SaveFromModel, one key: the flag is read for every key.
SaveKey(t, k) ==
    /\ pc[t].op = "saving" /\ k \in pc[t].keys
    /\ IF savingDefaults THEN SetDefault(k[1], k[2]) ELSE SetValue({k}, live)
    /\ pc' = [pc EXCEPT ![t].keys = @ \ {k}]
    /\ UNCHANGED <<refuses, disk, torn, event, live, models, savingDefaults, applyMu, edits, calls,
                   asked, assigned>>

\* saveDefaults ends and lowers the flag.  The first one of Register is followed
\* by the loading, one in LoadToModel by the rest of it.
SaveDefaultsEnds ==
    /\ pc["caller"].op = "saving" /\ pc["caller"].keys = {}
    /\ savingDefaults' = FALSE
    /\ pc' = [pc EXCEPT !["caller"].op =
                IF pc["caller"].cur = Nobody THEN "loading" ELSE "loaded"]
    /\ UNCHANGED <<refuses, disk, torn, event, layer, overrideKeys, live, models, applyMu, edits,
                   calls, asked, assigned>>

\* Mutant: a LoadToModel that saves a missing section without raising the flag.
LoadToModelSaves(m) ==
    /\ pc["caller"].op = "loading" /\ m \in pc["caller"].todo
    /\ pc' = [pc EXCEPT !["caller"] =
                [op |-> IF InConfig(m) THEN "loaded" ELSE "saving", todo |-> @.todo \ {m},
                 keys |-> IF InConfig(m) THEN {} ELSE {m} \X Fields, cur |-> m]]
    /\ live' = IF InConfig(m) THEN [live EXCEPT ![m] = expandEnvRefs(UnmarshalKey(m, @))]
               ELSE live
    /\ UNCHANGED <<refuses, disk, torn, event, layer, overrideKeys, models, savingDefaults, applyMu,
                   edits, calls, asked, assigned>>

\* LoadToModel: a section the file does not have is saved as defaults, one it
\* has is decoded and its references are expanded.
LoadToModel(m) ==
    /\ pc["caller"].op = "loading" /\ m \in pc["caller"].todo
    /\ pc' = [pc EXCEPT !["caller"] =
                [op |-> IF InConfig(m) THEN "loaded" ELSE "saving", todo |-> @.todo \ {m},
                 keys |-> IF InConfig(m) THEN {} ELSE {m} \X Fields, cur |-> m]]
    /\ IF InConfig(m)
       THEN /\ live' = [live EXCEPT ![m] = expandEnvRefs(UnmarshalKey(m, @))]
            /\ UNCHANGED savingDefaults
       ELSE savingDefaults' = TRUE /\ UNCHANGED live
    /\ UNCHANGED <<refuses, disk, torn, event, layer, overrideKeys, models, applyMu, edits, calls,
                   asked, assigned>>

\* The end of LoadToModel: a model that is not registered is registered, and
\* Register takes applyMu, which this goroutine holds.
RegisterIfAbsent ==
    /\ pc["caller"].op = "loaded"
    /\ models' = models \cup {pc["caller"].cur}
    /\ pc' = [pc EXCEPT !["caller"].op =
                IF pc["caller"].cur \in models THEN "loading" ELSE "register",
                        !["caller"].cur = Nobody]
    /\ UNCHANGED <<refuses, disk, torn, event, layer, overrideKeys, live, savingDefaults, applyMu,
                   edits, calls, asked, assigned>>

Unlock(t) ==
    /\ pc[t].op \in {"loading", "reloading"} /\ pc[t].todo = {}
    /\ applyMu' = Nobody
    /\ pc' = [pc EXCEPT ![t] = Idle]
    /\ UNCHANGED <<refuses, disk, torn, event, layer, overrideKeys, live, models, savingDefaults,
                   edits, calls, asked, assigned>>

(***************************************************************************)
(* Calls that do not: Unregister, SetValue, SaveToFile                     *)
(***************************************************************************)
\* A thread that is in no operation does something in one step.
Call ==
    /\ calls < CallBound
    /\ calls' = calls + 1

Unregister(m) ==
    /\ Call /\ m \in models
    /\ Overlap \/ pc["caller"].op = "idle"
    /\ models' = models \ {m}
    /\ IF InConfig(m) THEN Delete(m) ELSE UNCHANGED <<layer, overrideKeys>>
    /\ UNCHANGED <<refuses, disk, torn, event, live, savingDefaults, applyMu, pc, edits, asked,
                   assigned>>

\* A program sets one key.
Set(m, f, v) ==
    /\ Call
    /\ SetValue({<<m, f>>}, [live EXCEPT ![m][f] = v])
    /\ asked' = asked \cup {<<m, f>>}
    /\ UNCHANGED <<refuses, disk, torn, event, live, models, savingDefaults, applyMu, pc, edits,
                   assigned>>

\* SaveToFile: only differences from the code are written.
SaveToFile ==
    /\ Call /\ ~torn
    /\ disk' = persistableLeaves
    /\ event' = TRUE
    /\ UNCHANGED <<refuses, torn, layer, overrideKeys, live, models, savingDefaults, applyMu, pc,
                   edits, asked, assigned>>

(***************************************************************************)
(* The app: model fields are public, and Save takes no lock                *)
(***************************************************************************)
Assign(m, f, v) ==
    /\ Call /\ live[m][f] # v
    /\ live' = [live EXCEPT ![m][f] = v]
    /\ assigned' = assigned \cup {m}
    /\ UNCHANGED <<refuses, disk, torn, event, layer, overrideKeys, models, savingDefaults, applyMu,
                   pc, edits, asked>>

Save(m) ==
    /\ Begins("app", "saving", {}, {m} \X Fields)
    /\ asked' = asked \cup ({m} \X Fields)
    /\ UNCHANGED <<refuses, disk, torn, event, layer, overrideKeys, live, models, savingDefaults,
                   applyMu, edits, assigned>>

SaveEnds ==
    /\ pc["app"].op = "saving" /\ pc["app"].keys = {}
    /\ pc' = [pc EXCEPT !["app"] = Idle]
    /\ UNCHANGED <<refuses, disk, torn, event, layer, overrideKeys, live, models, savingDefaults,
                   applyMu, edits, calls, asked, assigned>>

(***************************************************************************)
(* The watcher                                                             *)
(***************************************************************************)
\* Mutant: a watcher that gives up at the first file that does not parse.
WatchEnds ==
    /\ pc["watch"].op = "idle" /\ event
    /\ event' = FALSE
    /\ layer' = IF torn THEN layer ELSE [layer EXCEPT !.file = disk]
    /\ pc' = [pc EXCEPT !["watch"].op = IF torn THEN "gone" ELSE "reload"]
    /\ UNCHANGED <<refuses, disk, torn, overrideKeys, live, models, savingDefaults, applyMu, edits,
                   calls, asked, assigned>>

\* An event: the file is read again, and a file that does not parse is left.
Watch ==
    /\ pc["watch"].op = "idle" /\ event
    /\ event' = FALSE
    /\ layer' = IF torn THEN layer ELSE [layer EXCEPT !.file = disk]
    /\ pc' = [pc EXCEPT !["watch"].op = IF torn THEN "idle" ELSE "reload"]
    /\ UNCHANGED <<refuses, disk, torn, overrideKeys, live, models, savingDefaults, applyMu, edits,
                   calls, asked, assigned>>

\* What a model's copy becomes: the current fields, over them the section.
Next0(m) == UnmarshalKey(m, live[m])

\* Mutant: a reload that decodes into the live model.
ReloadInPlace(m) ==
    /\ pc["watch"].op = "reloading" /\ m \in pc["watch"].todo
    /\ live' = IF InConfig(m) /\ m \notin refuses
               THEN [live EXCEPT ![m] = Next0(m)] ELSE live
    /\ pc' = [pc EXCEPT !["watch"].todo = @ \ {m}]
    /\ UNCHANGED <<refuses, disk, torn, event, layer, overrideKeys, models, savingDefaults, applyMu,
                   edits, calls, asked, assigned>>

\* ReloadWithChanges, one model: a section the file does not have, a copy that
\* does not validate and a model that refuses leave the model alone.
Reload(m) ==
    /\ pc["watch"].op = "reloading" /\ m \in pc["watch"].todo
    /\ live' = IF InConfig(m) /\ Valid(Next0(m)) /\ m \notin refuses
               THEN [live EXCEPT ![m] = Next0(m)] ELSE live
    /\ pc' = [pc EXCEPT !["watch"].todo = @ \ {m}]
    /\ UNCHANGED <<refuses, disk, torn, event, layer, overrideKeys, models, savingDefaults, applyMu,
                   edits, calls, asked, assigned>>

--------------------------------------------------------------------------------
ConfigInit ==
    /\ disk = NoLayer /\ torn = FALSE /\ event = FALSE
    /\ layer = [default |-> NoLayer, file |-> NoLayer, override |-> NoLayer]
    /\ overrideKeys = {}
    /\ live = [m \in Models |-> [f \in Fields |-> Code]]
    /\ refuses \in SUBSET Models
    /\ models = {} /\ savingDefaults = FALSE /\ applyMu = Nobody
    /\ pc = [t \in Threads |-> Idle]
    /\ edits = 0 /\ calls = 0 /\ asked = {} /\ assigned = {}

WatchStep  == Watch \/ Lock("watch") \/ Unlock("watch") \/ \E m \in Models : Reload(m)
CallerStep ==
    \/ Lock("caller") \/ Unlock("caller") \/ SaveDefaultsEnds \/ RegisterIfAbsent
    \/ \E m \in Models : LoadToModel(m)
    \/ \E k \in Keys : SaveKey("caller", k)
AppStep    == SaveEnds \/ \E k \in Keys : SaveKey("app", k)

ConfigNext ==
    \/ WatchStep \/ CallerStep \/ AppStep
    \/ EditEnds \/ LoadFromFile \/ SaveToFile
    \/ \E m \in Models : Register(m) \/ Unregister(m) \/ Save(m)
    \/ \E k \in EditKeys, v \in EditVals, b \in BOOLEAN : Edit(k[1], k[2], v, b)
    \/ \E k \in SetKeys, v \in Plain : Set(k[1], k[2], v) \/ Assign(k[1], k[2], v)

\* The goroutines run on, an editor finishes its write, and a mutex that is
\* freed again and again is handed to whoever waits for it.
ConfigFairness ==
    /\ WF_vars(EditEnds) /\ WF_vars(Watch) /\ WF_vars(\E m \in Models : Reload(m))
    /\ WF_vars(Unlock("watch")) /\ WF_vars(AppStep)
    /\ WF_vars(CallerStep) /\ SF_vars(Lock("watch")) /\ SF_vars(Lock("caller"))

ConfigSpec == ConfigInit /\ [][ConfigNext]_vars /\ ConfigFairness

(***************************************************************************)
(* Properties                                                              *)
(***************************************************************************)
\* The accounts agree with the tree: Origin says "set at run time" of exactly
\* the keys the override layer holds, whatever Save, SetValue, Unregister and
\* the savingDefaults flag did in between (format.go SetValue, Delete).
OriginTruthful ==
    \A m \in Models, f \in Fields :
        Origin(m, f) = "runtime" <=> layer.override[m][f] # NoVal

\* A value of the code never reaches the file: what SaveToFile writes was once
\* written there by the user or set by the program, across registrations, loads
\* of sections the file lacks and saves of other models (format.go WriteConfig).
FileHoldsNoDefaults ==
    \A m \in Models, f \in Fields : disk[m][f] # NoVal => <<m, f>> \in asked

Layers  == [Models -> [Fields -> Stored]]
Ops     == {"idle", "register", "load", "saving", "loading", "loaded", "reload", "reloading"}
PcType  == [op : Ops, todo : SUBSET Models, keys : SUBSET Keys, cur : Models \cup {Nobody}]

\* Every variable keeps its type: above all, a field of a model always has a value.
ConfigTypeOK ==
    /\ disk \in Layers /\ layer \in [default : Layers, file : Layers, override : Layers]
    /\ live \in [Models -> [Fields -> Stored \ {NoVal}]]
    /\ overrideKeys \in SUBSET Keys /\ asked \in SUBSET Keys /\ models \in SUBSET Models
    /\ pc \in [Threads -> PcType]

\* Nothing gets into the accounts, or into the file layer, that nobody asked for.
AskedInv ==
    /\ overrideKeys \subseteq asked
    /\ \A m \in Models, f \in Fields : layer.file[m][f] # NoVal => <<m, f>> \in asked

\* The flag is up whenever the caller saves defaults, whoever else saves, and
\* what the app saves was asked for.
SavingInv ==
    /\ pc["caller"].op = "saving" => savingDefaults = TRUE
    /\ pc["caller"].op = "loaded" => pc["caller"].cur \in Models
    /\ pc["app"].op \in {"idle", "saving"} /\ pc["app"].keys \subseteq asked
    /\ pc["watch"].op \in {"idle", "reload", "reloading"}

\* The inductive invariant behind OriginTruthful and FileHoldsNoDefaults.
ConfigInv ==
    ConfigTypeOK /\ OriginTruthful /\ FileHoldsNoDefaults /\ AskedInv /\ SavingInv

\* A reload never makes a valid model invalid, and writes neither a model whose
\* section the file lacks nor one that refuses (reload.go ReloadWithChanges).
ReloadSound ==
    [][\A m \in Models :
          (pc["watch"].op = "reloading" /\ m \in pc["watch"].todo \ pc'["watch"].todo)
          => /\ Valid(live[m]) => Valid(live'[m])
             /\ (m \in refuses \/ ~InConfig(m)) => live'[m] = live[m]]_vars

\* The models an edit is meant for: registered, hot reloadable, not assigned by
\* the app, with nothing set at run time, and the file makes a valid model of it.
Follows(m) ==
    /\ m \in models \ (refuses \cup assigned)
    /\ \A f \in Fields : layer.override[m][f] = NoVal
    /\ Valid(Next0(m))

\* Once the user stops editing, the models end up with what the file says, also
\* when the edit was half written at the first event, met a registration or a
\* Load, or came while another edit was applied (format.go Watch).
EditReaches ==
    <>[](\A m \in Models, f \in Fields :
            Follows(m) /\ disk[m][f] \in Plain => live[m][f] = disk[m][f])

\* "Both read paths must give the same result for the same data": no model field
\* holds the text of a reference (format.go GetString, env.go).  The reload
\* decodes without expanding.
ModelsResolved == \A m \in Models, f \in Fields : live[m][f] # Ref

\* applyMu is always given back.  A model unregistered while LoadFromFile or
\* Register loads it is registered again by LoadToModel, under the lock it waits for.
LockReleased == [](applyMu # Nobody => <>(applyMu = Nobody))
================================================================================

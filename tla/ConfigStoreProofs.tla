------------------------- MODULE ConfigStoreProofs -------------------------
(***************************************************************************)
(* The accounts of the configuration core and its file, for any models,    *)
(* fields and values: ConfigSpec => []OriginTruthful, []FileHoldsNoDefaults *)
(* and ReloadSound.                                                        *)
(*                                                                         *)
(* A step either changes what is stored (the layers, the accounts, the     *)
(* file, the models) or where a goroutine is.  The first lemmas say what   *)
(* each way to store something does to the invariant, the next ones what   *)
(* a change of place does; an action is one of each.                       *)
(***************************************************************************)
EXTENDS ConfigStore, TLAPS

LayerType == [default : Layers, file : Layers, override : Layers]
LiveType  == [Models -> [Fields -> Stored \ {NoVal}]]

\* OriginTruthful without the names of the origins.
Accounts == \A m \in Models, f \in Fields :
  <<m, f>> \in overrideKeys <=> layer.override[m][f] # NoVal

LEMMA AccountsTruthful == OriginTruthful <=> Accounts
  BY DEF OriginTruthful, Accounts, Origin

LEMMA AccountsTruthfulNext == OriginTruthful' <=> Accounts'
  BY DEF OriginTruthful, Accounts, Origin

\* What is stored, and where the goroutines are.
StoreInv ==
  /\ disk \in Layers /\ layer \in LayerType /\ live \in LiveType
  /\ overrideKeys \in SUBSET Keys /\ asked \in SUBSET Keys
  /\ Accounts /\ FileHoldsNoDefaults /\ AskedInv

PlaceInv == models \in SUBSET Models /\ pc \in [Threads -> PcType] /\ SavingInv

LEMMA Parts == ConfigInv <=> StoreInv /\ PlaceInv
  BY AccountsTruthful DEF ConfigInv, ConfigTypeOK, StoreInv, PlaceInv, LayerType, LiveType

LEMMA PartsNext == ConfigInv' <=> StoreInv' /\ PlaceInv'
  BY AccountsTruthfulNext DEF ConfigInv, ConfigTypeOK, StoreInv, PlaceInv, LayerType, LiveType

---------------------------------------------------------------------------
(* What is stored                                                          *)

\* Nothing is stored; more may have been asked for.
LEMMA NothingStored ==
  ASSUME StoreInv, UNCHANGED <<disk, layer, live, overrideKeys>>,
         asked \subseteq asked', asked' \in SUBSET Keys
  PROVE  StoreInv'
  BY DEF StoreInv, Accounts, FileHoldsNoDefaults, AskedInv

\* SetValue writes values, never NoVal, and keys that were asked for.
LEMMA ValueSet ==
  ASSUME StoreInv, NEW ks \in SUBSET Keys, NEW v \in LiveType, SetValue(ks, v),
         UNCHANGED <<disk, live>>, asked \subseteq asked', asked' \in SUBSET Keys,
         ks \subseteq asked'
  PROVE  StoreInv'
  <1> DEFINE over == [m \in Models |-> [f \in Fields |->
                        IF <<m, f>> \in ks THEN v[m][f] ELSE layer.override[m][f]]]
  <1>1. over \in Layers  BY DEF Layers, LiveType, StoreInv, LayerType
  <1>2. layer' = [layer EXCEPT !.override = over]  BY DEF SetValue
  <1>3. \A m \in Models, f \in Fields :
          over[m][f] = IF <<m, f>> \in ks THEN v[m][f] ELSE layer.override[m][f]
    OBVIOUS
  <1>4. \A m \in Models, f \in Fields : v[m][f] # NoVal  BY DEF LiveType
  <1> HIDE DEF over
  <1>5. layer' \in LayerType /\ layer'.override = over /\ layer'.file = layer.file
    BY <1>1, <1>2 DEF StoreInv, LayerType
  <1>6. overrideKeys' = overrideKeys \cup ks  BY DEF SetValue
  <1>7. Accounts'
    <2> SUFFICES ASSUME NEW m \in Models, NEW f \in Fields
                 PROVE  <<m, f>> \in overrideKeys' <=> layer'.override[m][f] # NoVal
      BY DEF Accounts
    <2>1. <<m, f>> \in overrideKeys <=> layer.override[m][f] # NoVal
      BY DEF StoreInv, Accounts
    <2>2. <<m, f>> \in overrideKeys' <=> <<m, f>> \in overrideKeys \/ <<m, f>> \in ks
      BY <1>6
    <2>3. layer'.override[m][f] = IF <<m, f>> \in ks THEN v[m][f] ELSE layer.override[m][f]
      BY <1>3, <1>5
    <2> QED  BY <1>4, <2>1, <2>2, <2>3
  <1>8. FileHoldsNoDefaults' /\ AskedInv'
    BY <1>5, <1>6 DEF StoreInv, FileHoldsNoDefaults, AskedInv
  <1> QED  BY <1>5, <1>6, <1>7, <1>8 DEF StoreInv

LEMMA DefaultSet ==
  ASSUME StoreInv, NEW m \in Models, NEW f \in Fields, SetDefault(m, f),
         UNCHANGED <<disk, live, asked>>
  PROVE  StoreInv'
  <1>1. PICK v \in Stored : v = live[m][f]  BY DEF StoreInv, LiveType
  <1>2. PICK def : def = [layer.default EXCEPT ![m][f] = v]  OBVIOUS
  <1>3. def \in Layers  BY <1>2 DEF StoreInv, LayerType, Layers
  <1>4. layer' = [layer EXCEPT !.default = def]
    BY <1>1, <1>2 DEF SetDefault, StoreInv, LayerType
  <1>5. /\ layer' \in LayerType /\ layer'.override = layer.override
        /\ layer'.file = layer.file
    BY <1>3, <1>4 DEF StoreInv, LayerType
  <1> QED  BY <1>5 DEF SetDefault, StoreInv, Accounts, FileHoldsNoDefaults, AskedInv

\* Delete takes the keys of the section out of the layer and out of the accounts.
LEMMA SectionDeleted ==
  ASSUME StoreInv, NEW m \in Models, Delete(m), UNCHANGED <<disk, live, asked>>
  PROVE  StoreInv'
  <1>1. NoVal \in Stored  BY DEF Stored
  <1>2. PICK over : over = [layer.override EXCEPT ![m] = [f \in Fields |-> NoVal]]  OBVIOUS
  <1>3. over \in Layers  BY <1>1, <1>2 DEF StoreInv, LayerType, Layers
  <1>4. \A n \in Models, f \in Fields :
          over[n][f] = IF n = m THEN NoVal ELSE layer.override[n][f]
    BY <1>2 DEF StoreInv, LayerType, Layers
  <1>5. layer' = [layer EXCEPT !.override = over]
    BY <1>2 DEF Delete, StoreInv, LayerType
  <1>6. layer' \in LayerType /\ layer'.override = over /\ layer'.file = layer.file
    BY <1>3, <1>5 DEF StoreInv, LayerType
  <1>7. overrideKeys' = {k \in overrideKeys : k[1] # m}  BY DEF Delete
  <1>8. \A n \in Models, f \in Fields :
          <<n, f>> \in overrideKeys' <=> <<n, f>> \in overrideKeys /\ n # m
    BY <1>7
  <1>9. Accounts'  BY <1>4, <1>6, <1>8 DEF StoreInv, Accounts
  <1>10. FileHoldsNoDefaults' /\ AskedInv'
    BY <1>6, <1>7 DEF StoreInv, FileHoldsNoDefaults, AskedInv
  <1> QED  BY <1>6, <1>7, <1>9, <1>10 DEF StoreInv

\* The file is read.
LEMMA FileRead ==
  ASSUME StoreInv, layer' = [layer EXCEPT !.file = disk],
         UNCHANGED <<disk, live, overrideKeys, asked>>
  PROVE  StoreInv'
  <1>1. /\ layer' \in LayerType /\ layer'.override = layer.override
        /\ layer'.file = disk
    BY DEF StoreInv, LayerType
  <1> QED  BY <1>1 DEF StoreInv, Accounts, FileHoldsNoDefaults, AskedInv

\* Models are written.
LEMMA ModelsWritten ==
  ASSUME StoreInv, live' \in LiveType, UNCHANGED <<disk, layer, overrideKeys, asked>>
  PROVE  StoreInv'
  BY DEF StoreInv, Accounts, FileHoldsNoDefaults, AskedInv

\* What UnmarshalKey and expandEnvRefs make of a model always has a value.
LEMMA Decoded ==
  ASSUME StoreInv, NEW m \in Models
  PROVE  /\ UnmarshalKey(m, live[m]) \in [Fields -> Stored \ {NoVal}]
         /\ expandEnvRefs(UnmarshalKey(m, live[m])) \in [Fields -> Stored \ {NoVal}]
  <1>1. Section(m) \in [Fields -> Stored]
    BY DEF Section, StoreInv, LayerType, Layers
  <1>2. live[m] \in [Fields -> Stored \ {NoVal}]  BY DEF StoreInv, LiveType
  <1>3. UnmarshalKey(m, live[m]) \in [Fields -> Stored \ {NoVal}]
    BY <1>1, <1>2 DEF UnmarshalKey
  <1>4. Secret \in Stored /\ Secret # NoVal  BY ConfigConstants DEF Stored
  <1> QED  BY <1>3, <1>4 DEF expandEnvRefs

\* SaveToFile writes what is accounted for or was in the file: all asked for.
LEMMA FileSaved ==
  ASSUME StoreInv, disk' = persistableLeaves, UNCHANGED <<layer, live, overrideKeys, asked>>
  PROVE  StoreInv'
  <1>1. \A m \in Models, f \in Fields : Effective(m, f) \in Stored /\ NoVal \in Stored
    BY DEF Effective, StoreInv, LayerType, Layers, Stored
  <1>2. disk' \in Layers  BY <1>1 DEF persistableLeaves, Layers
  <1>3. \A m \in Models, f \in Fields :
          disk'[m][f] # NoVal => <<m, f>> \in overrideKeys \/ layer.file[m][f] # NoVal
    BY DEF persistableLeaves
  <1>4. FileHoldsNoDefaults'  BY <1>3 DEF FileHoldsNoDefaults, StoreInv, AskedInv
  <1> QED  BY <1>2, <1>4 DEF StoreInv, Accounts, AskedInv

---------------------------------------------------------------------------
(* Where the goroutines are                                                *)

\* Goroutine t is there now; the others are where they were.
PcIs(t, r) ==
  /\ pc' \in [Threads -> PcType] /\ pc'[t] = r
  /\ \A u \in Threads \ {t} : pc'[u] = pc[u]

LEMMA PcSet ==
  ASSUME PlaceInv, NEW t \in Threads, NEW r \in PcType, pc' = [pc EXCEPT ![t] = r]
  PROVE  PcIs(t, r)
  BY DEF PlaceInv, PcIs

LEMMA PcSetOp ==
  ASSUME PlaceInv, NEW t \in Threads, NEW op \in Ops, pc' = [pc EXCEPT ![t].op = op]
  PROVE  \E r : PcIs(t, r) /\ r.op = op /\ r.cur = pc[t].cur
  <1>1. PICK r : r = [pc[t] EXCEPT !.op = op]  OBVIOUS
  <1>2. pc[t] \in PcType  BY DEF PlaceInv
  <1>3. r \in PcType /\ r.op = op /\ r.cur = pc[t].cur  BY <1>1, <1>2 DEF PcType
  <1>4. pc' = [pc EXCEPT ![t] = r]  BY <1>1
  <1> QED  BY <1>3, <1>4, PcSet

LEMMA ThreadsAre ==
  /\ "caller" \in Threads /\ "app" \in Threads /\ "watch" \in Threads
  /\ "caller" # "app" /\ "caller" # "watch" /\ "app" # "watch"
  BY DEF Threads

\* The caller, the app or the watcher moves.
LEMMA CallerMoves ==
  ASSUME PlaceInv, NEW r, PcIs("caller", r), models' \in SUBSET Models,
         asked \subseteq asked', r.op = "saving" => savingDefaults' = TRUE,
         r.op = "loaded" => r.cur \in Models
  PROVE  PlaceInv'
  BY ThreadsAre DEF PlaceInv, SavingInv, PcIs

LEMMA AppMoves ==
  ASSUME PlaceInv, NEW r, PcIs("app", r), UNCHANGED <<models, savingDefaults>>,
         asked \subseteq asked', r.op \in {"idle", "saving"}, r.keys \subseteq asked'
  PROVE  PlaceInv'
  BY ThreadsAre DEF PlaceInv, SavingInv, PcIs

LEMMA WatchMoves ==
  ASSUME PlaceInv, NEW r, PcIs("watch", r), UNCHANGED <<models, savingDefaults>>,
         asked \subseteq asked', r.op \in {"idle", "reload", "reloading"}
  PROVE  PlaceInv'
  BY ThreadsAre DEF PlaceInv, SavingInv, PcIs

\* Nobody moves.
LEMMA NobodyMoves ==
  ASSUME PlaceInv, UNCHANGED <<pc, savingDefaults>>, models' \in SUBSET Models,
         asked \subseteq asked'
  PROVE  PlaceInv'
  BY DEF PlaceInv, SavingInv

LEMMA IdleTyped == Idle \in PcType /\ Idle.op = "idle" /\ Idle.keys = {}
  BY DEF Idle, PcType, Ops

LEMMA BeginsAt ==
  ASSUME PlaceInv, NEW t \in Threads, NEW op \in Ops, NEW todo \in SUBSET Models,
         NEW keys \in SUBSET Keys, Begins(t, op, todo, keys)
  PROVE  \E r : PcIs(t, r) /\ r.op = op /\ r.keys = keys
  <1>1. PICK r : r = [op |-> op, todo |-> todo, keys |-> keys, cur |-> Nobody]  OBVIOUS
  <1>2. r \in PcType /\ r.op = op /\ r.keys = keys  BY <1>1 DEF PcType
  <1>3. [Idle EXCEPT !.op = op, !.todo = todo, !.keys = keys] = r
    <2>1. [Idle EXCEPT !.op = op, !.todo = todo, !.keys = keys]
            = [[[Idle EXCEPT !.op = op] EXCEPT !.todo = todo] EXCEPT !.keys = keys]
      BY DEF Idle
    <2>2. PICK a : a = [op |-> op, todo |-> {}, keys |-> {}, cur |-> Nobody]  OBVIOUS
    <2>3. [Idle EXCEPT !.op = op] = a  BY <2>2 DEF Idle
    <2>4. PICK b : b = [op |-> op, todo |-> todo, keys |-> {}, cur |-> Nobody]  OBVIOUS
    <2>5. [a EXCEPT !.todo = todo] = b  BY <2>2, <2>4
    <2>6. [b EXCEPT !.keys = keys] = r  BY <1>1, <2>4
    <2> QED  BY <2>1, <2>3, <2>5, <2>6
  <1>4. pc' = [pc EXCEPT ![t] = r]  BY <1>3 DEF Begins
  <1> QED  BY <1>2, <1>4, PcSet

---------------------------------------------------------------------------
(* The actions                                                             *)

\* The user of the file.
LEMMA EditStep ==
  ASSUME ConfigInv, NEW m \in Models, NEW f \in Fields, NEW v \in EditVals,
         NEW b \in BOOLEAN, Edit(m, f, v, b)
  PROVE  ConfigInv'
  <1>1. StoreInv /\ PlaceInv  BY Parts
  <1>2. v \in Stored  BY ConfigConstants DEF Stored
  <1>3. disk' \in Layers /\ \A n \in Models, g \in Fields :
          disk'[n][g] = IF n = m /\ g = f THEN v ELSE disk[n][g]
    BY <1>1, <1>2 DEF Edit, StoreInv, Layers
  <1>4. asked' = asked \cup {<<m, f>>} /\ <<m, f>> \in Keys  BY DEF Edit, Keys
  <1>5. FileHoldsNoDefaults'
    BY <1>1, <1>3, <1>4 DEF FileHoldsNoDefaults, StoreInv
  <1>6. UNCHANGED <<layer, live, overrideKeys, models, savingDefaults, pc>>  BY DEF Edit
  <1>7. Accounts' /\ AskedInv'  BY <1>1, <1>4, <1>6 DEF StoreInv, Accounts, AskedInv
  <1>8. StoreInv'  BY <1>1, <1>3, <1>4, <1>5, <1>6, <1>7 DEF StoreInv
  <1>9. PlaceInv'  BY <1>1, <1>4, <1>6, NobodyMoves DEF PlaceInv
  <1> QED  BY <1>8, <1>9, PartsNext

LEMMA EditEndsStep ==
  ASSUME ConfigInv, EditEnds
  PROVE  ConfigInv'
  <1>1. StoreInv /\ PlaceInv  BY Parts
  <1>2. StoreInv'  BY <1>1, NothingStored DEF EditEnds, StoreInv
  <1>3. PlaceInv'  BY <1>1, NobodyMoves DEF EditEnds, PlaceInv
  <1> QED  BY <1>2, <1>3, PartsNext

LEMMA RegisterStep ==
  ASSUME ConfigInv, NEW m \in Models, Register(m)
  PROVE  ConfigInv'
  <1>1. StoreInv /\ PlaceInv  BY Parts
  <1>2. {m} \X Fields \in SUBSET Keys /\ "register" \in Ops  BY DEF Keys, Ops
  <1>3. PICK r : PcIs("caller", r) /\ r.op = "register"
    BY <1>1, <1>2, ThreadsAre, BeginsAt DEF Register
  <1>4. StoreInv'  BY <1>1, NothingStored DEF Register, StoreInv
  <1>5. PlaceInv'  BY <1>1, <1>3, CallerMoves DEF Register, PlaceInv
  <1> QED  BY <1>4, <1>5, PartsNext

LEMMA LoadFromFileStep ==
  ASSUME ConfigInv, LoadFromFile
  PROVE  ConfigInv'
  <1>1. StoreInv /\ PlaceInv  BY Parts
  <1>2. PICK r : PcIs("caller", r) /\ r.op \in {"idle", "load"}
    <2>1. "idle" \in Ops /\ "load" \in Ops  BY DEF Ops
    <2>2. CASE Begins("caller", "idle", {}, {})  BY <1>1, <2>1, <2>2, ThreadsAre, BeginsAt
    <2>3. CASE Begins("caller", "load", {}, {})  BY <1>1, <2>1, <2>3, ThreadsAre, BeginsAt
    <2> QED  BY <2>2, <2>3 DEF LoadFromFile
  <1>3. StoreInv'
    <2>1. CASE UNCHANGED layer  BY <1>1, <2>1, NothingStored DEF LoadFromFile, StoreInv
    <2>2. CASE layer' = [layer EXCEPT !.file = disk]  BY <1>1, <2>2, FileRead DEF LoadFromFile
    <2> QED  BY <2>1, <2>2 DEF LoadFromFile
  <1>4. PlaceInv'  BY <1>1, <1>2, CallerMoves DEF LoadFromFile, PlaceInv
  <1> QED  BY <1>3, <1>4, PartsNext

\* applyMu is taken, with the flag up when the caller is about to save defaults.
LEMMA LockStep ==
  ASSUME ConfigInv, NEW t \in {"caller", "watch"}, Lock(t)
  PROVE  ConfigInv'
  <1>1. StoreInv /\ PlaceInv /\ t \in Threads  BY Parts DEF Threads
  <1>2. StoreInv'  BY <1>1, NothingStored DEF Lock, StoreInv
  <1>3. CASE pc[t].op = "register"
    <2>1. "saving" \in Ops  BY DEF Ops
    <2>2. pc' = [pc EXCEPT ![t].op = "saving"] /\ savingDefaults' = TRUE
      BY <1>3 DEF Lock
    <2>3. t = "caller"  BY <1>1, <1>3 DEF PlaceInv, SavingInv
    <2>4. PICK r : PcIs("caller", r) /\ r.op = "saving"
      BY <1>1, <2>1, <2>2, <2>3, PcSetOp
    <2>5. PlaceInv'  BY <1>1, <2>2, <2>4, CallerMoves DEF Lock, PlaceInv
    <2> QED  BY <1>2, <2>5, PartsNext
  <1>4. CASE pc[t].op # "register"
    <2>1. PICK op \in Ops : op = IF pc[t].op = "load" THEN "loading" ELSE "reloading"
      BY DEF Ops
    <2>2. pc' = [pc EXCEPT ![t].op = op, ![t].todo = models] /\ UNCHANGED savingDefaults
      BY <1>1, <1>4, <2>1 DEF Lock, PlaceInv
    <2>3. pc[t] \in PcType /\ models \in SUBSET Models  BY <1>1 DEF PlaceInv
    <2>4. PICK r : r = [op |-> op, todo |-> models, keys |-> pc[t].keys, cur |-> pc[t].cur]
      OBVIOUS
    <2>5. r \in PcType /\ r.op = op  BY <2>3, <2>4 DEF PcType
    <2>6. pc' = [pc EXCEPT ![t] = r]
      <3>1. PICK e : e = pc[t]  OBVIOUS
      <3>2. PICK d : d = [e EXCEPT !.op = op]  OBVIOUS
      <3>3. d = [op |-> op, todo |-> e.todo, keys |-> e.keys, cur |-> e.cur]
        BY <2>3, <3>1, <3>2 DEF PcType
      <3>4. [d EXCEPT !.todo = models] = r  BY <2>4, <3>1, <3>3
      <3>5. pc' = [pc EXCEPT ![t] = [d EXCEPT !.todo = models]]
        BY <1>1, <2>2, <3>1, <3>2 DEF PlaceInv
      <3> QED  BY <3>4, <3>5
    <2>7. PcIs(t, r)  BY <1>1, <2>5, <2>6, PcSet
    <2>8. PlaceInv'
      <3>1. CASE t = "caller"
        BY <1>1, <2>1, <2>5, <2>7, <3>1, CallerMoves DEF Lock, PlaceInv
      <3>2. CASE t = "watch"
        <4>1. op = "reloading"  BY <1>1, <2>1, <3>2 DEF PlaceInv, SavingInv
        <4> QED  BY <1>1, <2>2, <2>5, <2>7, <3>2, <4>1, WatchMoves DEF Lock
      <3> QED  BY <3>1, <3>2
    <2> QED  BY <1>2, <2>8, PartsNext
  <1> QED  BY <1>3, <1>4

\* One key is saved: as a default while the flag is up, else as a value that the
\* app asked for.
LEMMA SaveKeyStep ==
  ASSUME ConfigInv, NEW t \in {"caller", "app"}, NEW k \in Keys, SaveKey(t, k)
  PROVE  ConfigInv'
  <1>1. StoreInv /\ PlaceInv /\ t \in Threads  BY Parts DEF Threads
  <1>2. PICK m \in Models, f \in Fields : k = <<m, f>>  BY DEF Keys
  <1>3. k[1] = m /\ k[2] = f  BY <1>2
  <1>4. StoreInv'
    <2>1. CASE savingDefaults = TRUE
      BY <1>1, <1>3, <2>1, DefaultSet DEF SaveKey
    <2>2. CASE savingDefaults # TRUE
      <3>1. t = "app"  BY <1>1, <2>2 DEF PlaceInv, SavingInv, SaveKey
      <3>2. {k} \in SUBSET Keys /\ {k} \subseteq asked
        BY <1>1, <3>1 DEF PlaceInv, SavingInv, SaveKey
      <3>3. CASE savingDefaults  BY <1>1, <1>3, <3>3, DefaultSet DEF SaveKey
      <3>4. CASE ~savingDefaults
        <4>1. SetValue({k}, live)  BY <3>4 DEF SaveKey
        <4>2. live \in LiveType /\ UNCHANGED <<disk, live, asked>> /\ asked \in SUBSET Keys
          BY <1>1 DEF StoreInv, SaveKey
        <4> QED  BY <1>1, <3>2, <4>1, <4>2, ValueSet
      <3> QED  BY <3>3, <3>4
    <2> QED  BY <2>1, <2>2
  <1>5. PICK keys \in SUBSET Keys : keys = pc[t].keys \ {k}
    BY <1>1 DEF PlaceInv, PcType
  <1>6. PICK r : r = [pc[t] EXCEPT !.keys = keys]  OBVIOUS
  <1>7. pc[t] \in PcType  BY <1>1 DEF PlaceInv
  <1>8. r \in PcType /\ r.op = pc[t].op /\ r.keys = keys  BY <1>6, <1>7 DEF PcType
  <1>9. pc' = [pc EXCEPT ![t] = r]  BY <1>5, <1>6 DEF SaveKey
  <1>10. PcIs(t, r)  BY <1>1, <1>8, <1>9, PcSet
  <1>11. PlaceInv'
    <2>1. CASE t = "caller"
      <3>1. savingDefaults' = TRUE /\ r.op = "saving"
        BY <1>1, <1>8, <2>1 DEF PlaceInv, SavingInv, SaveKey
      <3> QED  BY <1>1, <1>10, <2>1, <3>1, CallerMoves DEF SaveKey, PlaceInv
    <2>2. CASE t = "app"
      <3>1. r.op = "saving" /\ r.keys \subseteq asked'
        BY <1>1, <1>5, <1>8, <2>2 DEF PlaceInv, SavingInv, SaveKey
      <3> QED  BY <1>1, <1>10, <2>2, <3>1, AppMoves DEF SaveKey
    <2> QED  BY <2>1, <2>2
  <1> QED  BY <1>4, <1>11, PartsNext

LEMMA SaveDefaultsEndsStep ==
  ASSUME ConfigInv, SaveDefaultsEnds
  PROVE  ConfigInv'
  <1>1. StoreInv /\ PlaceInv  BY Parts
  <1>2. StoreInv'  BY <1>1, NothingStored DEF SaveDefaultsEnds, StoreInv
  <1>3. PICK op \in Ops : op = IF pc["caller"].cur = Nobody THEN "loading" ELSE "loaded"
    BY DEF Ops
  <1>4. pc' = [pc EXCEPT !["caller"].op = op]  BY <1>3 DEF SaveDefaultsEnds
  <1>5. PICK r : PcIs("caller", r) /\ r.op = op /\ r.cur = pc["caller"].cur
    BY <1>1, <1>4, ThreadsAre, PcSetOp
  <1>6. op = "loaded" => r.cur \in Models
    BY <1>1, <1>3, <1>5, ThreadsAre DEF PlaceInv, PcType
  <1>7. PlaceInv'  BY <1>1, <1>3, <1>5, <1>6, CallerMoves DEF SaveDefaultsEnds, PlaceInv
  <1> QED  BY <1>2, <1>7, PartsNext

\* A missing section is saved with the flag up; one that is there is decoded.
LEMMA LoadToModelStep ==
  ASSUME ConfigInv, NEW m \in Models, LoadToModel(m)
  PROVE  ConfigInv'
  <1>1. StoreInv /\ PlaceInv  BY Parts
  <1>2. PICK op \in Ops : op = IF InConfig(m) THEN "loaded" ELSE "saving"  BY DEF Ops
  <1>3. PICK keys \in SUBSET Keys : keys = IF InConfig(m) THEN {} ELSE {m} \X Fields
    BY DEF Keys
  <1>4. pc["caller"] \in PcType  BY <1>1, ThreadsAre DEF PlaceInv
  <1>5. PICK todo \in SUBSET Models : todo = pc["caller"].todo \ {m}  BY <1>4 DEF PcType
  <1>6. PICK r : r = [op |-> op, todo |-> todo, keys |-> keys, cur |-> m]  OBVIOUS
  <1>7. r \in PcType /\ r.op = op /\ r.cur = m  BY <1>6 DEF PcType
  <1>8. pc' = [pc EXCEPT !["caller"] = r]  BY <1>2, <1>3, <1>5, <1>6 DEF LoadToModel
  <1>9. PcIs("caller", r)  BY <1>1, <1>7, <1>8, ThreadsAre, PcSet
  <1>10. PlaceInv'  BY <1>1, <1>2, <1>7, <1>9, CallerMoves DEF LoadToModel, PlaceInv
  <1>11. StoreInv'
    <2>1. CASE UNCHANGED live  BY <1>1, <2>1, NothingStored DEF LoadToModel, StoreInv
    <2>2. CASE live' = [live EXCEPT ![m] = expandEnvRefs(UnmarshalKey(m, @))]
      <3>1. live' \in LiveType  BY <1>1, <2>2, Decoded DEF StoreInv, LiveType
      <3> QED  BY <1>1, <3>1, ModelsWritten DEF LoadToModel
    <2> QED  BY <2>1, <2>2 DEF LoadToModel
  <1> QED  BY <1>10, <1>11, PartsNext

LEMMA RegisterIfAbsentStep ==
  ASSUME ConfigInv, RegisterIfAbsent
  PROVE  ConfigInv'
  <1>1. StoreInv /\ PlaceInv  BY Parts
  <1>2. StoreInv'  BY <1>1, NothingStored DEF RegisterIfAbsent, StoreInv
  <1>3. PICK op \in Ops : op = IF pc["caller"].cur \in models THEN "loading" ELSE "register"
    BY DEF Ops
  <1>4. pc["caller"] \in PcType  BY <1>1, ThreadsAre DEF PlaceInv
  <1>5. PICK e : e = pc["caller"]  OBVIOUS
  <1>6. PICK d : d = [e EXCEPT !.op = op]  OBVIOUS
  <1>7. d = [op |-> op, todo |-> e.todo, keys |-> e.keys, cur |-> e.cur]
    BY <1>4, <1>5, <1>6 DEF PcType
  <1>8. PICK r : r = [op |-> op, todo |-> e.todo, keys |-> e.keys, cur |-> Nobody]  OBVIOUS
  <1>9. [d EXCEPT !.cur = Nobody] = r  BY <1>7, <1>8
  <1>10. pc' = [pc EXCEPT !["caller"] = [d EXCEPT !.cur = Nobody]]
    BY <1>1, <1>3, <1>5, <1>6, ThreadsAre DEF RegisterIfAbsent, PlaceInv
  <1>11. r \in PcType /\ r.op = op  BY <1>4, <1>5, <1>8 DEF PcType
  <1>12. PcIs("caller", r)  BY <1>1, <1>9, <1>10, <1>11, ThreadsAre, PcSet
  <1>13. models' \in SUBSET Models  BY <1>1 DEF RegisterIfAbsent, PlaceInv, SavingInv
  <1>14. PlaceInv'  BY <1>1, <1>3, <1>11, <1>12, <1>13, CallerMoves DEF RegisterIfAbsent
  <1> QED  BY <1>2, <1>14, PartsNext

LEMMA UnlockStep ==
  ASSUME ConfigInv, NEW t \in {"caller", "watch"}, Unlock(t)
  PROVE  ConfigInv'
  <1>1. StoreInv /\ PlaceInv /\ t \in Threads  BY Parts DEF Threads
  <1>2. StoreInv'  BY <1>1, NothingStored DEF Unlock, StoreInv
  <1>3. PICK r : r = Idle  OBVIOUS
  <1>4. PcIs(t, r) /\ r.op = "idle"  BY <1>1, <1>3, IdleTyped, PcSet DEF Unlock
  <1>5. CASE t = "caller"
    <2>1. PlaceInv'  BY <1>1, <1>4, <1>5, CallerMoves DEF Unlock, PlaceInv
    <2> QED  BY <1>2, <2>1, PartsNext
  <1>6. CASE t = "watch"
    <2>1. PlaceInv'  BY <1>1, <1>4, <1>6, WatchMoves DEF Unlock
    <2> QED  BY <1>2, <2>1, PartsNext
  <1> QED  BY <1>5, <1>6

LEMMA UnregisterStep ==
  ASSUME ConfigInv, NEW m \in Models, Unregister(m)
  PROVE  ConfigInv'
  <1>1. StoreInv /\ PlaceInv  BY Parts
  <1>2. PlaceInv'  BY <1>1, NobodyMoves DEF Unregister, PlaceInv
  <1>3. StoreInv'
    <2>1. CASE UNCHANGED <<layer, overrideKeys>>
      BY <1>1, <2>1, NothingStored DEF Unregister, StoreInv
    <2>2. CASE Delete(m)  BY <1>1, <2>2, SectionDeleted DEF Unregister
    <2> QED  BY <2>1, <2>2 DEF Unregister
  <1> QED  BY <1>2, <1>3, PartsNext

\* The program sets a key to a value.
LEMMA SetStep ==
  ASSUME ConfigInv, NEW m \in Models, NEW f \in Fields, NEW v \in Plain, Set(m, f, v)
  PROVE  ConfigInv'
  <1>1. StoreInv /\ PlaceInv  BY Parts
  <1>2. v \in Stored \ {NoVal}  BY ConfigConstants DEF Stored
  <1>3. PICK l : l = [live EXCEPT ![m][f] = v]  OBVIOUS
  <1>4. l \in LiveType  BY <1>1, <1>2, <1>3 DEF StoreInv, LiveType
  <1>5. {<<m, f>>} \in SUBSET Keys  BY DEF Keys
  <1>6. asked' = asked \cup {<<m, f>>} /\ asked' \in SUBSET Keys
    BY <1>1, <1>5 DEF Set, StoreInv
  <1>7. StoreInv'  BY <1>1, <1>3, <1>4, <1>5, <1>6, ValueSet DEF Set
  <1>8. PlaceInv'  BY <1>1, <1>6, NobodyMoves DEF Set, PlaceInv
  <1> QED  BY <1>7, <1>8, PartsNext

LEMMA SaveToFileStep ==
  ASSUME ConfigInv, SaveToFile
  PROVE  ConfigInv'
  <1>1. StoreInv /\ PlaceInv  BY Parts
  <1>2. StoreInv'  BY <1>1, FileSaved DEF SaveToFile
  <1>3. PlaceInv'  BY <1>1, NobodyMoves DEF SaveToFile, PlaceInv
  <1> QED  BY <1>2, <1>3, PartsNext

LEMMA AssignStep ==
  ASSUME ConfigInv, NEW m \in Models, NEW f \in Fields, NEW v \in Plain, Assign(m, f, v)
  PROVE  ConfigInv'
  <1>1. StoreInv /\ PlaceInv  BY Parts
  <1>2. v \in Stored \ {NoVal}  BY ConfigConstants DEF Stored
  <1>3. live' \in LiveType  BY <1>1, <1>2 DEF Assign, StoreInv, LiveType
  <1>4. StoreInv'  BY <1>1, <1>3, ModelsWritten DEF Assign
  <1>5. PlaceInv'  BY <1>1, NobodyMoves DEF Assign, PlaceInv
  <1> QED  BY <1>4, <1>5, PartsNext

\* The app saves a model: all of its keys are asked for.
LEMMA SaveStep ==
  ASSUME ConfigInv, NEW m \in Models, Save(m)
  PROVE  ConfigInv'
  <1>1. StoreInv /\ PlaceInv  BY Parts
  <1>2. {m} \X Fields \in SUBSET Keys /\ "saving" \in Ops  BY DEF Keys, Ops
  <1>3. PICK r : PcIs("app", r) /\ r.op = "saving" /\ r.keys = {m} \X Fields
    BY <1>1, <1>2, ThreadsAre, BeginsAt DEF Save
  <1>4. asked' = asked \cup ({m} \X Fields) /\ asked' \in SUBSET Keys
    BY <1>1, <1>2 DEF Save, StoreInv
  <1>5. StoreInv'  BY <1>1, <1>4, NothingStored DEF Save
  <1>6. PlaceInv'  BY <1>1, <1>3, <1>4, AppMoves DEF Save
  <1> QED  BY <1>5, <1>6, PartsNext

LEMMA SaveEndsStep ==
  ASSUME ConfigInv, SaveEnds
  PROVE  ConfigInv'
  <1>1. StoreInv /\ PlaceInv  BY Parts
  <1>2. StoreInv'  BY <1>1, NothingStored DEF SaveEnds, StoreInv
  <1>3. PICK r : r = Idle  OBVIOUS
  <1>4. PcIs("app", r) /\ r.op = "idle" /\ r.keys = {}
    BY <1>1, <1>3, ThreadsAre, IdleTyped, PcSet DEF SaveEnds
  <1>5. PlaceInv'  BY <1>1, <1>4, AppMoves DEF SaveEnds
  <1> QED  BY <1>2, <1>5, PartsNext

LEMMA WatchStepInv ==
  ASSUME ConfigInv, Watch
  PROVE  ConfigInv'
  <1>1. StoreInv /\ PlaceInv  BY Parts
  <1>2. StoreInv'
    <2>1. CASE UNCHANGED layer  BY <1>1, <2>1, NothingStored DEF Watch, StoreInv
    <2>2. CASE layer' = [layer EXCEPT !.file = disk]  BY <1>1, <2>2, FileRead DEF Watch
    <2> QED  BY <2>1, <2>2 DEF Watch
  <1>3. PICK op \in Ops : op = IF torn THEN "idle" ELSE "reload"  BY DEF Ops
  <1>4. pc' = [pc EXCEPT !["watch"].op = op]  BY <1>3 DEF Watch
  <1>5. "watch" \in Threads  BY DEF Threads
  <1>6. PICK r : PcIs("watch", r) /\ r.op = op  BY <1>1, <1>4, <1>5, PcSetOp
  <1>7. PlaceInv'  BY <1>1, <1>3, <1>6, WatchMoves DEF Watch
  <1> QED  BY <1>2, <1>7, PartsNext

LEMMA ReloadStep ==
  ASSUME ConfigInv, NEW m \in Models, Reload(m)
  PROVE  ConfigInv'
  <1>1. StoreInv /\ PlaceInv  BY Parts
  <1>2. StoreInv'
    <2>1. CASE UNCHANGED live  BY <1>1, <2>1, NothingStored DEF Reload, StoreInv
    <2>2. CASE live' = [live EXCEPT ![m] = Next0(m)]
      <3>1. live' \in LiveType  BY <1>1, <2>2, Decoded DEF StoreInv, LiveType, Next0
      <3> QED  BY <1>1, <3>1, ModelsWritten DEF Reload
    <2> QED  BY <2>1, <2>2 DEF Reload
  <1>3. pc["watch"] \in PcType  BY <1>1, ThreadsAre DEF PlaceInv
  <1>4. PICK todo \in SUBSET Models : todo = pc["watch"].todo \ {m}  BY <1>3 DEF PcType
  <1>5. PICK r : r = [pc["watch"] EXCEPT !.todo = todo]  OBVIOUS
  <1>6. r \in PcType /\ r.op = pc["watch"].op  BY <1>3, <1>5 DEF PcType
  <1>7. pc' = [pc EXCEPT !["watch"] = r]  BY <1>4, <1>5 DEF Reload
  <1>8. PcIs("watch", r)  BY <1>1, <1>6, <1>7, ThreadsAre, PcSet
  <1>9. PlaceInv'  BY <1>1, <1>6, <1>8, WatchMoves DEF Reload, PlaceInv, SavingInv
  <1> QED  BY <1>2, <1>9, PartsNext

---------------------------------------------------------------------------
(* The theorems                                                            *)

LEMMA ConfigInitInv == ConfigInit => ConfigInv
  <1> SUFFICES ASSUME ConfigInit  PROVE ConfigInv
    OBVIOUS
  <1>1. NoVal \in Stored /\ Code \in Stored \ {NoVal}  BY ConfigConstants DEF Stored
  <1>2. NoLayer \in Layers /\ \A m \in Models, f \in Fields : NoLayer[m][f] = NoVal
    BY <1>1 DEF NoLayer, Layers
  <1>3. layer \in LayerType /\ layer.override = NoLayer /\ layer.file = NoLayer
    BY <1>2 DEF ConfigInit, LayerType
  <1>4. live \in LiveType  BY <1>1 DEF ConfigInit, LiveType
  <1>5. StoreInv
    BY <1>2, <1>3, <1>4 DEF ConfigInit, StoreInv, Accounts, FileHoldsNoDefaults, AskedInv
  <1>6. PlaceInv
    BY ThreadsAre, IdleTyped DEF ConfigInit, PlaceInv, SavingInv
  <1> QED  BY <1>5, <1>6, Parts

LEMMA ConfigNextInv == ConfigInv /\ [ConfigNext]_vars => ConfigInv'
  <1> SUFFICES ASSUME ConfigInv, [ConfigNext]_vars  PROVE ConfigInv'
    OBVIOUS
  <1>1. CASE WatchStep
    BY <1>1, WatchStepInv, LockStep, UnlockStep, ReloadStep DEF WatchStep
  <1>2. CASE CallerStep
    BY <1>2, LockStep, UnlockStep, SaveDefaultsEndsStep, RegisterIfAbsentStep,
       LoadToModelStep, SaveKeyStep DEF CallerStep
  <1>3. CASE AppStep  BY <1>3, SaveEndsStep, SaveKeyStep DEF AppStep
  <1>4. CASE EditEnds \/ LoadFromFile \/ SaveToFile
    BY <1>4, EditEndsStep, LoadFromFileStep, SaveToFileStep
  <1>5. ASSUME NEW m \in Models, Register(m) \/ Unregister(m) \/ Save(m)
        PROVE  ConfigInv'
    BY <1>5, RegisterStep, UnregisterStep, SaveStep
  <1>6. ASSUME NEW k \in EditKeys, NEW v \in EditVals, NEW b \in BOOLEAN,
               Edit(k[1], k[2], v, b)
        PROVE  ConfigInv'
    <2>1. k[1] \in Models /\ k[2] \in Fields  BY ConfigConstants
    <2> QED  BY <1>6, <2>1, EditStep
  <1>7. ASSUME NEW k \in SetKeys, NEW v \in Plain,
               Set(k[1], k[2], v) \/ Assign(k[1], k[2], v)
        PROVE  ConfigInv'
    <2>1. k[1] \in Models /\ k[2] \in Fields  BY ConfigConstants
    <2> QED  BY <1>7, <2>1, SetStep, AssignStep
  <1>8. CASE UNCHANGED vars
    <2>1. StoreInv'  BY <1>8, Parts, NothingStored DEF vars, StoreInv
    <2>2. PlaceInv'  BY <1>8, Parts, NobodyMoves DEF vars, PlaceInv
    <2> QED  BY <2>1, <2>2, PartsNext
  <1> QED  BY <1>1, <1>2, <1>3, <1>4, <1>5, <1>6, <1>7, <1>8 DEF ConfigNext

\* SetValue, Delete, SetDefault, the loads and the saves keep ConfigInv: the
\* accounts agree with the override layer, nothing that nobody asked for is in
\* the accounts or in the file, and the caller saves with the flag up.
THEOREM ConfigInvariant == ConfigSpec => []ConfigInv
  BY ConfigInitInv, ConfigNextInv, PTL DEF ConfigSpec

\* Origin says "runtime" of exactly the keys the override layer holds, for any
\* number of models, edits and calls (format.go SetValue, Delete).
THEOREM OriginsAreTruthful == ConfigSpec => []OriginTruthful
  <1>1. ConfigInv => OriginTruthful  BY DEF ConfigInv
  <1> QED  BY <1>1, ConfigInvariant, PTL

\* What SaveToFile writes was once written there by the user or set by the program:
\* no default of the code reaches the file (format.go WriteConfig, config.go
\* saveDefaults).
THEOREM DefaultsStayInCode == ConfigSpec => []FileHoldsNoDefaults
  <1>1. ConfigInv => FileHoldsNoDefaults  BY DEF ConfigInv
  <1> QED  BY <1>1, ConfigInvariant, PTL

\* Only Reload takes a model off the list of a reload under way.
ReloadedWell(m) ==
  (pc["watch"].op = "reloading" /\ m \in pc["watch"].todo \ pc'["watch"].todo)
  => /\ Valid(live[m]) => Valid(live'[m])
     /\ (m \in refuses \/ ~InConfig(m)) => live'[m] = live[m]

LEMMA ReloadIsSound ==
  ASSUME ConfigInv, NEW m \in Models, NEW n \in Models, Reload(n)
  PROVE  ReloadedWell(m)
  <1>1. StoreInv /\ PlaceInv  BY Parts
  <1>2. pc["watch"] \in PcType  BY <1>1, ThreadsAre DEF PlaceInv
  <1>3. pc'["watch"].todo = pc["watch"].todo \ {n}
    BY <1>1, <1>2, ThreadsAre DEF Reload, PlaceInv, PcType
  <1>4. CASE m # n  BY <1>3, <1>4 DEF ReloadedWell
  <1>5. CASE m = n
    <2>1. live \in LiveType  BY <1>1 DEF StoreInv
    <2>2. CASE InConfig(m) /\ Valid(Next0(m)) /\ m \notin refuses
      <3>1. live'[m] = Next0(m)  BY <1>5, <2>1, <2>2 DEF Reload, LiveType
      <3> QED  BY <2>2, <3>1 DEF ReloadedWell
    <2>3. CASE ~(InConfig(m) /\ Valid(Next0(m)) /\ m \notin refuses)
      <3>1. live' = live  BY <1>5, <2>3 DEF Reload
      <3> QED  BY <3>1 DEF ReloadedWell
    <2> QED  BY <2>2, <2>3
  <1> QED  BY <1>4, <1>5

LEMMA OthersDoNotReload ==
  ASSUME ConfigInv, NEW m \in Models, pc'["watch"] = pc["watch"]
  PROVE  ReloadedWell(m)
  BY DEF ReloadedWell

LEMMA PcElsewhere ==
  ASSUME PlaceInv, CallerStep \/ AppStep \/ LoadFromFile \/
                   (\E n \in Models : Register(n) \/ Save(n))
  PROVE  pc'["watch"] = pc["watch"]
  <1>1. \E t \in {"caller", "app"} : \E r : pc' = [pc EXCEPT ![t] = r]
    <2>1. CASE CallerStep
      BY <2>1 DEF CallerStep, Lock, Unlock, SaveDefaultsEnds, RegisterIfAbsent, LoadToModel,
                  SaveKey
    <2>2. CASE AppStep  BY <2>2 DEF AppStep, SaveEnds, SaveKey
    <2>3. CASE LoadFromFile  BY <2>3 DEF LoadFromFile, Begins
    <2>4. CASE \E n \in Models : Register(n) \/ Save(n)
      BY <2>4 DEF Register, Save, Begins
    <2> QED  BY <2>1, <2>2, <2>3, <2>4
  <1> QED  BY <1>1, ThreadsAre DEF PlaceInv

\* A reload never makes a valid model invalid, and writes neither a model whose
\* section the file lacks nor one that refuses (reload.go ReloadWithChanges).
THEOREM ReloadsAreSound == ConfigSpec => ReloadSound
  <1>1. ConfigInv /\ [ConfigNext]_vars => [\A m \in Models : ReloadedWell(m)]_vars
    <2> SUFFICES ASSUME ConfigInv, ConfigNext, NEW m \in Models  PROVE ReloadedWell(m)
      OBVIOUS
    <2>1. StoreInv /\ PlaceInv  BY Parts
    <2>2. CASE WatchStep
      <3>1. CASE Watch \/ Lock("watch") \/ Unlock("watch")
        BY <3>1 DEF Watch, Lock, Unlock, ReloadedWell
      <3> QED  BY <2>2, <3>1, ReloadIsSound DEF WatchStep
    <2>3. CASE CallerStep \/ AppStep \/ LoadFromFile
      BY <2>1, <2>3, PcElsewhere, OthersDoNotReload
    <2>4. CASE \E n \in Models : Register(n) \/ Save(n)
      BY <2>1, <2>4, PcElsewhere, OthersDoNotReload
    <2>5. CASE UNCHANGED pc  BY <2>5, OthersDoNotReload
    <2> QED  BY <2>2, <2>3, <2>4, <2>5
             DEF ConfigNext, EditEnds, SaveToFile, Unregister, Edit, Set, Assign
  <1> QED  BY <1>1, ConfigInvariant, PTL DEF ConfigSpec, ReloadSound, ReloadedWell
============================================================================

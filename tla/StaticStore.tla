---------------------------- MODULE StaticStore ----------------------------
(***************************************************************************)
(* The cache of static files (router/static.go).  Handlers open files      *)
(* through it: the cache, then the disk, then the files embedded in the    *)
(* binary.  A watcher drops the entry of a file that changed on disk, and  *)
(* entries expire.  Open and the watcher share no lock: a file may change, *)
(* and its event be handled, between reading it and caching it.            *)
(*                                                                         *)
(* The content of a file is a number, NoFile if there is none.  Names are  *)
(* below the root; cleaning them and following symbolic links is left out. *)
(***************************************************************************)
EXTENDS Naturals, Sequences

CONSTANTS
    Files,
    Embedded,   \* the files that the binary has too
    Openers,    \* goroutines that call Open
    MaxWrites   \* bound on changes of the disk

NoFile == 0
Baked == 100    \* the content of an embedded file

VARIABLES
    disk,       \* the files in the directory
    cache,      \* the cached contents
    forever,    \* ttl <= 0: entries do not expire
    watch,      \* the watcher: "new", "none", "spent" (Watch failed), "on", "ended"
    events,     \* what fsnotify has to deliver
    open,       \* Open of each goroutine: its step, the file, what it read
    writes,     \* changes so far
    moved,      \* history: entries of files that were renamed
    late        \* history: entries stored after their event was handled
staticVars == <<disk, cache, forever, watch, events, open, writes, moved, late>>

Idle == [at |-> "idle", file |-> CHOOSE f \in Files : TRUE, data |-> NoFile]

\* What a reader of the file should get.
Current(f) ==
    IF disk[f] # NoFile THEN disk[f]
    ELSE IF f \in Embedded THEN Baked ELSE NoFile

StaticInit ==
    /\ disk \in [Files -> {NoFile, 1}]
    /\ cache = [f \in Files |-> NoFile]
    /\ forever \in BOOLEAN
    /\ watch = "new"
    /\ events = <<>>
    /\ open = [o \in Openers |-> Idle]
    /\ writes = 1 /\ moved = {} /\ late = {}

\* No store: the state of a router without static files.
StaticIdle ==
    /\ StaticInit
    /\ disk = [f \in Files |-> NoFile] /\ ~forever

---------------------------------------------------------------------------
\* SetStatic makes the store, watches the directory if it exists, and mounts
\* the handler.  A Watch that fails is not tried again: watchOnce is used up.
SetStatic ==
    /\ watch = "new"
    /\ watch' \in {"none", "on", "spent"}
    /\ UNCHANGED <<disk, cache, forever, events, open, writes, moved, late>>

\* Open answers from the cache; otherwise it goes on to the disk.
OpenMisses(o) ==
    /\ open[o].at = "idle" /\ watch # "new"
    /\ \E f \in Files :
           /\ cache[f] = NoFile
           /\ open' = [open EXCEPT ![o] = [at |-> "read", file |-> f, data |-> NoFile]]
    /\ UNCHANGED <<disk, cache, forever, watch, events, writes, moved, late>>

\* Disk first, then the embedded files, then ErrNotExist.
OpenReads(o) ==
    LET data == Current(open[o].file) IN
    /\ open[o].at = "read"
    /\ open' = [open EXCEPT ![o] =
                   IF data = NoFile THEN Idle ELSE [@ EXCEPT !.at = "store", !.data = data]]
    /\ UNCHANGED <<disk, cache, forever, watch, events, writes, moved, late>>

Pending(f) == \E k \in DOMAIN events : events[k].file = f /\ events[k].op # "rename"

\* The entry is stored with the TTL of the store.
setCache(o) ==
    LET f == open[o].file IN
    /\ open[o].at = "store"
    /\ cache' = [cache EXCEPT ![f] = open[o].data]
    /\ late' = IF open[o].data # Current(f) /\ ~Pending(f) THEN late \cup {f} ELSE late
    /\ open' = [open EXCEPT ![o] = Idle]
    /\ UNCHANGED <<disk, forever, watch, events, writes, moved>>

Dropped(f) ==
    /\ cache' = [cache EXCEPT ![f] = NoFile]
    /\ moved' = moved \ {f} /\ late' = late \ {f}

\* The cache drops what expired: every store has a TTL unless `forever`.
Expire(f) ==
    /\ cache[f] # NoFile /\ ~forever
    /\ Dropped(f)
    /\ UNCHANGED <<disk, forever, watch, events, open, writes>>

---------------------------------------------------------------------------
\* The watcher's directories are those that existed when it was made; the files
\* of the model are in one of them.
Changed(f, content, op) ==
    /\ writes < MaxWrites
    /\ writes' = writes + 1
    /\ disk' = [disk EXCEPT ![f] = content]
    /\ events' = IF watch = "on" THEN Append(events, [op |-> op, file |-> f]) ELSE events
    /\ moved' = IF op = "rename" /\ cache[f] # NoFile THEN moved \cup {f} ELSE moved
    /\ UNCHANGED <<cache, forever, watch, open, late>>

WriteFile(f) == Changed(f, writes + 1, IF disk[f] = NoFile THEN "create" ELSE "write")
RemoveFile(f) == disk[f] # NoFile /\ Changed(f, NoFile, "remove")
RenameFile(f) == disk[f] # NoFile /\ Changed(f, NoFile, "rename")

\* Mutated form: a file that was removed keeps its entry.
invalidatesKeepsRemoved(op) == op \in {"create", "write"}
\* The events after which an entry is dropped: Rename is not among them.
invalidates(op) == op \in {"create", "write", "remove"}

\* The goroutine of Watch takes an event and drops the entry of its file.
Invalidate ==
    /\ watch = "on" /\ events # <<>>
    /\ events' = Tail(events)
    /\ IF invalidates(Head(events).op)
       THEN Dropped(Head(events).file) ELSE UNCHANGED <<cache, moved, late>>
    /\ UNCHANGED <<disk, forever, watch, open, writes>>

\* Stop, of the store or of all stores: the goroutine ends, Open goes on.
Stop ==
    /\ watch = "on"
    /\ watch' = "ended" /\ events' = <<>>
    /\ UNCHANGED <<disk, cache, forever, open, writes, moved, late>>

StaticNext ==
    \/ \E o \in Openers : OpenMisses(o) \/ OpenReads(o) \/ setCache(o)
    \/ \E f \in Files : Expire(f) \/ WriteFile(f) \/ RemoveFile(f) \/ RenameFile(f)
    \/ SetStatic \/ Invalidate \/ Stop

StaticSpec == StaticInit /\ [][StaticNext]_staticVars

---------------------------------------------------------------------------
\* While the directory is watched, a cached file is the one on disk, the
\* embedded one if there is none, unless its event is still on its way.  Two
\* holes remain in the code: a rename, and an Open that stores what it read
\* after the event that should have dropped it.
FilesFresh ==
    \A f \in Files :
        watch = "on" /\ cache[f] # NoFile /\ ~Pending(f) /\ f \notin moved \cup late
            => cache[f] = Current(f)

StaticTypeOK ==
    /\ disk \in [Files -> Nat] /\ cache \in [Files -> Nat] /\ writes \in Nat
    /\ events \in Seq([op : {"create", "write", "remove", "rename"}, file : Files])
    /\ open \in [Openers -> [at : {"idle", "read", "store"}, file : Files, data : Nat]]

\* The inductive invariant: nothing is opened, and so nothing cached, before the
\* store is there and its directory watched.
StaticInv ==
    /\ StaticTypeOK
    /\ watch = "new" => /\ \A f \in Files : cache[f] = NoFile
                        /\ \A o \in Openers : open[o].at = "idle"
    /\ FilesFresh
=============================================================================

---------------------------- MODULE MemoryStorage ----------------------------
(***************************************************************************)
(* The in-memory storage (storage/memory/memory.go): every method runs in  *)
(* tx, under one mutex.                                                    *)
(***************************************************************************)
EXTENDS StorageCalls

\* tx takes the mutex,
MemoryLock(p) ==
    /\ Called(p, "memory", Operations[kind])
    /\ holder = Nobody
    /\ holder' = p
    /\ pc' = [pc EXCEPT ![p] = "locked"]
    /\ UNCHANGED <<setup, store, known, calls, seen, late>>

\* Mutant: the mutex is released by a plain call after the function, which a
\* panic skips.
MemoryUnlockNoDefer(p) ==
    /\ holder = p
    /\ holder' = IF calls'[p].answer = "panic" THEN Abandoned ELSE Nobody
    /\ UNCHANGED <<setup, late>>

\* and releases it in a deferred call, after a panic as well.
MemoryUnlock(p) ==
    /\ holder = p
    /\ holder' = Nobody
    /\ UNCHANGED <<setup, late>>

MemoryCreate(p) ==
    /\ At(p, "locked", {"create"})
    /\ IF store[KeyOf(p)] # NoObject
       THEN Keep /\ Answer(p, "alreadyExists", {})
       ELSE Put(KeyOf(p), Created(p, calls[p].name)) /\ Answer(p, "ok", {})
    /\ MemoryUnlock(p)

\* The keys are a field of the storage, with the zero value at first.
MemoryGet(p) ==
    /\ At(p, "locked", {"get"})
    /\ Keep
    /\ IF store[KeyOf(p)] # NoObject THEN Answer(p, "ok", {store[KeyOf(p)]})
       ELSE IF kind = "Keys" THEN Answer(p, "ok", {ZeroObject})
       ELSE Answer(p, "notFound", {})
    /\ MemoryUnlock(p)

MemoryList(p) ==
    /\ At(p, "locked", {"list"})
    /\ Keep
    /\ Answer(p, "ok", StaticList(Stored))
    /\ MemoryUnlock(p)

MemoryDelete(p) ==
    /\ At(p, "locked", {"delete"})
    /\ IF store[KeyOf(p)] = NoObject
       THEN Keep /\ Answer(p, "notFound", {})
       ELSE Put(KeyOf(p), NoObject) /\ Answer(p, "ok", {})
    /\ MemoryUnlock(p)

\* The updater runs under the mutex.
MemoryUpdate(p) ==
    LET old == IF store[KeyOf(p)] = NoObject THEN ZeroObject ELSE store[KeyOf(p)]
    IN  /\ At(p, "locked", {"update", "updateFails", "updatePanics"})
        /\ IF store[KeyOf(p)] = NoObject /\ kind # "Keys" THEN Keep /\ Answer(p, "notFound", {})
           ELSE CASE calls[p].op = "updateFails"  -> Keep /\ Answer(p, "error", {})
                  [] calls[p].op = "updatePanics" -> Keep /\ Answer(p, "panic", {})
                  [] OTHER -> Put(KeyOf(p), Updated(old, p)) /\ Answer(p, "ok", {})
        /\ MemoryUnlock(p)

MemoryMethod(p) ==
    MemoryCreate(p) \/ MemoryGet(p) \/ MemoryList(p) \/ MemoryDelete(p) \/ MemoryUpdate(p)

=============================================================================

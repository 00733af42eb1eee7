---------------------------- MODULE RuntimeInit ----------------------------
(***************************************************************************)
(* turbobt/substrate/client.py: the registry and the metadata that every   *)
(* call to the chain needs are loaded by the first of them.                *)
(*                                                                         *)
(* A call is a task in Subtensor.api_call(), which stands for every method *)
(* that begins with `await self._init_runtime()`.  What the transport does *)
(* with a request is left open: it may raise, or the node may refuse.      *)
(***************************************************************************)
CONSTANTS
    Calls,         \* tasks that call api_call()
    Cancellable,   \* those somebody may cancel
    None           \* nobody holds the lock

ASSUME RuntimeAssumption == Cancellable \subseteq Calls /\ None \notin Calls

VARIABLES
    registry,   \* _registry: none, the core types, or those of the metadata
    metadata,   \* whether _metadata and _apis are set
    lock,       \* __lock
    stage       \* where each call is

vars == <<registry, metadata, lock, stage>>

Ended == {"returned", "raised", "cancelled", "broken", "notLoaded", "loadCancelled"}

\* Every variable has its type, and the types of the chain are there exactly
\* when its metadata is.
TypeOK ==
    /\ registry \in {"none", "core", "full"}
    /\ metadata \in BOOLEAN
    /\ metadata <=> registry = "full"
    /\ lock \in Calls \cup {None}
    /\ stage \in [Calls -> {"idle", "waiting", "loading", "calling"} \cup Ended]

Init ==
    /\ registry = "none"
    /\ metadata = FALSE
    /\ lock = None
    /\ stage = [t \in Calls |-> "idle"]

Goes(t, where) == stage' = [stage EXCEPT ![t] = where]

\* Mutant of LockFree: no lock.
NoLock == TRUE

\* `async with self.__lock` does not wait.
LockFree == lock = None

Enter(t) ==
    /\ stage[t] = "idle"
    /\ Goes(t, "waiting")
    /\ UNCHANGED <<registry, metadata, lock>>

\* `if self._registry: return`, and the lookups in _apis: `self._apis[api]`
\* raises TypeError when there are none.
Ready(t) ==
    /\ stage[t] = "waiting"
    /\ LockFree
    /\ registry # "none"
    /\ Goes(t, IF metadata THEN "calling" ELSE "broken")
    /\ UNCHANGED <<registry, metadata, lock>>

\* _registry gets the core types, which metadata_at_version() decodes with,
\* and the metadata is asked for with the lock held.
Load(t) ==
    /\ stage[t] = "waiting"
    /\ LockFree
    /\ registry = "none"
    /\ registry' = "core"
    /\ lock' = t
    /\ Goes(t, "loading")
    /\ UNCHANGED metadata

\* Mutant of Loaded: without add_portable_registry().
LoadedWithoutTypes(t) ==
    /\ stage[t] = "loading"
    /\ metadata' = TRUE
    /\ lock' = None
    /\ Goes(t, "calling")
    /\ UNCHANGED registry

\* The metadata has come; the rest of api_call() follows without an await.
Loaded(t) ==
    /\ stage[t] = "loading"
    /\ registry' = "full"
    /\ metadata' = TRUE
    /\ lock' = None
    /\ Goes(t, "calling")

\* Mutant of LoadFails: the lock is not released.
LoadFailsLocked(t) ==
    /\ stage[t] = "loading"
    /\ Goes(t, "notLoaded")
    /\ UNCHANGED <<registry, metadata, lock>>

\* The request raises, the node refuses it, or it has no metadata of version
\* 15: the exception leaves `async with`, and _registry as it is.
LoadFails(t) ==
    /\ stage[t] = "loading"
    /\ lock' = None
    /\ Goes(t, "notLoaded")
    /\ UNCHANGED <<registry, metadata>>

\* self.state.call(), and the answer decoded.
Call(t) ==
    /\ stage[t] = "calling"
    /\ \E how \in {"returned", "raised"} : Goes(t, how)
    /\ UNCHANGED <<registry, metadata, lock>>

\* Cancelled while it waits for the lock or for its own answer ...
Cancel(t) ==
    /\ t \in Cancellable
    /\ stage[t] \in {"waiting", "calling"}
    /\ Goes(t, "cancelled")
    /\ UNCHANGED <<registry, metadata, lock>>

\* ... or while it loads the metadata for everybody.
CancelLoad(t) ==
    /\ t \in Cancellable
    /\ stage[t] = "loading"
    /\ lock' = None
    /\ Goes(t, "loadCancelled")
    /\ UNCHANGED <<registry, metadata>>

Advance(t) == Ready(t) \/ Load(t) \/ Loaded(t) \/ LoadFails(t) \/ Call(t)

Next == \E t \in Calls : Enter(t) \/ Advance(t) \/ Cancel(t) \/ CancelLoad(t)

Spec == Init /\ [][Next]_vars

\* The event loop runs what is ready and every request ends (EveryCallEnds of
\* WebSocketProperties).
FairSpec == Spec /\ \A t \in Calls : WF_vars(Advance(t))

-----------------------------------------------------------------------------
(* Properties                                                              *)

\* The lock is held exactly by the call that loads, so the metadata is asked
\* for by one call at a time.
OneLoader == \A t \in Calls : stage[t] = "loading" <=> lock = t

\* No call finds _registry set and _metadata not, unless the one load there
\* ever was has failed or was cancelled: the others wait for it to end, though
\* _registry is set before the metadata is there.
OnlyAFailedLoadBreaks ==
    (\E t \in Calls : stage[t] = "broken")
    => \E t \in Calls : stage[t] \in {"notLoaded", "loadCancelled"}

\* Inductive form: while a load goes on _registry has the core types and nothing
\* else, and without one it stays so only after a failure.
LoadInv ==
    /\ OneLoader
    /\ lock # None => registry = "core"
    /\ registry = "core" /\ lock = None
       => \E t \in Calls : stage[t] \in {"notLoaded", "loadCancelled"}
    /\ OnlyAFailedLoadBreaks

\* A call that waits for the lock gets past it: whoever loads releases it, on
\* every way out.
EveryCallEnds == \A t \in Calls : stage[t] = "waiting" ~> stage[t] \in Ended

=============================================================================

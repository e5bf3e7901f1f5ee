----------------------------- MODULE ObjectPool -----------------------------
(* util/ObjectPool.h: objects handed out as unique_ptrs whose deleter puts *)
(* them back if the pool's core is still there (weak_ptr) and deletes them *)
(* otherwise.  The deleter holds a reference to the core while it returns  *)
(* an object, so the core may outlive the pool.                            *)
EXTENDS Integers, Sequences, FiniteSets

CONSTANTS
    Objects,         \* as many as the larger of maxSize and initialSize
    initialSize

ASSUME ObjectAssumption ==
    /\ IsFiniteSet(Objects) /\ Objects = 1 .. Cardinality(Objects)
    /\ initialSize \in 0 .. Cardinality(Objects)

VARIABLES
    objects,         \* the fate of each object
    spare,           \* PoolCore::pool
    created,         \* totalCreated
    poolAlive,       \* is the ObjectPool, and so its core_, there?
    coreAlive        \* is the PoolCore there?

objectVars == <<objects, spare, created, poolAlive, coreAlive>>

ObjectInit ==
    /\ objects = [o \in Objects |-> IF o <= initialSize THEN "spare" ELSE "none"]
    /\ spare = [i \in 1 .. initialSize |-> i]
    /\ created = initialSize
    /\ poolAlive = TRUE /\ coreAlive = TRUE

\* acquire(): the last spare object, a new one, or nothing.
ObjectAcquire ==
    /\ poolAlive
    /\ \/ /\ spare # <<>>
          /\ objects' = [objects EXCEPT ![spare[Len(spare)]] = "held"]
          /\ spare' = SubSeq(spare, 1, Len(spare) - 1)
          /\ UNCHANGED created
       \/ /\ spare = <<>> /\ created < Cardinality(Objects)
          /\ objects' = [objects EXCEPT ![created + 1] = "held"]
          /\ created' = created + 1
          /\ UNCHANGED spare
    /\ UNCHANGED <<poolAlive, coreAlive>>

\* Deleter: coreWeak.lock() ...
DeleterLock(o) ==
    /\ objects[o] = "held"
    /\ objects' = [objects EXCEPT ![o] = IF coreAlive THEN "returning" ELSE "deleted"]
    /\ UNCHANGED <<spare, created, poolAlive, coreAlive>>

\* ~PoolCore when the last reference goes.
DropCore(objs, rest) ==
    /\ coreAlive' = FALSE
    /\ spare' = <<>>
    /\ objects' = [o \in Objects |->
                     IF \E i \in DOMAIN rest : rest[i] = o THEN "deleted" ELSE objs[o]]

\* ... then push_back under the mutex, and the reference is dropped.
DeleterReturn(o) ==
    LET objs == [objects EXCEPT ![o] = "spare"] IN
    /\ objects[o] = "returning"
    /\ IF ~poolAlive /\ \A p \in Objects \ {o} : objects[p] # "returning"
       THEN DropCore(objs, Append(spare, o))
       ELSE /\ objects' = objs
            /\ spare' = Append(spare, o)
            /\ UNCHANGED coreAlive
    /\ UNCHANGED <<created, poolAlive>>

\* Mutant of DestroyPool: the pool owns the core alone (a raw pointer in Deleter).
DestroyPoolOwner ==
    /\ poolAlive
    /\ poolAlive' = FALSE
    /\ DropCore(objects, spare)
    /\ UNCHANGED created

\* ~ObjectPool
DestroyPool ==
    /\ poolAlive
    /\ poolAlive' = FALSE
    /\ IF \A o \in Objects : objects[o] # "returning" THEN DropCore(objects, spare)
       ELSE UNCHANGED <<objects, spare, coreAlive>>
    /\ UNCHANGED created

ObjectNext ==
    \/ ObjectAcquire \/ DestroyPool
    \/ \E o \in Objects : DeleterLock(o) \/ DeleterReturn(o)

ObjectSpec == ObjectInit /\ [][ObjectNext]_objectVars

(* Every object made is in exactly one place: spare once, with one holder, *)
(* on its way back, or deleted; the core lives as long as the pool or a    *)
(* deleter that uses it; and nothing is left undeleted once the pool and   *)
(* the handles are gone.                                                   *)
ObjectsConserved ==
    /\ \A o \in Objects : Cardinality({i \in DOMAIN spare : spare[i] = o}) =
                             (IF objects[o] = "spare" THEN 1 ELSE 0)
    /\ created = Cardinality({o \in Objects : objects[o] # "none"})
    /\ poolAlive \/ (\E o \in Objects : objects[o] = "returning") => coreAlive
    /\ ~coreAlive => \A o \in Objects : objects[o] \in {"none", "held", "deleted"}
=============================================================================

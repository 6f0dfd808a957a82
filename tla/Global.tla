------------------------------ MODULE Global -------------------------------
(* util::global (include/util/global.hpp): one object of a type for all its  *)
(* users, made for the first of them and destroyed after the last, however   *)
(* long its constructor and destructor take.                                 *)
EXTENDS Naturals, Functions

CONSTANTS Users,        \* threads, each with a variable for the pointer
          MaxObjects,   \* bound on the objects made
          Nothing       \* the empty pointer

(* Utilities assumes this of the constants. *)
GlobalAssumption == MaxObjects \in Nat /\ Nothing \notin 1..MaxObjects

VARIABLES inside,     \* the users that have the mutex locked
          wp,         \* the static weak_ptr: the object it was last set to
          made,       \* how many objects have been made: 1..made
          building,   \* user -> the object it is constructing
          dying,      \* the objects in their destructor
          p           \* user -> its shared_ptr

globalVars == <<inside, wp, made, building, dying, p>>
empty == [u \in Users |-> Nothing]

Init ==
    /\ inside = {} /\ wp = Nothing /\ made = 0
    /\ building = empty /\ dying = {} /\ p = empty

Expired(o) == o \notin Range(p)

(* A shared_ptr is overwritten or destroyed: the last one destroys. *)
Reset(u, to) ==
    /\ p' = [p EXCEPT ![u] = to]
    /\ dying' = dying \cup {o \in {p[u]} \ {Nothing} : Expired(o)'}
-----------------------------------------------------------------------------
(* std::lock_guard, by a user whose variable is empty. *)
LockAlone(u) ==   \* mutant of Lock: a mutex of the caller's own
    /\ u \notin inside /\ p[u] = Nothing
    /\ inside' = inside \cup {u}
    /\ UNCHANGED <<wp, made, building, dying, p>>
Lock(u) ==
    /\ inside = {} /\ p[u] = Nothing
    /\ inside' = {u}
    /\ UNCHANGED <<wp, made, building, dying, p>>

(* wp.lock() finds an object, and global returns it. *)
Find(u) ==
    /\ u \in inside /\ building[u] = Nothing
    /\ wp # Nothing /\ ~Expired(wp)
    /\ p' = [p EXCEPT ![u] = wp]
    /\ inside' = inside \ {u}
    /\ UNCHANGED <<wp, made, building, dying>>

(* It finds none: make_shared enters the constructor of a new object.  When  *)
(* that throws, wp has not been set.                                         *)
Make(u) ==
    /\ u \in inside /\ building[u] = Nothing /\ made < MaxObjects
    /\ wp = Nothing \/ Expired(wp)
    /\ made' = made + 1
    /\ building' = [building EXCEPT ![u] = made']
    /\ UNCHANGED <<inside, wp, dying, p>>
Leave(u) ==
    /\ building[u] # Nothing
    /\ building' = [building EXCEPT ![u] = Nothing]
    /\ inside' = inside \ {u}
    /\ UNCHANGED <<made, dying>>
Made(u) ==
    /\ Leave(u)
    /\ wp' = building[u] /\ p' = [p EXCEPT ![u] = building[u]]
Throw(u) == Leave(u) /\ UNCHANGED <<wp, p>>
-----------------------------------------------------------------------------
(* What users do with their pointers.  Destructors run outside the mutex. *)
Share(u, v) ==
    /\ p[u] # Nothing /\ p[v] # p[u] /\ v \notin inside
    /\ Reset(v, p[u])
    /\ UNCHANGED <<inside, wp, made, building>>
Release(u) ==
    /\ p[u] # Nothing
    /\ Reset(u, Nothing)
    /\ UNCHANGED <<inside, wp, made, building>>
Destroyed(o) ==
    /\ o \in dying
    /\ dying' = dying \ {o}
    /\ UNCHANGED <<inside, wp, made, building, p>>

Next ==
    \/ \E u \in Users : \/ Lock(u) \/ Find(u) \/ Make(u) \/ Made(u) \/ Throw(u)
                        \/ Release(u) \/ \E v \in Users : Share(u, v)
    \/ \E o \in 1..made : Destroyed(o)

Spec == Init /\ [][Next]_globalVars
-----------------------------------------------------------------------------
(* All users share one object: there is never a second one in construction   *)
(* or in use, and none gets an object that is destroyed or being destroyed.  *)
(* (An object may still be in its destructor when the next one is made.)     *)
OneGlobal ==
    \A o \in (Range(p) \cup Range(building)) \ {Nothing} :
        o = made /\ o \notin dying
=============================================================================

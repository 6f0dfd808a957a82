------------------------------ MODULE Variant -------------------------------
(* util::Variant (include/util/variant.hpp): raw storage and a pointer to the*)
(* destructor of what is in it.  Every move goes through swap, which moves   *)
(* three times by way of a temporary and visits its operands by their        *)
(* destructor pointers.  With NDEBUG: a visit of an empty variant is a no-op *)
(* where the debug build stops at assert(false), and moving a variant visits *)
(* an empty one.                                                             *)
CONSTANTS Names,      \* variables of type Variant<Ts...>
          Types,      \* Ts
          Values,     \* values of a type
          Void,       \* mDtor = &dtor<void>, of a variant without a value
          Raw,        \* storage in which no object was made
          Husk,       \* what a move leaves of an object's value
          Gone        \* no variant

MarksDiffer ==
    /\ Void \notin Types /\ Husk \notin Values
    /\ Raw \notin [type : Types, val : Values \cup {Husk}]
    /\ Gone # Void /\ Gone \notin Types
    /\ {Void, Gone} \cap [type : Types, val : Values] = {}
    /\ {"tmp", "other"} \cap Names = {}

VARIABLES slot,       \* the variables and, while swap and operator= run, their
                      \* temporaries: mDtor, and the object in mData
          abandoned   \* history: the values of objects overwritten or left
                      \* behind without a destructor call

vars == <<slot, abandoned>>

Contents == [type : Types, val : Values]
Fresh == [dtor |-> Void, obj |-> Raw]           \* Variant ()
Dead == [dtor |-> Gone, obj |-> Raw]

Temporaries == {"tmp", "other"}
Init == slot = [n \in Names \cup Temporaries |-> Dead] /\ abandoned = {}

IsLive(n) == slot[n].dtor # Gone

(* get<U>() answers a pointer for the type of mDtor only, so apply finds the *)
(* object, if the variant is not empty, under that type.                     *)
Visited(s) == s.dtor # Void

Left(s) == IF s.obj = Raw THEN {} ELSE {s.obj.val}

(* A state of the memory: the slots and what was abandoned in them.          *)
Memory == [slots |-> slot, lost |-> abandoned]

(* apply(MoveTo(&d.mData), s): the object made in d is of s's type and has   *)
(* its value; whatever was in d is overwritten.                              *)
MoveIgnoresDtor(mem, d, s) ==   \* mutant of MoveTo: moves bytes, not objects
    [slots |-> [mem.slots EXCEPT ![d].obj = mem.slots[s].obj],
     lost |-> mem.lost \cup Left(mem.slots[d])]
MoveTo(mem, d, s) ==
    IF ~Visited(mem.slots[s]) THEN mem
    ELSE [slots |-> [mem.slots EXCEPT ![s].obj.val = Husk,
                         ![d].obj = mem.slots[s].obj],
          lost |-> mem.lost \cup (IF d = s THEN {} ELSE Left(mem.slots[d]))]

PointTo(mem, d, dtor) == [mem EXCEPT !.slots[d].dtor = dtor]

(* mDtor(&mData), and the storage ends.                                      *)
Destroyed(mem, n) ==
    [slots |-> [mem.slots EXCEPT ![n] = Dead],
     lost |-> mem.lost \cup IF Visited(mem.slots[n]) THEN {}
                            ELSE Left(mem.slots[n])]
Made(mem, n, s) == [mem EXCEPT !.slots[n] = s]

SwapByOneMove(mem, l, r) ==   \* mutant of Swapped: r's value is not moved
    LET a == MoveTo(PointTo(Made(mem, "tmp", Fresh), "tmp", mem.slots[l].dtor),
                    "tmp", l)
        b == PointTo(a, l, a.slots[r].dtor)
        c == MoveTo(PointTo(b, r, b.slots["tmp"].dtor), r, "tmp")
    IN Destroyed(c, "tmp")
Swapped(mem, l, r) ==
    LET a == MoveTo(PointTo(Made(mem, "tmp", Fresh), "tmp", mem.slots[l].dtor),
                    "tmp", l)
        b == MoveTo(PointTo(a, l, a.slots[r].dtor), l, r)
        c == MoveTo(PointTo(b, r, b.slots["tmp"].dtor), r, "tmp")
    IN Destroyed(c, "tmp")

Holding(c) == [dtor |-> c.type, obj |-> c]
Moved(mem, n, m) == Swapped(Made(mem, n, Fresh), n, m)   \* Variant (Variant&&)

Becomes(mem) == slot' = mem.slots /\ abandoned' = mem.lost
-----------------------------------------------------------------------------
(* Variant (U&&) *)
Construct(n, c) == ~IsLive(n) /\ Becomes(Made(Memory, n, Holding(c)))

MoveConstruct(n, m) ==
    /\ ~IsLive(n) /\ IsLive(m)
    /\ Becomes(Moved(Memory, n, m))

(* operator= takes `other` by value and swaps with it; the old value goes    *)
(* with `other`.                                                             *)
AssignFrom(mem, n) == Becomes(Destroyed(Swapped(mem, n, "other"), "other"))
AssignValue(n, c) ==
    IsLive(n) /\ AssignFrom(Made(Memory, "other", Holding(c)), n)
AssignVariant(n, m) ==
    IsLive(n) /\ IsLive(m) /\ AssignFrom(Moved(Memory, "other", m), n)

Swap(n, m) == IsLive(n) /\ IsLive(m) /\ Becomes(Swapped(Memory, n, m))

(* *get<U>() = x, or apply with a visitor that writes.                       *)
Visit(n, x) ==
    /\ IsLive(n) /\ Visited(slot[n])
    /\ Becomes([Memory EXCEPT !.slots[n].obj.val = x])

Destroy(n) == IsLive(n) /\ Becomes(Destroyed(Memory, n))

Next ==
    \E n \in Names :
        \/ Destroy(n)
        \/ \E x \in Values : Visit(n, x)
        \/ \E c \in Contents : Construct(n, c) \/ AssignValue(n, c)
        \/ \E m \in Names :
               MoveConstruct(n, m) \/ AssignVariant(n, m) \/ Swap(n, m)

Spec == Init /\ [][Next]_vars
-----------------------------------------------------------------------------
(* The destructor pointer, through which the value is found and destroyed,   *)
(* fits the object in the storage: it is of that type, has not been moved    *)
(* away (nobody sees a moved-from value), and what moves overwrote or left   *)
(* behind undestroyed were moved-from objects only, never a value.           *)
DestructorFits ==
    /\ \A n \in Names : slot[n].dtor \notin {Gone, Void} =>
           slot[n].obj \in Contents /\ slot[n].obj.type = slot[n].dtor
    /\ abandoned \subseteq {Husk}

Cells == INSTANCE ValueCells WITH
    Empty <- Void,
    cell <- [n \in Names |-> IF slot[n].dtor \in {Gone, Void}
                             THEN slot[n].dtor ELSE slot[n].obj]

(* Through all the moving, a variant holds what its users put in it, and     *)
(* exactly one variant holds each value: moves empty their source, and       *)
(* assigning a variant to itself, or swapping it with itself, is harmless.   *)
ImplementsCells == Cells!Spec
=============================================================================

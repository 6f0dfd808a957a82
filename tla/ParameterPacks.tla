--------------------------- MODULE ParameterPacks ---------------------------
(* The library's recursions over parameter packs: util::any, util::max,      *)
(* util::overloadLinearly, make_index_sequence and what unpacks tuples with  *)
(* it (composed/stdlib.hpp, util/index_sequence.hpp, util/applytuple.hpp).   *)
EXTENDS Naturals, Sequences

CONSTANTS MaxArgument,   \* bound: arguments are numbers up to this
          MaxSize        \* bound: arguments of a pack

PacksFit == MaxArgument \in Nat /\ MaxSize \in Nat

VARIABLE pack            \* the arguments of a call, the elements of a tuple,
                         \* or handlers, of which n accepts arguments up to n

Init == pack = <<>>
Extend(x) == Len(pack) < MaxSize /\ pack' = Append(pack, x)
Next == \E x \in 0..MaxArgument : Extend(x)
Spec == Init /\ [][Next]_pack
-----------------------------------------------------------------------------
(* any (x, xs...), of the arguments from the i-th on. *)
Any(xs) ==
    LET any[i \in 1..Len(xs)] == xs[i] \/ (i < Len(xs) /\ any[i + 1]) IN any[1]

(* max (x, y, ys...) keeps the larger of two and goes on. *)
MaxOf(xs) ==
    LET max[i \in 1..Len(xs)] ==
            IF i = 1 \/ xs[i] > max[i - 1] THEN xs[i] ELSE max[i - 1]
    IN max[Len(xs)]

(* overload_linearly_t{f, g} calls f if it accepts x and g otherwise, where  *)
(* g holds the other handlers; the last is called, or nothing compiles.      *)
Accepts(handler, x) == x <= handler
OverloadLinearly(handlers, x) ==
    LET which[i \in 1..Len(handlers)] ==
            IF i = Len(handlers) \/ Accepts(handlers[i], x) THEN i
                                                             ELSE which[i + 1]
    IN which[1]

(* overload_t{f, g...}, whose call operators are those of all the handlers:  *)
(* the one called is the best match, and with two of them nothing compiles.  *)
(* Arguments derive from those above them, so that the nearest matches best. *)
Overload(handlers, x) ==
    {i \in DOMAIN handlers :
        /\ Accepts(handlers[i], x)
        /\ \A j \in DOMAIN handlers \ {i} :
               Accepts(handlers[j], x) => handlers[i] < handlers[j]}

Merge(s, t) == s \o t       \* mutant of MergeAndRenumber
MergeAndRenumber(s, t) == s \o [i \in DOMAIN t |-> Len(s) + t[i]]

(* make_integer_sequence<T, n> halves n; bases 0 and 1. *)
MakeIntegerSequence ==
    LET make[n \in 0..MaxSize] ==
            IF n = 0 THEN <<>>
            ELSE IF n = 1 THEN <<0>>
            ELSE MergeAndRenumber(make[n \div 2], make[n - n \div 2])
    IN make

(* util's own copy. *)
MakeIndexSequence == MakeIntegerSequence

(* f(std::get<Indices>(t)...): the arguments f is called with. *)
Apply(t) == LET indices == MakeIntegerSequence[Len(t)] IN
            [i \in DOMAIN indices |-> t[indices[i] + 1]]
ApplyTuple(t) == LET indices == MakeIndexSequence[Len(t)] IN
                 [i \in DOMAIN indices |-> t[indices[i] + 1]]
-----------------------------------------------------------------------------
(* Of whatever size and in whatever order the pack is, a tuple's elements    *)
(* are passed all and in order, max and any say what they are called, and    *)
(* the first handler that accepts an argument gets it: the same that overload*)
(* calls, when the handlers are listed from the nearest match on.            *)
PacksKeepOrder ==
    /\ Apply(pack) = pack /\ ApplyTuple(pack) = pack
    /\ pack # <<>> =>
           /\ \A x \in 0..MaxArgument :
                  LET first == OverloadLinearly(pack, x)
                      fits == [i \in DOMAIN pack |-> Accepts(pack[i], x)] IN
                  /\ Any(fits) <=> \E i \in DOMAIN pack : fits[i]
                  /\ Any(fits) <=> fits[first]
                  /\ \A i \in 1..(first - 1) : ~fits[i]
                  /\ (\A i, j \in DOMAIN pack : i < j => pack[i] < pack[j])
                         => Overload(pack, x) = IF fits[first] THEN {first}
                                                               ELSE {}
           /\ \E i \in DOMAIN pack : MaxOf(pack) = pack[i]
           /\ \A i \in DOMAIN pack : pack[i] <= MaxOf(pack)
=============================================================================

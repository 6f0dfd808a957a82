------------------------------ MODULE Version -------------------------------
(* util::Version (include/util/version.hpp, src/version.cpp): parsing,       *)
(* comparing and printing.  A text is the lexemes between its separators.  A *)
(* lexeme is of a shape the grammar tells apart, with its place in the order *)
(* of its kind; "missing" is the nothing between two separators.             *)
EXTENDS Naturals, Sequences

CONSTANTS Names,     \* variables of type Version
          Texts,     \* strings passed to parse
          MaxRank    \* bound: numbers and strings are ranked 0..MaxRank

(* "7", "007", "99999999999", "2a", "rc" *)
Shapes == {"number", "padded", "overflow", "mixed", "word", "missing"}
Lexeme == [shape : Shapes, rank : 0..MaxRank]

(* Optional parts are sequences of at most one list; `rest` says whether     *)
(* something else follows.                                                   *)
Optional(s) == s = <<>> \/ (Len(s) = 1 /\ s[1] \in Seq(Lexeme))
TextsFit ==
    /\ MaxRank \in Nat
    /\ \A t \in Texts :
           /\ t.numbers \in Seq(Lexeme)
           /\ Optional(t.pre) /\ Optional(t.build) /\ t.rest \in BOOLEAN

VARIABLE mData       \* of each Version: the tuple of numbers, preRelease and
                     \* buildMetadata

NoData == [numbers |-> <<>>, pre |-> <<>>, build |-> <<>>]
Init == mData = [n \in Names |-> NoData]
-----------------------------------------------------------------------------
(* unsigned, and std::string with digits before letters.                     *)
Unsigned(l) == [kind |-> 0, rank |-> l.rank]
String(l) == [kind |-> 1, rank |-> l.rank + IF l.shape = "word"
                                            THEN MaxRank + 1 ELSE 0]

StartsUint == {"number", "padded", "mixed"}    \* no overflow
IsIdentifier == Shapes \ {"missing"}
EndsAfterDigits == {"mixed"}                   \* uint_ leaves what follows

(* `element % '.'`: the elements up to one of a shape that does not match, or*)
(* that is left partly unread.                                               *)
List(list, matching, leaving) ==
    LET Ends(n) == \/ n = Len(list) \/ list[n + 1].shape \notin matching
                   \/ n > 0 /\ list[n].shape \in leaving
        n == CHOOSE n \in 0..Len(list) :
                 Ends(n) /\ \A k \in 0..(n - 1) : ~Ends(k)
    IN [taken |-> SubSeq(list, 1, n),
        matched |-> n > 0,
        all |-> n > 0 /\ n = Len(list) /\ list[n].shape \notin leaving]

Each(list, F(_)) == [i \in DOMAIN list |-> F(list[i])]

Numbers(list) == List(list, StartsUint, EndsAfterDigits)
PreRelease(l) == IF l.shape \in StartsUint THEN Unsigned(l) ELSE String(l)
Identifiers(list) == List(list, IsIdentifier, EndsAfterDigits)
BuildMetadata(list) == List(list, IsIdentifier, {})

(* A part that fails to match leaves its optional empty and its text unread, *)
(* and nothing but the end fits there.  What matched before stays in mData.  *)
Parsed(t) ==
    LET n == Numbers(t.numbers)
        p == Identifiers(t.pre[1])
        b == BuildMetadata(t.build[1])
        hasPre == n.all /\ t.pre # <<>> /\ p.matched
        preDone == n.all /\ (t.pre # <<>> => p.all)
        hasBuild == preDone /\ t.build # <<>> /\ b.matched
    IN [data |-> [numbers |-> Each(n.taken, Unsigned),
                  pre |-> IF hasPre THEN <<Each(p.taken, PreRelease)>>
                                    ELSE <<>>,
                  build |-> IF hasBuild THEN <<b.taken>> ELSE <<>>],
        ok |-> preDone /\ (t.build # <<>> => b.all) /\ ~t.rest]

Parse(n, t) == mData' = [mData EXCEPT ![n] = Parsed(t).data]

Next == \E n \in Names, t \in Texts : Parse(n, t)

Spec == Init /\ [][Next]_mData
-----------------------------------------------------------------------------
(* operator< of unsigned and of boost::variant<unsigned, std::string>, of    *)
(* std::vector, and of boost::optional.                                      *)
IdLess(x, y) == x.kind < y.kind \/ (x.kind = y.kind /\ x.rank < y.rank)
VectorLess(s, t) ==
    \E i \in 1..Len(t) :
        /\ \A j \in 1..(i - 1) : j <= Len(s) /\ s[j] = t[j]
        /\ i <= Len(s) => IdLess(s[i], t[i])
OptionalLess(a, b) == b # <<>> /\ (a # <<>> => VectorLess(a[1], b[1]))

Equal(a, b) == a.numbers = b.numbers /\ a.pre = b.pre
LessByOptional(a, b) ==   \* mutant of Less: none is less than a pre-release
    \/ VectorLess(a.numbers, b.numbers)
    \/ a.numbers = b.numbers /\ OptionalLess(a.pre, b.pre)
Less(a, b) ==
    IF a.numbers # b.numbers THEN VectorLess(a.numbers, b.numbers)
    ELSE IF OptionalLess(a.pre, b.pre) THEN a.pre # <<>> /\ b.pre # <<>>
    ELSE a.pre # <<>> /\ b.pre = <<>>

NotEqual(a, b) == ~Equal(a, b)
Greater(a, b) == Less(b, a)
AtMost(a, b) == Less(a, b) \/ Equal(a, b)
AtLeast(a, b) == Greater(a, b) \/ Equal(a, b)

(* operator<< *)
Printed(x) ==
    IF x.kind = 0 THEN [shape |-> "number", rank |-> x.rank]
    ELSE IF x.rank > MaxRank
         THEN [shape |-> "word", rank |-> x.rank - MaxRank - 1]
         ELSE [shape |-> "overflow", rank |-> x.rank]
FormatNoBuild(d) ==   \* mutant of Format
    [numbers |-> Each(d.numbers, Printed),
     pre |-> IF d.pre = <<>> THEN <<>> ELSE <<Each(d.pre[1], Printed)>>,
     build |-> <<>>, rest |-> FALSE]
Format(d) ==
    [numbers |-> Each(d.numbers, Printed),
     pre |-> IF d.pre = <<>> THEN <<>> ELSE <<Each(d.pre[1], Printed)>>,
     build |-> d.build, rest |-> FALSE]
-----------------------------------------------------------------------------
(* A version as one sequence that ends each list, compared at the first      *)
(* difference: an end is below every element, and a release above every      *)
(* pre-release.                                                              *)
Release == 4 * MaxRank + 10
Place(x) == 1 + x.rank + x.kind * (MaxRank + 1)
Key(d) ==
    Each(d.numbers, Place) \o <<0>>
        \o IF d.pre = <<>> THEN <<Release>> ELSE Each(d.pre[1], Place) \o <<0>>
Precedes(k, l) ==
    \E i \in DOMAIN k \cap DOMAIN l :
        k[i] < l[i] /\ \A j \in 1..(i - 1) : k[j] = l[j]

(* version.hpp:46, version.cpp:100: < is the precedence of semantic versions *)
(* ("1.0 < 1.0.0", "1.0-2 < 1.0-rc < 1.0-rc.1 < 1.0"), and == its equality:  *)
(* the ternary around optional's < gets all the cases right, also for the    *)
(* prefix that a failed parse leaves in mData.  The operators made of them   *)
(* (version.hpp:53) agree: <= and >= are those of a total order.             *)
OrderIsPrecedence ==
    \A m, n \in Names :
        LET a == mData[m]  b == mData[n] IN
        /\ Less(a, b) <=> Precedes(Key(a), Key(b))
        /\ Equal(a, b) <=> Key(a) = Key(b)
        /\ NotEqual(a, b) <=> Less(a, b) \/ Greater(a, b)
        /\ AtMost(a, b) <=> ~Greater(a, b)
        /\ AtLeast(a, b) <=> ~Less(a, b)

(* What << prints of a version, parse reads back, whatever the version was   *)
(* read from: numbers that overflowed to identifiers, padded ones, prefixes. *)
FormatRoundTrips ==
    \A n \in Names : mData[n].numbers # <<>> =>
        LET again == Parsed(Format(mData[n])) IN
        again.ok /\ again.data = mData[n]
=============================================================================

----------------------------- MODULE ValueCells -----------------------------
(* What users expect of variables that each hold one value and can only be   *)
(* moved (variant.hpp:51-64), with nothing said of storage, destructors or   *)
(* temporaries.                                                              *)
CONSTANTS Names,      \* variables
          Contents,   \* values, of any bounded type
          Gone,       \* no object, before construction and after destruction
          Empty       \* moved from

VARIABLE cell

Init == cell = [n \in Names |-> Gone]

IsLive(n) == cell[n] # Gone

Make(n, c) == ~IsLive(n) /\ cell' = [cell EXCEPT ![n] = c]
MakeFrom(n, m) ==
    /\ ~IsLive(n) /\ IsLive(m)
    /\ cell' = [cell EXCEPT ![n] = cell[m], ![m] = Empty]
Assign(n, c) == IsLive(n) /\ cell' = [cell EXCEPT ![n] = c]
Take(n, m) ==
    /\ IsLive(n) /\ IsLive(m)
    /\ cell' = IF n = m THEN cell
                        ELSE [cell EXCEPT ![n] = cell[m], ![m] = Empty]
Exchange(n, m) ==
    /\ IsLive(n) /\ IsLive(m)
    /\ cell' = [cell EXCEPT ![n] = cell[m], ![m] = cell[n]]
Write(n, c) == cell[n] \in Contents /\ cell' = [cell EXCEPT ![n] = c]
Drop(n) == IsLive(n) /\ cell' = [cell EXCEPT ![n] = Gone]

Next ==
    \E n \in Names :
        \/ Drop(n)
        \/ \E c \in Contents : Make(n, c) \/ Assign(n, c) \/ Write(n, c)
        \/ \E m \in Names : MakeFrom(n, m) \/ Take(n, m) \/ Exchange(n, m)

Spec == Init /\ [][Next]_cell
=============================================================================

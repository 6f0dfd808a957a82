----------------------------- MODULE Numbering ------------------------------
(* Sequences of numbers, in which 0 stands for nothing: what a queue holds,  *)
(* when the things that pass through it are numbered.                        *)
EXTENDS Naturals, Sequences, FiniteSets, SequencesExt

Numbers(s) == ToSet(s) \ {0}
Once(s) == \A i, j \in DOMAIN s : s[i] = s[j] /\ s[i] # 0 => i = j
InOrder(s) == \A i, j \in DOMAIN s : i < j /\ s[i] # 0 /\ s[j] # 0 => s[i] < s[j]
=============================================================================

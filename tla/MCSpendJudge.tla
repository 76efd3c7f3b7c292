---------------------------- MODULE MCSpendJudge ----------------------------
(***************************************************************************)
(* SpendJudge for TLC: instants around the ends of the locks, and every    *)
(* combination of claims that meets one of them.                           *)
(***************************************************************************)
EXTENDS SpendJudge

Start == 1500000000
Clock == {Start} \cup {Start + n : n \in {1, 511, 512, 513, 1023, 1024, 1025,
                                          Year - 1, TenYears - 1, TenYears}}
Locktimes == {0, 1, FirstTime - 1, FirstTime, Start, Start + 1, Start + 512, Start + TenYears}
Sequences == {Final} \cup [off : {FALSE}, time : BOOLEAN, count : {0, 1, 2}]
Claims == {Claiming(l, s) : l \in Locktimes, s \in Sequences}
Others == {Probe(name, Start) : name \in DOMAIN RuleOf \cup {"elsewhere", "forged", "ck1"}}
Offered == Claims \cup Others \cup {[Plain EXCEPT !.satisfied = FALSE]}
Here == {"here"}
=============================================================================

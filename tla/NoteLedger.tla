----------------------------- MODULE NoteLedger -----------------------------
(***************************************************************************)
(* What a SERVICE promises its holders, without requests, quotes, retries  *)
(* or timers: notes of a fixed value that are paid for, exchanged at no    *)
(* gain, and redeemed once, against a reserve that always covers every     *)
(* note still in circulation and the fee of melting it.                    *)
(***************************************************************************)
EXTENDS Integers, Functions

CONSTANTS Output, MeltFee

VARIABLES ledger, reserve

In(state) == {q \in Output : ledger[q].state = state}
Circulating == In("outstanding") \cup In("pending")

Cost == [q \in Output |-> ledger[q].amountMsat + MeltFee]
Worth(S) == SumFunctionOnSet(Cost, S)

\* The ledger with the notes of S, whose values do not change, in a state.
Become(S, state) ==
  \A q \in Output :
    ledger'[q] = IF q \in S THEN [ledger[q] EXCEPT !.state = state] ELSE ledger[q]

Init == reserve = Worth(Circulating) /\ In("pending") = {} /\ In("burned") = {}

\* A payment brings one note into existence and covers its cost.
Deposit(q) ==
  /\ ledger[q].state = "absent" /\ ledger'[q].state = "outstanding"
  /\ \A p \in Output \ {q} : ledger'[p] = ledger[p]
  /\ reserve' >= reserve + ledger'[q].amountMsat + MeltFee

\* Outstanding notes are burned for new ones that together cost no more.
Swap(burned, minted) ==
  /\ burned # {} /\ burned \subseteq In("outstanding")
  /\ minted # {} /\ minted \subseteq In("absent")
  /\ \A q \in Output :
       IF q \in burned THEN ledger'[q] = [ledger[q] EXCEPT !.state = "burned"]
       ELSE IF q \in minted THEN ledger'[q].state = "outstanding"
       ELSE ledger'[q] = ledger[q]
  /\ SumFunctionOnSet(Cost', minted) <= Worth(burned)
  /\ UNCHANGED reserve

\* A melt holds its note until the outgoing payment is known to have failed
\* or to have been made out of the reserve.
Hold(q) ==
  /\ ledger[q].state = "outstanding"
  /\ Become({q}, "pending")
  /\ UNCHANGED reserve

Restore(q) ==
  /\ ledger[q].state = "pending"
  /\ Become({q}, "outstanding")
  /\ UNCHANGED reserve

Redeem(q) ==
  /\ ledger[q].state = "pending"
  /\ Become({q}, "burned")
  /\ reserve' = reserve - ledger[q].amountMsat - MeltFee

Next ==
  \/ \E q \in Output : Deposit(q) \/ Hold(q) \/ Restore(q) \/ Redeem(q)
  \/ \E burned, minted \in SUBSET Output : Swap(burned, minted)

Spec == Init /\ [][Next]_<<ledger, reserve>>

\* The promise itself: the reserve covers every note in circulation.
Solvent == Worth(Circulating) <= reserve
=============================================================================

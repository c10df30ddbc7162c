----------------------------- MODULE MCAtmAudit -----------------------------
(***************************************************************************)
(* Small instances of AtmAudit.  Amounts are in half currency units, so    *)
(* that 3 is a fractional amount; the notes are two and five currency      *)
(* units, so that 12 can only be paid by three of the smaller ones.        *)
(***************************************************************************)
EXTENDS AtmAudit

\* A fractional amount, a whole one no note can pay, payable ones, one above
\* terminal cash, one above both limits and one above all a simulator plans for.
MCAmounts == {3, 6, 12, 14, 24, 26, 42}

MCDispense == <<4, 10>>
MCAccept == <<10, 4>>
MCInventory == [d \in {4, 10} |-> IF d = 4 THEN 3 ELSE 1]
=============================================================================

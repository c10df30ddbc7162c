---------------------------- MODULE CashAllocation ----------------------------
(***************************************************************************)
(* allocateCash of the runtime simulator: which notes pay an amount.  The  *)
(* notes at hand of each denomination are bundled 1, 2, 4, ... and the     *)
(* rest, the bundles are tried one by one, and an amount keeps the first   *)
(* bundle that reached it (the arrays previousAmount and selectedBundle).  *)
(* An entry of those arrays is never overwritten, so the notes that are    *)
(* read back from an amount down are known when the amount is reached: the *)
(* table of the model holds them.                                          *)
(***************************************************************************)
EXTENDS Integers, FiniteSetsExt, SequencesExt

CONSTANT MaxTransactionAmount   \* MAX_SIMULATOR_TRANSACTION_AMOUNT, in minor units

ASSUME AllocationAssumption == MaxTransactionAmount \in Nat \ {0}

\* A count of notes for each denomination, and what they are worth.
InventoryTotal(counts) == MapThenSumSet(LAMBDA d : d * counts[d], DOMAIN counts)

\* The answer when an amount cannot be paid.
NoPlan == [d \in {} |-> 0]

\* The bundles of n notes of a denomination while some are left to bundle: the
\* size that doubles is always one more than the notes bundled so far.
BundlesLeft(d, n) ==
    LET of[left \in 0 .. n] ==
            IF left = 0 THEN <<>>
            ELSE LET count == Min({n - left + 1, left})
                 IN  <<[denomination |-> d, count |-> count]>> \o of[left - count]
    IN  of

\* The bundles of the first denominations, of no more notes of each than there
\* are and than the amount can need.
BundlesUpTo(amount, denominations, limits) ==
    LET upTo[i \in 0 .. Len(denominations)] ==
            IF i = 0 THEN <<>>
            ELSE LET d == denominations[i]
                     n == Min({amount \div d, limits[d]})
                 IN  upTo[i - 1] \o BundlesLeft(d, n)[n]
    IN  upTo

Bundles(amount, denominations, limits) ==
    BundlesUpTo(amount, denominations, limits)[Len(denominations)]

ValueOf(bundle) == bundle.denomination * bundle.count

\* The table with one more bundle: the amounts reached so far, up to the amount
\* asked for, each with the notes that pay it.  It is filled downwards, so that
\* what the bundle is added to has been reached by earlier ones.
PayWith(paid, bundle, amount) ==
    LET new == {c \in 0 .. amount : /\ c \notin DOMAIN paid
                                    /\ c - ValueOf(bundle) \in DOMAIN paid}
    IN  [c \in DOMAIN paid \cup new |->
            IF c \in DOMAIN paid THEN paid[c]
            ELSE [paid[c - ValueOf(bundle)] EXCEPT
                     ![bundle.denomination] = @ + bundle.count]]

\* Before any bundle nothing but the amount of zero is paid.
NothingPaid(denominations) ==
    [c \in {0} |-> [d \in ToSet(denominations) |-> 0]]

\* Faulty variant: the table is filled upwards, so that a bundle is used on top
\* of what it has itself reached.
PaidUpwards(bundles, denominations, amount) ==
    LET paid[i \in 0 .. Len(bundles)] ==
            IF i = 0 THEN NothingPaid(denominations)
            ELSE PayWith(PayWith(paid[i - 1], bundles[i], amount),
                         bundles[i], amount)
    IN  paid

\* The table after each of the bundles.
Paid(bundles, denominations, amount) ==
    LET paid[i \in 0 .. Len(bundles)] ==
            IF i = 0 THEN NothingPaid(denominations)
            ELSE PayWith(paid[i - 1], bundles[i], amount)
    IN  paid

\* The notes that pay the amount, by denomination, or NoPlan.  Amounts out of
\* range have none, whatever notes there are.
Allocate(amount, denominations, limits) ==
    LET bundles == Bundles(amount, denominations, limits)
        table   == Paid(bundles, denominations, amount)[Len(bundles)]
    IN  IF amount \in 1 .. MaxTransactionAmount /\ amount \in DOMAIN table
        THEN table[amount] ELSE NoPlan
=============================================================================

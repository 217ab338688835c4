---------------------------- MODULE VerdictLedger ----------------------------
(***************************************************************************)
(* What the trial registry promises to whoever computes a deflated Sharpe  *)
(* ratio from it: a ledger to which trials are added and never removed, in *)
(* which the configuration and the registration date of a trial never      *)
(* change, its metric is set once, and the verdicts claimed for it are     *)
(* only ever appended to (docstrings of trials.py and register_trial).     *)
(***************************************************************************)
EXTENDS Sequences, Naturals

CONSTANTS
    Opening,  \* the ledger before the first call
    None      \* no metric yet

VARIABLE ledger  \* trial name -> [params, at, metric, claims], claims a Seq

LedgerInit == ledger = Opening

\* Trial number N + 1.
Register ==
    \E n \in DOMAIN ledger' \ DOMAIN ledger :
        /\ DOMAIN ledger' = DOMAIN ledger \cup {n}
        /\ \A k \in DOMAIN ledger : ledger'[k] = ledger[k]
        /\ Len(ledger'[n].claims) = 1

\* Nothing of the trial but a missing metric may change, and one verdict,
\* different from the last one, may be added.
Amended(old, new) ==
    /\ new.params = old.params
    /\ new.at = old.at
    /\ old.metric # None => new.metric = old.metric
    /\ \/ new.claims = old.claims
       \/ \E v \in {new.claims[Len(new.claims)]} :
              /\ new.claims = Append(old.claims, v)
              /\ v # old.claims[Len(old.claims)]

Amend ==
    \E n \in DOMAIN ledger :
        /\ DOMAIN ledger' = DOMAIN ledger
        /\ \A k \in DOMAIN ledger \ {n} : ledger'[k] = ledger[k]
        /\ Amended(ledger[n], ledger'[n])

LedgerSpec == LedgerInit /\ [][Register \/ Amend]_ledger
=============================================================================

------------------------------ MODULE Custody ------------------------------
(***************************************************************************)
(* What Guardian promises of an account it manages (the comments on        *)
(* applyChannel, persistManagedIntent and restoreBaseline): it saves the   *)
(* account before it touches it, and saves it once; it announces a value   *)
(* before it sends it, and sends what it announced; it gives back only     *)
(* what it announced, with the value it saved; and it forgets what it      *)
(* saved only when nothing of its own is left on the account.              *)
(*                                                                         *)
(* There is one account and one record of it. That rounds and manual       *)
(* operations act on copies of both, and may be interrupted, is no part of *)
(* the promise.                                                            *)
(***************************************************************************)
CONSTANTS
  Fields,    \* the fields of the account that Guardian may write
  Watched,   \* those whose lender and doubt are recorded
  Nil        \* not announced

VARIABLES
  account,   \* [Fields -> value]: the account
  saved,     \* [held, orig, managed]: the record of it
  lent,      \* the watched fields with a value of Guardian's that is not the original
  doubt,     \* the watched fields whose announced value has not been sent
  trusted    \* nobody has interfered; once somebody has, nothing is promised

custodyVars == <<account, saved, lent, doubt, trusted>>

\* The account gets the values of "from" in the fields S and keeps the others.
Sets(S, from) == account' = [f \in Fields |-> IF f \in S THEN from[f] ELSE account[f]]

Empty == ~saved.held /\ lent = {} /\ doubt = {} /\ trusted = TRUE

\* Somebody else sets a field: the administrator, or an operator through Guardian. If an
\* announced value was still to come, it may be the operator's that came instead.
Edit ==
  \E f \in Fields :
    /\ \A g \in Fields \ {f} : account'[g] = account[g]
    /\ lent' = lent \ {f}
    /\ doubt' \in {doubt, doubt \ {f}}
    /\ UNCHANGED saved

Save ==
  /\ ~saved.held /\ saved'.held
  /\ \A f \in Fields : saved'.managed[f] = Nil
  /\ UNCHANGED <<account, lent, doubt>>

Announce ==
  /\ saved.held /\ saved'.held /\ saved'.orig = saved.orig
  /\ \E S \in SUBSET Fields :
       /\ \A f \in S : saved'.managed[f] # Nil
       /\ \A f \in Fields \ S : saved'.managed[f] = saved.managed[f]
       /\ doubt' = doubt \cup (S \cap Watched)
  /\ UNCHANGED <<account, lent>>

Write ==
  /\ saved.held
  /\ \E S \in SUBSET Fields :
       /\ \A f \in S : saved.managed[f] # Nil
       /\ Sets(S, saved.managed)
       /\ lent' = (lent \ S) \cup {f \in S \cap Watched : saved.managed[f] # saved.orig[f]}
       /\ doubt' = doubt \ S
  /\ UNCHANGED saved

GiveBack ==
  /\ saved.held
  /\ \E S \in SUBSET Fields :
       /\ \A f \in S : saved.managed[f] # Nil /\ saved.managed[f] # saved.orig[f]
       /\ Sets(S, saved.orig)
       /\ lent' = lent \ S
       /\ doubt' = doubt \ S
  /\ UNCHANGED saved

\* What was announced and is in doubt may be left behind.
Forget ==
  /\ lent \subseteq doubt
  /\ ~saved'.held
  /\ UNCHANGED <<account, lent, doubt>>

Kept == Edit \/ Save \/ Announce \/ Write \/ GiveBack \/ Forget

\* Once the trust is lost nothing restores it.
CustodyNext == IF trusted' THEN trusted /\ Kept ELSE TRUE

CustodySpec == Empty /\ [][CustodyNext]_custodyVars
=============================================================================

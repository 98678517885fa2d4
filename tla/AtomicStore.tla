---------------------------- MODULE AtomicStore ----------------------------
(***************************************************************************)
(* What the harness may assume of the storage of a session: a transaction  *)
(* becomes durable whole or not at all, after all earlier ones, and is     *)
(* never lost or changed afterwards. Whoever was told that a transaction   *)
(* has been committed finds it there, now and after any restart. A commit  *)
(* that reports a failure leaves a doubt: its transaction may be durable.  *)
(* A restart settles that. Committing more before it voids every promise   *)
(* but the one that what was durable before stays where it is.             *)
(***************************************************************************)
EXTENDS Integers, Sequences

CONSTANTS Transactions,   \* what may be committed
          Imported        \* the log of an imported session

VARIABLES log,            \* the durable transactions, in order
          acked,          \* those reported to their callers as committed
          doubt           \* "none", "trailing" after a failed commit, "buried" under a later one

vars == <<log, acked, doubt>>

Logged == { log[i] : i \in DOMAIN log }

Init == /\ log \in { <<>>, Imported }
        /\ acked = {}
        /\ doubt = "none"

Grows == Len(log') >= Len(log) /\ \A i \in DOMAIN log : log'[i] = log[i]

OneMore == Len(log') = Len(log) + 1 /\ Grows /\ log'[Len(log')] \in Transactions

\* A transaction becomes durable. Its caller may hear of it later, or never.
Persist == /\ doubt = "none"
           /\ OneMore
           /\ UNCHANGED <<acked, doubt>>

Acknowledge == /\ doubt = "none"
               /\ \E tx \in Logged \ acked : acked' = acked \union {tx}
               /\ UNCHANGED <<log, doubt>>

\* A commit fails, and its transaction is durable or not.
Doubt == /\ doubt = "none"
         /\ doubt' = "trailing"
         /\ log' = log \/ OneMore
         /\ UNCHANGED acked

\* The session is opened anew, with what is durable.
Settle == /\ doubt = "trailing"
          /\ doubt' = "none"
          /\ UNCHANGED <<log, acked>>

\* A commit on top of the doubt, and what comes after it.
Bury == /\ doubt \in {"trailing", "buried"}
        /\ doubt' = "buried"
        /\ Grows
        /\ acked \subseteq acked'

\* The session is deleted.
Discard == /\ log' = <<>>
           /\ acked' = {}
           /\ doubt' = "none"

Next == Persist \/ Acknowledge \/ Doubt \/ Settle \/ Bury \/ Discard

Spec == Init /\ [][Next]_vars
=============================================================================

----------------------------- MODULE CapacityLedger -----------------------------
(***************************************************************************)
(* What the capacity scripts and everybody who calls them promise together:*)
(* a ledger kept by one sequential bookkeeper.  A pod id is granted its    *)
(* request at most once in its life, on one host, when the request fits in *)
(* every dimension; a grant is returned at most once; and a counter moves  *)
(* with a grant or a return and by exactly the request, never otherwise.   *)
(* There are no workers, messages, crashes, rollbacks or clamps here.      *)
(***************************************************************************)
EXTENDS Integers

CONSTANTS
  Hosts,    \* the nodes accounted for
  Clients,  \* pod ids
  Kinds,    \* the dimensions of a request
  Request,  \* [Clients -> [Kinds -> 1..]]
  Limit     \* [Hosts -> [Kinds -> 1..]]

VARIABLES
  granted,  \* per host, the clients that hold a grant
  counter,  \* per host and kind, what the grants add up to
  drawn     \* clients that will not be granted anything again

ledger == <<granted, counter, drawn>>

LedgerInit ==
  /\ granted = [h \in Hosts |-> {}]
  /\ counter = [h \in Hosts |-> [k \in Kinds |-> 0]]
  /\ drawn = {}

Grant(h, c) ==
  /\ c \notin drawn
  /\ \A k \in Kinds : counter[h][k] + Request[c][k] <= Limit[h][k]
  /\ granted' = [granted EXCEPT ![h] = @ \cup {c}]
  /\ counter' = [counter EXCEPT ![h] =
                   [k \in Kinds |-> counter[h][k] + Request[c][k]]]
  /\ drawn' = drawn \cup {c}

Return(h, c) ==
  /\ c \in granted[h]
  /\ granted' = [granted EXCEPT ![h] = @ \ {c}]
  /\ counter' = [counter EXCEPT ![h] =
                   [k \in Kinds |-> counter[h][k] - Request[c][k]]]
  /\ UNCHANGED drawn

(* The id was used for a host this ledger does not account for. *)
Draw(c) ==
  /\ c \notin drawn
  /\ drawn' = drawn \cup {c}
  /\ UNCHANGED <<granted, counter>>

LedgerNext ==
  \E c \in Clients :
    \/ \E h \in Hosts : Grant(h, c) \/ Return(h, c)
    \/ Draw(c)

LedgerSpec == LedgerInit /\ [][LedgerNext]_ledger
================================================================================

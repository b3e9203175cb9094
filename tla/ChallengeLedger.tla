---------------------------- MODULE ChallengeLedger ----------------------------
(***************************************************************************)
(* What the challenges are for, with every request a single step: a table  *)
(* of live codes.  A code is issued once, is charged for wrong guesses     *)
(* while it is live, and is spent at most once, by the step that takes it  *)
(* off the table.                                                          *)
(***************************************************************************)
EXTENDS OtpDomain

CONSTANT Times  \* the clock readings there can be

VARIABLES
    live,   \* the live code of every key, or None
    used,   \* nonces that can not become live (again)
    spent   \* nonces whose code was accepted

ledgerVars == <<live, used, spent>>

LedgerInit ==
    /\ live = [k \in Keys |-> None]
    /\ used = {}
    /\ spent = {}

(* The number of a code issued at a time, which may start again at 1 when  *)
(* the previous code is not known.                                         *)
Follows(k, count, time) ==
    \/ count = 1
    \/ /\ live[k] # None
       /\ time - live[k].sentAt < Window
       /\ count = live[k].requestCount + 1
       /\ count <= MaxRequests

Issue(k, n) ==
    /\ n \notin used
    /\ \E count \in 1 .. MaxRequests, time \in Times :
         /\ Follows(k, count, time)
         /\ live' = [live EXCEPT ![k] =
              [nonce |-> n, attempts |-> 0, requestCount |-> count,
               sentAt |-> time]]
    /\ used' = used \cup {n}
    /\ UNCHANGED spent

(* A code that never became live: the store refused it. *)
Abandon(n) ==
    /\ n \notin used
    /\ used' = used \cup {n}
    /\ UNCHANGED <<live, spent>>

Charge(k) ==
    /\ live[k] # None
    /\ live[k].attempts < AllowedAttempts
    /\ live' = [live EXCEPT ![k].attempts = @ + 1]
    /\ UNCHANGED <<used, spent>>

Redeem(k) ==
    /\ live[k] # None
    /\ live[k].nonce \notin spent
    /\ spent' = spent \cup {live[k].nonce}
    /\ live' = [live EXCEPT ![k] = None]
    /\ UNCHANGED used

(* Removed without being accepted: over, or accepted with the answer lost. *)
Discard(k) ==
    /\ live[k] # None
    /\ live' = [live EXCEPT ![k] = None]
    /\ UNCHANGED <<used, spent>>

LedgerNext ==
    \/ \E k \in Keys : Charge(k) \/ Redeem(k) \/ Discard(k)
    \/ \E n \in Nonces : Abandon(n) \/ \E k \in Keys : Issue(k, n)

LedgerSpec == LedgerInit /\ [][LedgerNext]_ledgerVars
=============================================================================

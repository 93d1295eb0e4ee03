----------------------------- MODULE JobLedger -------------------------------
(*************************************************************************)
(* What the claims of scheduled jobs promise (ADR-0006): a key is run by *)
(* one holder at a time, only its holder says how the run ended, a       *)
(* failed run may be repeated, and success and conflict are final.       *)
(*                                                                       *)
(* Why a holder may be replaced (its lease ran out) is left to the       *)
(* implementation.                                                       *)
(*************************************************************************)
EXTENDS Naturals

CONSTANTS
  Keys,     \* execution keys
  Holders   \* tokens of the runs, a new one for each

VARIABLES
  outcome,   \* outcome[k]: how key k stands
  holder,    \* holder[k]: the run that holds key k, when one does
  attempts,  \* attempts[k]: how often key k was granted
  reporter   \* reporter[k]: the run that last said how key k ended

ledgerVars == <<outcome, holder, attempts, reporter>>

Final == {"succeeded", "conflict"}

Nobody == 0

LedgerInit ==
  /\ outcome = [k \in Keys |-> "none"]
  /\ holder = [k \in Keys |-> Nobody]
  /\ attempts = [k \in Keys |-> 0]
  /\ reporter = [k \in Keys |-> Nobody]

Grant(k, h) ==
  /\ outcome[k] \notin Final
  /\ h # holder[k]
  /\ outcome' = [outcome EXCEPT ![k] = "running"]
  /\ holder' = [holder EXCEPT ![k] = h]
  /\ attempts' = [attempts EXCEPT ![k] = @ + 1]
  /\ UNCHANGED reporter

Report(k, h, result) ==
  /\ outcome[k] = "running" /\ holder[k] = h
  /\ outcome' = [outcome EXCEPT ![k] = result]
  /\ holder' = [holder EXCEPT ![k] = Nobody]
  /\ reporter' = [reporter EXCEPT ![k] = h]
  /\ UNCHANGED attempts

LedgerNext ==
  \E k \in Keys, h \in Holders :
    Grant(k, h) \/ \E result \in Final \cup {"failed"} : Report(k, h, result)

LedgerSpec == LedgerInit /\ [][LedgerNext]_ledgerVars
=============================================================================

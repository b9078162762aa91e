---------------------------- MODULE TokenQuotas ----------------------------
(***************************************************************************)
(* QuotaManager.check_and_record_consumption (backend/platform/            *)
(* quota_manager.py) for one workspace and user: the row of usage is read, *)
(* compared with the policy, and written back with the sum.  The lock is   *)
(* the manager's, and every PlatformManager makes a manager of its own.    *)
(* Costs go the way of tokens.  No code puts a counter back to zero.       *)
(***************************************************************************)
EXTENDS Naturals

CONSTANTS Charges,         \* calls of check_and_record_consumption
          Managers, ManagerOf,
          Tokens,          \* what each call is to consume
          DailyLimit,
          MaxDays          \* bound: days

ASSUME QuotaAssumption ==
    /\ ManagerOf \in [Charges -> Managers]
    /\ Tokens \in [Charges -> Nat]
    /\ DailyLimit \in Nat /\ MaxDays \in Nat

VARIABLES locked,          \* the managers whose _lock is held
          charge,          \* where each call is
          seen,            \* the usage it has read
          usage,           \* tokens_today and tokens_month of the row
          day,
          usedToday, used, \* history: what was allowed, today and in all
          chargesCrossed          \* history: two calls were between their read and their
                           \* write at once

quotaVars == <<locked, charge, seen, usage, day, usedToday, used, chargesCrossed>>

Counters == [today : Nat, month : Nat]
Zero == [today |-> 0, month |-> 0]

QuotaTypeOK ==
    /\ locked \subseteq Managers
    /\ charge \in [Charges -> {"new", "read", "check", "save", "allowed", "refused", "unfair",
                          "failed"}]
    /\ seen \in [Charges -> Counters] /\ usage \in Counters
    /\ day \in 0..MaxDays
    /\ usedToday \in Nat /\ used \in Nat
    /\ chargesCrossed \in BOOLEAN

QuotaInit ==
    /\ locked = {}
    /\ charge = [c \in Charges |-> "new"] /\ seen = [c \in Charges |-> Zero]
    /\ usage = Zero
    /\ day = 0 /\ usedToday = 0 /\ used = 0
    /\ chargesCrossed = FALSE

ChargeGoes(c, from, to) == charge[c] = from /\ charge' = [charge EXCEPT ![c] = to]

\* Faulty variant: no lock.
EnterFreely(c) ==
    /\ ChargeGoes(c, "new", "read")
    /\ UNCHANGED <<locked, seen, usage, day, usedToday, used, chargesCrossed>>

EnterManager(c) ==
    /\ ChargeGoes(c, "new", "read")
    /\ ManagerOf[c] \notin locked
    /\ locked' = locked \cup {ManagerOf[c]}
    /\ UNCHANGED <<seen, usage, day, usedToday, used, chargesCrossed>>

\* SELECT from platform_quota_usage; a row that is not there counts for zero.
ReadUsage(c) ==
    /\ ChargeGoes(c, "read", "check")
    /\ seen' = [seen EXCEPT ![c] = usage]
    /\ chargesCrossed' = \/ chargesCrossed
                         \/ \E d \in Charges : /\ ManagerOf[d] # ManagerOf[c]
                                               /\ charge[d] \in {"check", "save"}
    /\ UNCHANGED <<locked, usage, day, usedToday, used>>

\* Faulty variant: the usage before the call is compared.
WithinLimitBefore(c) == seen[c].today <= DailyLimit

WithinLimit(c) == seen[c].today + Tokens[c] <= DailyLimit

\* Check bounds: the daily limit decides.  A refusal is noted as unfair if the
\* tokens allowed today leave room for the call.
Refuse(c) ==
    /\ ~WithinLimit(c)
    /\ ChargeGoes(c, "check", IF usedToday + Tokens[c] <= DailyLimit THEN "unfair" ELSE "refused")
    /\ locked' = locked \ {ManagerOf[c]}
    /\ UNCHANGED <<seen, usage, day, usedToday, used, chargesCrossed>>

Allow(c) ==
    /\ WithinLimit(c)
    /\ ChargeGoes(c, "check", "save")
    /\ UNCHANGED <<locked, seen, usage, day, usedToday, used, chargesCrossed>>

\* INSERT ... ON CONFLICT DO UPDATE: the sums, whatever the row is by now.
SaveUsage(c) ==
    /\ ChargeGoes(c, "save", "allowed")
    /\ usage' = [today |-> seen[c].today + Tokens[c], month |-> seen[c].month + Tokens[c]]
    /\ usedToday' = usedToday + Tokens[c] /\ used' = used + Tokens[c]
    /\ locked' = locked \ {ManagerOf[c]}
    /\ UNCHANGED <<seen, day, chargesCrossed>>

\* The database raises at the SELECT, or at the INSERT or its commit: the
\* connection is closed, the lock released and nothing written.
ChargeFails(c) ==
    /\ charge[c] \in {"read", "save"}
    /\ charge' = [charge EXCEPT ![c] = "failed"]
    /\ locked' = locked \ {ManagerOf[c]}
    /\ UNCHANGED <<seen, usage, day, usedToday, used, chargesCrossed>>

NextDay ==
    /\ day < MaxDays
    /\ day' = day + 1
    /\ usedToday' = 0
    /\ UNCHANGED <<locked, charge, seen, usage, used, chargesCrossed>>

QuotaNext ==
    \/ \E c \in Charges : \/ EnterManager(c) \/ ReadUsage(c) \/ Refuse(c) \/ Allow(c)
                          \/ SaveUsage(c) \/ ChargeFails(c)
    \/ NextDay

QuotaSpec == QuotaInit /\ [][QuotaNext]_quotaVars

---------------------------------------------------------------------------
\* The row has every token that was allowed, unless calls through two managers
\* crossed between read and write.
NoTokenIsLost == usage.month = used \/ chargesCrossed

\* What is allowed never exceeds the daily limit, not in all days together,
\* unless calls through two managers crossed.
LimitHolds == used <= DailyLimit \/ chargesCrossed

\* So what the row says and what the limit lets through are right together.
UsageIsExact == NoTokenIsLost /\ LimitHolds

---------------------------------------------------------------------------
\* quota_manager.py:1, "enforcing daily and monthly token/cost limits": the
\* limit is a daily one, and a call is refused only if what was allowed today
\* leaves no room for it.
RefusedByTheDay == \A c \in Charges : charge[c] # "unfair"
=============================================================================

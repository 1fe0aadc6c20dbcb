---------------------------- MODULE TokenBudget ----------------------------
(***************************************************************************)
(* What the GA4 mock promises about quota: tokens are granted against the  *)
(* clock hour and the clock day a request falls in, all of a request's     *)
(* tokens or none, and a request is refused only when its own property has *)
(* not enough left of its own kind of tokens in that very hour and day.    *)
(* Buckets, their windows and their locks are not visible here.            *)
(***************************************************************************)
EXTENDS Naturals

CONSTANTS Property, Thread, HourlyTokenLimit, DailyTokenLimit,
          RealtimeDailyLimit, Cost, HoursPerDay, MaxHours

VARIABLES clock,       \* the present hour
          hourGrants,  \* core tokens granted per property and hour
          dayGrants,   \* core tokens granted per property and day
          rtGrants,    \* realtime tokens granted per property and day
          prop,        \* the property each request under way is for
          budget,      \* the tokens it needs, "core" or "realtime"
          verdict      \* what it has been told

budgetVars == <<clock, hourGrants, dayGrants, rtGrants, prop, budget, verdict>>

Today == clock \div HoursPerDay

Zero == [p \in Property |-> [h \in 0..MaxHours |-> 0]]

BudgetInit ==
  /\ clock = 0
  /\ hourGrants = Zero /\ dayGrants = Zero /\ rtGrants = Zero
  /\ prop = [t \in Thread |-> "none"]
  /\ budget = [t \in Thread |-> "none"]
  /\ verdict = [t \in Thread |-> "none"]

CoreFits(p) ==
  /\ hourGrants[p][clock] + Cost <= HourlyTokenLimit
  /\ dayGrants[p][Today] + Cost <= DailyTokenLimit

RealtimeFits(p) == rtGrants[p][Today] < RealtimeDailyLimit

Open(t, p, b) ==
  /\ budget[t] = "none"
  /\ prop' = [prop EXCEPT ![t] = p]
  /\ budget' = [budget EXCEPT ![t] = b]
  /\ UNCHANGED <<clock, hourGrants, dayGrants, rtGrants, verdict>>

GrantCore(t) ==
  LET p == prop[t]
  IN  /\ budget[t] = "core" /\ verdict[t] = "none" /\ CoreFits(p)
      /\ hourGrants' = [hourGrants EXCEPT ![p][clock] = @ + Cost]
      /\ dayGrants' = [dayGrants EXCEPT ![p][Today] = @ + Cost]
      /\ verdict' = [verdict EXCEPT ![t] = "granted"]
      /\ UNCHANGED <<clock, rtGrants, prop, budget>>

GrantRealtime(t) ==
  LET p == prop[t]
  IN  /\ budget[t] = "realtime" /\ verdict[t] = "none" /\ RealtimeFits(p)
      /\ rtGrants' = [rtGrants EXCEPT ![p][Today] = @ + 1]
      /\ verdict' = [verdict EXCEPT ![t] = "granted"]
      /\ UNCHANGED <<clock, hourGrants, dayGrants, prop, budget>>

\* Whatever others have used up: it is this request's meter that must be short.
Refuse(t) ==
  /\ verdict[t] = "none"
  /\ \/ budget[t] = "core" /\ ~CoreFits(prop[t])
     \/ budget[t] = "realtime" /\ ~RealtimeFits(prop[t])
  /\ verdict' = [verdict EXCEPT ![t] = "refused"]
  /\ UNCHANGED <<clock, hourGrants, dayGrants, rtGrants, prop, budget>>

Close(t) ==
  /\ verdict[t] # "none"
  /\ prop' = [prop EXCEPT ![t] = "none"]
  /\ budget' = [budget EXCEPT ![t] = "none"]
  /\ verdict' = [verdict EXCEPT ![t] = "none"]
  /\ UNCHANGED <<clock, hourGrants, dayGrants, rtGrants>>

Tick ==
  /\ clock' = clock + 1
  /\ UNCHANGED <<hourGrants, dayGrants, rtGrants, prop, budget, verdict>>

BudgetNext ==
  \/ Tick
  \/ \E t \in Thread :
       \/ \E p \in Property, b \in {"core", "realtime"} : Open(t, p, b)
       \/ GrantCore(t) \/ GrantRealtime(t) \/ Refuse(t) \/ Close(t)

BudgetSpec == BudgetInit /\ [][BudgetNext]_budgetVars
=============================================================================

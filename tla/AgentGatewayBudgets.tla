------------------------- MODULE AgentGatewayBudgets -------------------------
(***************************************************************************)
(* Why the pruned list of recent calls and the one usage record per agent  *)
(* are enough to hold the rate limit and the daily call limit, whatever    *)
(* grants came in between.  Both rest on the wall clock: it must not step  *)
(* back, and for the rate limit it must not read 0 (clock.rs returns 0     *)
(* when the system clock is before the epoch).                             *)
(***************************************************************************)
EXTENDS AgentGatewayProofs, FiniteSetTheorems

-----------------------------------------------------------------------------
(* The rate limiter.                                                       *)

\* What the limiter notes of an admission.
Note(ad) == [id |-> ad.id, agent |-> ad.call.agent, ts |-> ad.at]

AdmissionsAreUnique ==
  \A i, j \in DOMAIN admissions : admissions[i].id = admissions[j].id => i = j

\* Admissions belong to this process or an earlier one, and to the past.
AdmissionsArePast ==
  /\ now > 0
  /\ \A j \in DOMAIN admissions :
       /\ admissions[j].boot <= boots
       /\ admissions[j].at > 0
       /\ admissions[j].at <= now

\* The limiter forgets only what has left the window.
LimiterRemembers ==
  /\ IsFiniteSet(recent_calls)
  /\ \A j \in DOMAIN admissions :
       admissions[j].boot = boots =>
         \/ Note(admissions[j]) \in recent_calls
         \/ admissions[j].at <= saturating_sub(now, RateWindow)

RateInv == AdmissionsAreUnique /\ AdmissionsArePast /\ LimiterRemembers /\ RateCeiling

\* A clock that never steps back, and one that besides never reads 0.
ClockForward == ClockSteps \subseteq Nat
ClockRuns    == ClockForward /\ StartTime > 0

\* The admissions the ceiling counts for the one at position i.
InWindow(log, i) ==
  {j \in 1..i : /\ log[j].call.agent = log[i].call.agent
                /\ log[j].boot = log[i].boot
                /\ log[j].at > log[i].at - RateWindow}

Ceiling(log, i) ==
  log[i].grant.rate_limit_per_min # 0 =>
    Cardinality(InWindow(log, i)) <= log[i].grant.rate_limit_per_min

LEMMA CeilingMeans == RateCeiling <=> \A i \in DOMAIN admissions : Ceiling(admissions, i)
BY DEF RateCeiling, Ceiling, InWindow, SameBudget

\* A later admission changes nothing for an earlier one.
LEMMA CeilingStays ==
  ASSUME NEW log \in Seq(Admission), NEW ad \in Admission, NEW i \in DOMAIN log,
         Ceiling(log, i)
  PROVE  Ceiling(Append(log, ad), i)
<1>1. i \in DOMAIN Append(log, ad) /\ Append(log, ad)[i] = log[i]
  OBVIOUS
<1>2. \A j \in 1..i : Append(log, ad)[j] = log[j]
  OBVIOUS
<1>3. InWindow(Append(log, ad), i) = InWindow(log, i)
  BY <1>1, <1>2 DEF InWindow
<1>. QED
  BY <1>1, <1>3 DEF Ceiling

\* The calls of an agent that the limiter counts.
Remembered(grant, agent) == {c \in AfterRateCheck(grant) : c.agent = agent}

\* What an admission within the window is matched with: its note.
LEMMA WindowFitsMemory ==
  ASSUME TypeOK, AdmissionsAreUnique, AdmissionsArePast, LimiterRemembers,
         NEW grant, grant.rate_limit_per_min # 0, NEW agent,
         NEW J \in SUBSET DOMAIN admissions,
         \A j \in J : /\ admissions[j].call.agent = agent
                      /\ admissions[j].boot = boots
                      /\ admissions[j].at > now - RateWindow
  PROVE  /\ IsFiniteSet(J)
         /\ Cardinality(J) <= Cardinality(Remembered(grant, agent))
         /\ Cardinality(Remembered(grant, agent)) \in Nat
<1>. DEFINE R == Remembered(grant, agent)
            f == [j \in J |-> Note(admissions[j])]
<1>1. RateWindow \in Nat /\ now \in Nat /\ admissions \in Seq(Admission)
  BY GatewayAssumption DEF GatewayAssumption, TypeOK
<1>2. ASSUME NEW j \in J PROVE Note(admissions[j]) \in R
  <2>1. /\ j \in DOMAIN admissions
        /\ admissions[j] \in Admission /\ admissions[j].at \in Nat
        /\ admissions[j].at > 0 /\ admissions[j].at > now - RateWindow
    <3>1. j \in DOMAIN admissions /\ admissions[j] \in Admission
      BY <1>1
    <3>2. admissions[j].at \in Nat
      BY <3>1 DEF Admission
    <3>. QED
      BY <3>1, <3>2 DEF AdmissionsArePast
  <2>2. admissions[j].at > saturating_sub(now, RateWindow)
    BY <1>1, <2>1 DEF saturating_sub
  <2>3. saturating_sub(now, RateWindow) \in Nat
    BY <1>1 DEF saturating_sub
  <2>4. Note(admissions[j]) \in recent_calls
    BY <2>1, <2>2, <2>3 DEF LimiterRemembers
  <2>5. Note(admissions[j]).ts = admissions[j].at /\ Note(admissions[j]).agent = agent
    BY DEF Note
  <2>. QED
    BY <2>2, <2>4, <2>5 DEF Remembered, AfterRateCheck
<1>3. \A i, j \in J : f[i] = f[j] => i = j
  BY DEF Note, AdmissionsAreUnique
<1>4. f \in [J -> R]
  BY <1>2
<1>5. R \in SUBSET recent_calls
  BY DEF Remembered, AfterRateCheck
<1>6. IsFiniteSet(R) /\ Cardinality(R) \in Nat
  BY <1>5, FS_Subset, FS_CardinalityType DEF LimiterRemembers
<1>. HIDE DEF f, R
<1>7. f \in Injection(J, R)
  BY <1>3, <1>4 DEF Injection, IsInjective
<1>8. IsFiniteSet(J) /\ Cardinality(J) <= Cardinality(R)
  BY <1>6, <1>7, FS_Injection
<1>. QED
  BY <1>6, <1>8 DEF R

\* What an admission does to the limiter and to the history.
LEMMA AdmissionOf ==
  ASSUME TypeOK, Admitting
  PROVE  \E ad \in Admission :
           /\ admissions' = Append(admissions, ad)
           /\ ad.id = CallId /\ ad.boot = boots /\ ad.at = now
           /\ WithinBudgets(ad.grant, ad.call.agent)
           /\ recent_calls' = AfterRateCheck(ad.grant) \cup {Note(ad)}
           /\ ad.call.agent \in Agents
           /\ note_daily_call(ad.call.agent)
           /\ UNCHANGED <<now, boots>>
<1>1. PICK grant \in Grants, call \in Calls, policy \in Policies \cup {NoPolicy},
           by \in Agents, before \in Attributions :
             \/ AdmitAuto(grant, call, policy, by, before)
             \/ AdmitReview(grant, call, policy, by, before)
  BY DEF Admitting
<1>2. PICK class \in {"auto", "review"} : Admit(grant, call, class, policy, by)
  BY <1>1 DEF AdmitAuto, AdmitReview
<1>. DEFINE ad == [id |-> CallId, call |-> call, class |-> class, grant |-> grant,
                   policy |-> policy, by |-> by, at |-> now, boot |-> boots]
<1>3. CallId \in Ids /\ call.agent \in Agents
  BY DEF CallId, Ids, TypeOK, Calls
<1>4. ad \in Admission
  BY <1>3 DEF Admission, TypeOK
<1>5. /\ ad.id = CallId /\ ad.boot = boots /\ ad.at = now /\ ad.grant = grant
      /\ ad.call.agent = call.agent
      /\ Note(ad) = [id |-> CallId, agent |-> call.agent, ts |-> now]
  BY DEF Note
<1>6. admissions' = Append(admissions, ad)
  BY <1>2 DEF Admit
<1>. HIDE DEF ad
<1>. QED
  BY <1>2, <1>3, <1>4, <1>5, <1>6 DEF Admit

\* Every other step leaves the admissions alone.
LEMMA NoAdmission ==
  ASSUME TypeOK, [Next]_vars, ~Admitting
  PROVE  UNCHANGED admissions
<1>1. Refusing \/ World \/ Record \/ CrashRestart \/ (\E tokens \in TokenCosts : Execute(tokens))
        \/ UNCHANGED vars => UNCHANGED admissions
  BY DEF Refusing, Refuse, World, InsertGrant, RemoveAgent, Tick, Execute, Record,
         CrashRestart, vars, history
<1>2. ASSUME NEW card \in cards, NEW approved \in BOOLEAN, resolve(card, approved)
      PROVE  UNCHANGED admissions
  BY <1>2 DEF resolve, history
<1>. QED
  BY <1>1, <1>2, StepShapes

LEMMA NewAdmissionIsNew ==
  ASSUME AuthInv, AdmissionsAreUnique, NEW ad \in Admission, ad.id = CallId,
         admissions' = Append(admissions, ad)
  PROVE  AdmissionsAreUnique'
<1>1. admissions \in Seq(Admission)
  BY DEF AuthInv, TypeOK
<1>2. ASSUME NEW j \in DOMAIN admissions PROVE admissions[j].id # CallId
  <2>1. Backed(admissions, admissions[j].id, admissions[j].call, admissions[j].class)
    BY DEF Backed
  <2>. QED
    BY <2>1, CallIdFresh DEF AuthInv
<1>. QED
  BY <1>1, <1>2 DEF AdmissionsAreUnique

\* The bound the limiter checked is the bound of the new admission.
LEMMA CeilingOfNew ==
  ASSUME TypeOK, AdmissionsAreUnique, AdmissionsArePast, LimiterRemembers,
         NEW ad \in Admission, ad.boot = boots, ad.at = now,
         WithinBudgets(ad.grant, ad.call.agent)
  PROVE  Ceiling(Append(admissions, ad), Len(admissions) + 1)
<1>. DEFINE log == Append(admissions, ad)
            n == Len(admissions) + 1
            J == InWindow(log, n) \ {n}
            limit == ad.grant.rate_limit_per_min
            agent == ad.call.agent
<1>1. admissions \in Seq(Admission)
  BY DEF TypeOK
<1>2. log[n] = ad /\ \A j \in DOMAIN admissions : log[j] = admissions[j]
  BY <1>1
<1>3. n \in Nat /\ 1..n = DOMAIN admissions \cup {n}
  BY <1>1
<1>. HIDE DEF log, n
<1>. SUFFICES ASSUME limit # 0 PROVE Cardinality(InWindow(log, n)) <= limit
  BY <1>2 DEF Ceiling, log, n
<1>4. J \in SUBSET DOMAIN admissions
  BY <1>3 DEF InWindow
<1>5. \A j \in J : /\ admissions[j].call.agent = agent
                   /\ admissions[j].boot = boots
                   /\ admissions[j].at > now - RateWindow
  BY <1>2, <1>4 DEF InWindow
<1>. HIDE DEF J
<1>6. /\ IsFiniteSet(J)
      /\ Cardinality(J) <= Cardinality(Remembered(ad.grant, agent))
      /\ Cardinality(Remembered(ad.grant, agent)) \in Nat
  BY <1>4, <1>5, WindowFitsMemory
<1>7. Cardinality(J) \in Nat
  BY <1>6, FS_CardinalityType
<1>8. limit \in Nat
  BY GatewayAssumption DEF Admission, GatewayAssumption, CapabilityGrant
<1>9. Cardinality(Remembered(ad.grant, agent)) < limit
  BY <1>6, <1>8 DEF WithinBudgets, is_rate_limited, Remembered
<1>10. J \cup {n} \in SUBSET (J \cup {n}) /\ InWindow(log, n) \in SUBSET (J \cup {n})
  BY DEF J
<1>11. IsFiniteSet(J \cup {n}) /\ Cardinality(J \cup {n}) <= Cardinality(J) + 1
  BY <1>6, <1>7, FS_AddElement
<1>12. Cardinality(J \cup {n}) \in Nat /\ Cardinality(InWindow(log, n)) \in Nat
       /\ Cardinality(InWindow(log, n)) <= Cardinality(J \cup {n})
  BY <1>10, <1>11, FS_Subset, FS_CardinalityType
<1>. QED
  BY <1>6, <1>7, <1>8, <1>9, <1>11, <1>12

\* With such a clock time never runs back.
LEMMA TimeRuns ==
  ASSUME ClockForward, TypeOK, [Next]_vars
  PROVE  now' \in Nat /\ now <= now'
<1>1. now \in Nat
  BY DEF TypeOK
<1>2. ASSUME NEW step \in ClockSteps, Tick(step) PROVE now' \in Nat /\ now <= now'
  BY <1>1, <1>2 DEF Tick, ClockForward
<1>3. CASE UNCHANGED now
  BY <1>1, <1>3
<1>4. Admitting => UNCHANGED now
  BY AdmissionOf
<1>5. Refusing \/ Record \/ CrashRestart \/ UNCHANGED vars => UNCHANGED now
  BY DEF Refusing, Refuse, Record, CrashRestart, vars
<1>6. ASSUME NEW card \in cards, NEW approved \in BOOLEAN, resolve(card, approved)
      PROVE  UNCHANGED now
  BY <1>6 DEF resolve
<1>7. ASSUME NEW tokens \in TokenCosts, Execute(tokens) PROVE UNCHANGED now
  BY <1>7 DEF Execute
<1>8. CASE World
  BY <1>2, <1>3, <1>8 DEF World, InsertGrant, RemoveAgent
<1>. QED
  BY <1>3, <1>4, <1>5, <1>6, <1>7, <1>8, StepShapes

\* Only a restart changes the number of the process.
LEMMA BootsGrow ==
  ASSUME TypeOK, [Next]_vars
  PROVE  boots \in Nat /\ boots' \in Nat /\ boots <= boots'
<1>1. boots \in Nat
  BY DEF TypeOK
<1>2. Admitting => boots' = boots
  BY AdmissionOf
<1>3. Refusing \/ World \/ Record \/ CrashRestart \/ UNCHANGED vars
        => boots' = boots \/ boots' = boots + 1
  BY DEF Refusing, Refuse, Record, World, InsertGrant, RemoveAgent, Tick,
         CrashRestart, vars
<1>4. ASSUME NEW card \in cards, NEW approved \in BOOLEAN, resolve(card, approved)
      PROVE  boots' = boots
  BY <1>4 DEF resolve
<1>5. ASSUME NEW tokens \in TokenCosts, Execute(tokens) PROVE boots' = boots
  BY <1>5 DEF Execute
<1>6. boots' = boots \/ boots' = boots + 1
  BY <1>2, <1>3, <1>4, <1>5, StepShapes
<1>. QED
  BY <1>1, <1>6

LEMMA PastStep ==
  ASSUME ClockRuns, TypeOK, TypeOK', AdmissionsArePast, [Next]_vars
  PROVE  AdmissionsArePast'
<1>0. admissions \in Seq(Admission)
  BY DEF TypeOK
<1>1. now \in Nat /\ now' \in Nat /\ now <= now' /\ now > 0
  BY TimeRuns DEF TypeOK, AdmissionsArePast, ClockRuns
<1>2. boots \in Nat /\ boots' \in Nat /\ boots <= boots'
  BY BootsGrow
<1>3. ASSUME NEW j \in DOMAIN admissions
      PROVE  /\ admissions[j].boot <= boots'
             /\ admissions[j].at > 0
             /\ admissions[j].at <= now'
  <2>1. admissions[j] \in Admission
    BY <1>0
  <2>2. admissions[j].at \in Nat /\ admissions[j].boot \in Nat
    BY <2>1 DEF Admission
  <2>. QED
    BY <1>1, <1>2, <2>2 DEF AdmissionsArePast
<1>4. CASE Admitting
  <2>1. PICK ad \in Admission : /\ admissions' = Append(admissions, ad)
                                /\ ad.boot = boots /\ ad.at = now
    BY <1>4, AdmissionOf
  <2>2. admissions \in Seq(Admission)
    BY DEF TypeOK
  <2>3. \A j \in DOMAIN admissions' :
          \/ j \in DOMAIN admissions /\ admissions'[j] = admissions[j]
          \/ admissions'[j] = ad
    BY <2>1, <2>2
  <2>. QED
    BY <1>1, <1>2, <1>3, <2>1, <2>3 DEF AdmissionsArePast
<1>5. CASE ~Admitting
  BY <1>1, <1>3, <1>5, NoAdmission DEF AdmissionsArePast
<1>. QED
  BY <1>4, <1>5

\* Consulting the limiter forgets only what has left the window.
LEMMA PruneRemembers ==
  ASSUME TypeOK, NEW ad \in Admission, NEW grant,
         Note(ad) \in recent_calls
  PROVE  Note(ad) \in AfterRateCheck(grant) \/ ad.at <= saturating_sub(now, RateWindow)
<1>1. ad.at \in Nat
  BY DEF Admission
<1>2. saturating_sub(now, RateWindow) \in Nat
  BY GatewayAssumption DEF saturating_sub, GatewayAssumption, TypeOK
<1>3. Note(ad).ts = ad.at
  BY DEF Note
<1>. QED
  BY <1>1, <1>2, <1>3 DEF AfterRateCheck

\* The window moves on with the clock.
LEMMA WindowMoves ==
  ASSUME NEW s \in Nat, NEW t \in Nat, s <= t, NEW at \in Nat,
         at <= saturating_sub(s, RateWindow)
  PROVE  at <= saturating_sub(t, RateWindow)
BY GatewayAssumption DEF saturating_sub, GatewayAssumption

LEMMA RememberStep ==
  ASSUME ClockRuns, TypeOK, AdmissionsArePast, LimiterRemembers, [Next]_vars
  PROVE  LimiterRemembers'
<1>0. /\ now \in Nat /\ now' \in Nat /\ now <= now' /\ boots \in Nat
      /\ admissions \in Seq(Admission) /\ IsFiniteSet(recent_calls)
  BY TimeRuns DEF TypeOK, LimiterRemembers, ClockRuns
<1>1. ASSUME NEW grant PROVE IsFiniteSet(AfterRateCheck(grant))
  <2>1. AfterRateCheck(grant) \in SUBSET recent_calls
    BY DEF AfterRateCheck
  <2>. QED
    BY <1>0, <2>1, FS_Subset
<1>2. ASSUME NEW j \in DOMAIN admissions, admissions[j].boot = boots,
             \/ recent_calls \subseteq recent_calls'
             \/ \E grant : AfterRateCheck(grant) \subseteq recent_calls'
      PROVE  \/ Note(admissions[j]) \in recent_calls'
             \/ admissions[j].at <= saturating_sub(now', RateWindow)
  <2>1. admissions[j] \in Admission
    BY <1>0
  <2>2. admissions[j].at \in Nat
    BY <2>1 DEF Admission
  <2>3. \/ Note(admissions[j]) \in recent_calls
        \/ admissions[j].at <= saturating_sub(now, RateWindow)
    BY <1>2 DEF LimiterRemembers
  <2>4. \/ Note(admissions[j]) \in recent_calls'
        \/ admissions[j].at <= saturating_sub(now, RateWindow)
    BY <1>2, <2>1, <2>3, PruneRemembers
  <2>. QED
    BY <1>0, <2>2, <2>4, WindowMoves
<1>3. CASE Admitting
  <2>1. PICK ad \in Admission :
          /\ admissions' = Append(admissions, ad)
          /\ recent_calls' = AfterRateCheck(ad.grant) \cup {Note(ad)}
          /\ boots' = boots
    BY <1>3, AdmissionOf
  <2>2. \A j \in DOMAIN admissions' :
          \/ j \in DOMAIN admissions /\ admissions'[j] = admissions[j]
          \/ admissions'[j] = ad
    BY <1>0, <2>1
  <2>3. IsFiniteSet(recent_calls')
    BY <1>1, <2>1, FS_AddElement
  <2>4. AfterRateCheck(ad.grant) \subseteq recent_calls' /\ Note(ad) \in recent_calls'
    BY <2>1
  <2>. QED
    BY <1>2, <2>1, <2>2, <2>3, <2>4 DEF LimiterRemembers
<1>4. ASSUME UNCHANGED <<admissions, boots>>,
             \/ recent_calls' = recent_calls
             \/ \E grant : recent_calls' = AfterRateCheck(grant)
      PROVE  LimiterRemembers'
  <2>1. IsFiniteSet(recent_calls')
    BY <1>0, <1>1, <1>4
  <2>2. \/ recent_calls \subseteq recent_calls'
        \/ \E grant : AfterRateCheck(grant) \subseteq recent_calls'
    BY <1>4
  <2>. QED
    BY <1>2, <1>4, <2>1, <2>2 DEF LimiterRemembers
<1>5. CASE Refusing
  BY <1>4, <1>5 DEF Refusing, Refuse, history
<1>6. CASE World \/ Record \/ UNCHANGED vars
  BY <1>4, <1>6 DEF World, InsertGrant, RemoveAgent, Tick, Record, vars, process, history
<1>7. ASSUME NEW card \in cards, NEW approved \in BOOLEAN, resolve(card, approved)
      PROVE  LimiterRemembers'
  BY <1>4, <1>7 DEF resolve, history
<1>8. ASSUME NEW tokens \in TokenCosts, Execute(tokens) PROVE LimiterRemembers'
  BY <1>4, <1>8 DEF Execute
<1>9. CASE CrashRestart
  <2>1. recent_calls' = {} /\ boots' = boots + 1 /\ admissions' = admissions
    BY <1>9 DEF CrashRestart
  <2>2. ASSUME NEW j \in DOMAIN admissions PROVE admissions[j].boot # boots + 1
    <3>1. admissions[j] \in Admission
      BY <1>0
    <3>2. admissions[j].boot \in Nat
      BY <3>1 DEF Admission
    <3>. QED
      BY <1>0, <3>2 DEF AdmissionsArePast
  <2>. QED
    BY <2>1, <2>2, FS_EmptySet DEF LimiterRemembers
<1>. QED
  BY <1>3, <1>5, <1>6, <1>7, <1>8, <1>9, StepShapes

LEMMA RateStep ==
  ASSUME ClockRuns, AuthInv, TypeOK', RateInv, [Next]_vars
  PROVE  RateInv'
<1>0. /\ TypeOK /\ AdmissionsAreUnique /\ AdmissionsArePast /\ LimiterRemembers
      /\ admissions \in Seq(Admission)
  BY DEF AuthInv, TypeOK, RateInv
<1>1. AdmissionsArePast' /\ LimiterRemembers'
  BY <1>0, PastStep, RememberStep
<1>2. CASE Admitting
  <2>1. PICK ad \in Admission :
          /\ admissions' = Append(admissions, ad)
          /\ ad.id = CallId /\ ad.boot = boots /\ ad.at = now
          /\ WithinBudgets(ad.grant, ad.call.agent)
    BY <1>0, <1>2, AdmissionOf
  <2>2. AdmissionsAreUnique'
    BY <1>0, <2>1, NewAdmissionIsNew
  <2>3. \A i \in DOMAIN admissions : Ceiling(Append(admissions, ad), i)
    BY <1>0, CeilingStays, CeilingMeans DEF RateInv
  <2>4. Ceiling(Append(admissions, ad), Len(admissions) + 1)
    BY <1>0, <2>1, CeilingOfNew
  <2>5. \A i \in DOMAIN admissions' : i \in DOMAIN admissions \/ i = Len(admissions) + 1
    BY <1>0, <2>1
  <2>6. \A i \in DOMAIN admissions' : Ceiling(admissions', i)
    BY <2>1, <2>3, <2>4, <2>5, Zenon
  <2>7. RateCeiling'
    BY <2>6 DEF RateCeiling, Ceiling, InWindow, SameBudget
  <2>. QED
    BY <1>1, <2>2, <2>7 DEF RateInv
<1>3. CASE ~Admitting
  <2>1. UNCHANGED admissions
    BY <1>0, <1>3, NoAdmission
  <2>. QED
    BY <1>1, <2>1 DEF RateInv, AdmissionsAreUnique, RateCeiling, SameBudget
<1>. QED
  BY <1>2, <1>3

(* No more calls of an agent are admitted within any window than the rate
   limit of the grant that admitted the last of them (is_rate_limited and
   note_call), for every sequence of grants, provided the wall clock never
   steps back and never reads 0. *)
THEOREM RateLimitHolds ==
  ASSUME ClockRuns
  PROVE  Spec => []RateCeiling
<1>1. Init => RateInv
  BY FS_EmptySet
     DEF Init, RateInv, AdmissionsAreUnique, AdmissionsArePast, LimiterRemembers,
         RateCeiling, ClockRuns
<1>2. AuthInv /\ AuthInv' /\ RateInv /\ [Next]_vars => RateInv'
  BY RateStep DEF AuthInv
<1>3. RateInv => RateCeiling
  BY DEF RateInv
<1>. QED
  BY <1>1, <1>2, <1>3, AuthCorrect, PTL DEF Spec

-----------------------------------------------------------------------------
(* The daily call limit.                                                   *)

\* The admissions of process b to an agent on a day.
OfDay(log, b, a, d) ==
  {j \in DOMAIN log : log[j].boot = b /\ log[j].call.agent = a /\ Day(log[j].at) = d}

\* An agent's usage record counts the admissions of its day, and that day is
\* the last on which the agent was admitted anything.
Counted(log, b, a, usage) ==
  /\ usage.calls = Cardinality(OfDay(log, b, a, usage.day))
  /\ \A j \in DOMAIN log :
       log[j].boot = b /\ log[j].call.agent = a => Day(log[j].at) <= usage.day

UsageCounts ==
  /\ \A j \in DOMAIN admissions : admissions[j].boot <= boots
  /\ \A a \in Agents : /\ daily_usage[a].day <= current_day
                       /\ Counted(admissions, boots, a, daily_usage[a])

DailyInv == UsageCounts /\ DailyCallCeiling

\* What DailyCallCeiling says of the admission at position i.
SameDay(log, i) ==
  {j \in 1..i : /\ log[j].call.agent = log[i].call.agent
                /\ log[j].boot = log[i].boot
                /\ Day(log[j].at) = Day(log[i].at)}

DayCeiling(log, i) ==
  log[i].grant.daily_call_limit # 0 =>
    Cardinality(SameDay(log, i)) <= log[i].grant.daily_call_limit

LEMMA DayCeilingMeans ==
  DailyCallCeiling <=> \A i \in DOMAIN admissions : DayCeiling(admissions, i)
BY DEF DailyCallCeiling, DayCeiling, SameDay, SameBudget

LEMMA DayCeilingStays ==
  ASSUME NEW log \in Seq(Admission), NEW ad \in Admission, NEW i \in DOMAIN log,
         DayCeiling(log, i)
  PROVE  DayCeiling(Append(log, ad), i)
<1>1. i \in DOMAIN Append(log, ad) /\ Append(log, ad)[i] = log[i]
  OBVIOUS
<1>2. \A j \in 1..i : Append(log, ad)[j] = log[j]
  OBVIOUS
<1>3. SameDay(Append(log, ad), i) = SameDay(log, i)
  BY <1>1, <1>2 DEF SameDay
<1>. QED
  BY <1>1, <1>3 DEF DayCeiling

\* Days follow the clock.
LEMMA DaysFollow ==
  ASSUME NEW s \in Nat, NEW t \in Nat, s <= t
  PROVE  Day(s) \in Nat /\ Day(t) \in Nat /\ Day(s) <= Day(t)
<1>1. DayLength \in Nat \ {0}
  BY GatewayAssumption DEF GatewayAssumption
<1>. QED
  BY <1>1 DEF Day

LEMMA OfDayFinite ==
  ASSUME NEW log \in Seq(Admission), NEW b, NEW a, NEW d
  PROVE  IsFiniteSet(OfDay(log, b, a, d)) /\ Cardinality(OfDay(log, b, a, d)) \in Nat
<1>1. OfDay(log, b, a, d) \in SUBSET (1..Len(log))
  BY DEF OfDay
<1>2. IsFiniteSet(1..Len(log))
  BY FS_Interval
<1>. QED
  BY <1>1, <1>2, FS_Subset, FS_CardinalityType

\* Rolling the record over to a later day keeps it counting: nothing has been
\* admitted on that day yet.
LEMMA EntryCounts ==
  ASSUME TypeOK, UsageCounts, NEW a \in Agents
  PROVE  /\ daily_entry(a) \in Usage
         /\ daily_entry(a).day = current_day
         /\ Counted(admissions, boots, a, daily_entry(a))
<1>1. /\ admissions \in Seq(Admission) /\ daily_usage[a] \in Usage /\ now \in Nat
  BY DEF TypeOK
<1>2. current_day = Day(now) /\ current_day \in Nat
  BY <1>1, DaysFollow DEF current_day, Day
<1>3. daily_usage[a].day <= current_day /\ Counted(admissions, boots, a, daily_usage[a])
  BY DEF UsageCounts
<1>4. daily_usage[a].day \in Nat
  BY <1>1 DEF Usage
<1>5. CASE daily_usage[a].day = current_day
  BY <1>1, <1>3, <1>5 DEF daily_entry
<1>6. CASE daily_usage[a].day # current_day
  <2>. DEFINE fresh == [day |-> current_day, calls |-> 0, tokens |-> 0]
  <2>1. daily_entry(a) = fresh
    BY <1>6 DEF daily_entry
  <2>2. fresh \in Usage /\ fresh.day = current_day /\ fresh.calls = 0
    BY <1>2, GatewayAssumption DEF Usage, GatewayAssumption
  <2>3. ASSUME NEW j \in DOMAIN admissions,
               admissions[j].boot = boots, admissions[j].call.agent = a
        PROVE  Day(admissions[j].at) < current_day
    <3>1. admissions[j] \in Admission
      BY <1>1
    <3>2. Day(admissions[j].at) \in Nat
      BY <3>1, DaysFollow DEF Admission
    <3>3. Day(admissions[j].at) <= daily_usage[a].day
      BY <1>3, <2>3 DEF Counted
    <3>. QED
      BY <1>2, <1>3, <1>4, <1>6, <3>2, <3>3
  <2>4. \A j \in DOMAIN admissions : Day(admissions[j].at) \in Nat
    <3>1. ASSUME NEW j \in DOMAIN admissions PROVE Day(admissions[j].at) \in Nat
      <4>1. admissions[j] \in Admission
        BY <1>1
      <4>. QED
        BY <4>1, DaysFollow DEF Admission
    <3>. QED
      BY <3>1
  <2>5. OfDay(admissions, boots, a, current_day) = {}
    BY <1>2, <2>3, <2>4 DEF OfDay
  <2>6. Counted(admissions, boots, a, fresh)
    <3>1. fresh.calls = Cardinality(OfDay(admissions, boots, a, fresh.day))
      BY <2>2, <2>5, FS_EmptySet
    <3>2. \A j \in DOMAIN admissions :
            admissions[j].boot = boots /\ admissions[j].call.agent = a
              => Day(admissions[j].at) <= fresh.day
      BY <1>2, <2>2, <2>3, <2>4
    <3>. HIDE DEF fresh
    <3>. QED
      BY <3>1, <3>2 DEF Counted
  <2>. HIDE DEF fresh
  <2>. QED
    BY <2>1, <2>2, <2>6
<1>. QED
  BY <1>5, <1>6

\* Counting one more admission of the day, for its agent and for the others.
LEMMA CountedGrows ==
  ASSUME NEW log \in Seq(Admission), NEW ad \in Admission, NEW a \in Agents,
         NEW usage \in Usage, NEW grown \in Usage,
         Counted(log, ad.boot, a, usage),
         IF a = ad.call.agent
         THEN /\ usage.day = Day(ad.at)
              /\ grown.day = usage.day /\ grown.calls = usage.calls + 1
         ELSE grown.day = usage.day /\ grown.calls = usage.calls
  PROVE  Counted(Append(log, ad), ad.boot, a, grown)
<1>. DEFINE n == Len(log) + 1
            d == usage.day
            old == OfDay(log, ad.boot, a, d)
            new == OfDay(Append(log, ad), ad.boot, a, d)
<1>1. /\ n \notin DOMAIN log /\ DOMAIN Append(log, ad) = DOMAIN log \cup {n}
      /\ Append(log, ad)[n] = ad
      /\ \A j \in DOMAIN log : Append(log, ad)[j] = log[j]
  OBVIOUS
<1>2. IsFiniteSet(old) /\ Cardinality(old) \in Nat /\ n \notin old
  <2>1. IsFiniteSet(old) /\ Cardinality(old) \in Nat
    BY OfDayFinite
  <2>2. n \notin old
    BY <1>1 DEF OfDay
  <2>. QED
    BY <2>1, <2>2
<1>3. d \in Nat /\ grown.day = d
  BY DEF Usage
<1>4. CASE a = ad.call.agent
  <2>1. new = old \cup {n}
    BY <1>1, <1>4 DEF OfDay
  <2>2. Cardinality(new) = Cardinality(old) + 1
    BY <1>2, <2>1, FS_AddElement
  <2>3. grown.calls = Cardinality(new)
    BY <1>4, <2>2 DEF Counted
  <2>4. \A j \in DOMAIN Append(log, ad) :
          Append(log, ad)[j].boot = ad.boot /\ Append(log, ad)[j].call.agent = a
            => Day(Append(log, ad)[j].at) <= d
    <3>1. \A j \in DOMAIN log :
            log[j].boot = ad.boot /\ log[j].call.agent = a => Day(log[j].at) <= d
      BY DEF Counted
    <3>2. Day(ad.at) <= d
      BY <1>3, <1>4
    <3>. QED
      BY <1>1, <3>1, <3>2
  <2>. QED
    BY <1>3, <2>3, <2>4 DEF Counted
<1>5. CASE a # ad.call.agent
  <2>1. new = old
    BY <1>1, <1>5 DEF OfDay
  <2>2. \A j \in DOMAIN Append(log, ad) :
          Append(log, ad)[j].boot = ad.boot /\ Append(log, ad)[j].call.agent = a
            => j \in DOMAIN log /\ Append(log, ad)[j] = log[j]
    BY <1>1, <1>5
  <2>3. \A j \in DOMAIN Append(log, ad) :
          Append(log, ad)[j].boot = ad.boot /\ Append(log, ad)[j].call.agent = a
            => Day(Append(log, ad)[j].at) <= d
    BY <2>2 DEF Counted
  <2>. QED
    BY <1>3, <1>5, <2>1, <2>3 DEF Counted
<1>. QED
  BY <1>4, <1>5

\* Refreshing records leaves them counting.
LEMMA RefreshedCounts ==
  ASSUME TypeOK, TypeOK', UsageCounts, ClockForward, [Next]_vars,
         UNCHANGED <<admissions, boots>>,
         \A a \in Agents : \/ daily_usage'[a] = daily_usage[a]
                           \/ /\ daily_usage'[a].day = daily_entry(a).day
                              /\ daily_usage'[a].calls = daily_entry(a).calls
  PROVE  UsageCounts'
<1>1. now \in Nat /\ now' \in Nat /\ now <= now'
  BY TimeRuns DEF TypeOK
<1>2. current_day \in Nat /\ current_day' \in Nat /\ current_day <= current_day'
  BY <1>1, DaysFollow DEF current_day, Day
<1>3. ASSUME NEW a \in Agents
      PROVE  /\ daily_usage'[a].day <= current_day'
             /\ Counted(admissions, boots, a, daily_usage'[a])
  <2>1. /\ daily_usage[a].day \in Nat /\ daily_usage[a].day <= current_day
        /\ Counted(admissions, boots, a, daily_usage[a])
    BY DEF TypeOK, Usage, UsageCounts
  <2>2. /\ daily_entry(a).day = current_day
        /\ Counted(admissions, boots, a, daily_entry(a))
    BY EntryCounts
  <2>3. CASE daily_usage'[a] = daily_usage[a]
    BY <1>2, <2>1, <2>3
  <2>4. CASE /\ daily_usage'[a].day = daily_entry(a).day
             /\ daily_usage'[a].calls = daily_entry(a).calls
    BY <1>2, <2>2, <2>4 DEF Counted
  <2>. QED
    BY <2>3, <2>4
<1>4. \A j \in DOMAIN admissions' : admissions'[j].boot <= boots'
  BY DEF UsageCounts
<1>5. \A a \in Agents : /\ daily_usage'[a].day <= current_day'
                        /\ Counted(admissions', boots', a, daily_usage'[a])
  BY <1>3
<1>. QED
  BY <1>4, <1>5 DEF UsageCounts, Counted, OfDay, Day

LEMMA AdmittedCounts ==
  ASSUME TypeOK, UsageCounts, Admitting
  PROVE  UsageCounts'
<1>1. PICK ad \in Admission :
        /\ admissions' = Append(admissions, ad)
        /\ ad.boot = boots /\ ad.at = now /\ ad.call.agent \in Agents
        /\ note_daily_call(ad.call.agent)
        /\ UNCHANGED <<now, boots>>
  BY AdmissionOf
<1>. DEFINE caller == ad.call.agent
<1>2. admissions \in Seq(Admission) /\ daily_usage \in [Agents -> Usage] /\ boots \in Nat
      /\ now \in Nat
  BY DEF TypeOK
<1>3. current_day' = current_day /\ current_day = Day(now) /\ current_day \in Nat
  BY <1>1, <1>2, DaysFollow DEF current_day, Day
<1>4. /\ daily_entry(caller) \in Usage /\ daily_entry(caller).day = current_day
      /\ Counted(admissions, boots, caller, daily_entry(caller))
  BY <1>1, EntryCounts
<1>5. daily_usage' = [daily_usage EXCEPT ![caller] =
                        [daily_entry(caller) EXCEPT !.calls = @ + 1]]
  BY <1>1 DEF note_daily_call
<1>. HIDE DEF caller
<1>6. ASSUME NEW a \in Agents
      PROVE  /\ daily_usage'[a].day <= current_day
             /\ Counted(Append(admissions, ad), ad.boot, a, daily_usage'[a])
  <2>1. CASE a = caller
    <3>. DEFINE u == daily_entry(caller)
                g == [u EXCEPT !.calls = @ + 1]
    <3>1. daily_usage'[a] = g
      BY <1>2, <1>5, <2>1
    <3>. HIDE DEF u
    <3>2. u \in Usage /\ g \in Usage /\ g.day = u.day /\ g.calls = u.calls + 1
      BY <1>4 DEF u, Usage
    <3>. HIDE DEF g
    <3>3. Counted(admissions, ad.boot, a, u) /\ u.day = Day(ad.at) /\ u.day = current_day
      BY <1>1, <1>3, <1>4, <2>1 DEF u
    <3>4. Counted(Append(admissions, ad), ad.boot, a, g)
      BY <1>2, <2>1, <3>2, <3>3, CountedGrows DEF caller
    <3>. QED
      BY <1>3, <3>1, <3>2, <3>3, <3>4
  <2>2. CASE a # caller
    <3>1. daily_usage'[a] = daily_usage[a] /\ daily_usage[a] \in Usage
      BY <1>2, <1>5, <2>2
    <3>2. daily_usage[a].day <= current_day /\ Counted(admissions, ad.boot, a, daily_usage[a])
      BY <1>1 DEF UsageCounts
    <3>3. Counted(Append(admissions, ad), ad.boot, a, daily_usage[a])
      BY <1>2, <2>2, <3>1, <3>2, CountedGrows DEF caller
    <3>. QED
      BY <3>1, <3>2, <3>3
  <2>. QED
    BY <2>1, <2>2
<1>7. \A j \in DOMAIN admissions' : admissions'[j].boot <= boots'
  <2>1. \A j \in DOMAIN admissions' :
          \/ j \in DOMAIN admissions /\ admissions'[j] = admissions[j]
          \/ admissions'[j] = ad
    BY <1>1, <1>2
  <2>. QED
    BY <1>1, <1>2, <2>1 DEF UsageCounts
<1>8. \A a \in Agents : /\ daily_usage'[a].day <= current_day'
                        /\ Counted(admissions', boots', a, daily_usage'[a])
  BY <1>1, <1>3, <1>6
<1>. QED
  BY <1>7, <1>8 DEF UsageCounts, Counted, OfDay, Day

LEMMA UsageStep ==
  ASSUME ClockForward, TypeOK, TypeOK', UsageCounts, [Next]_vars
  PROVE  UsageCounts'
<1>0. daily_usage \in [Agents -> Usage]
  BY DEF TypeOK
<1>1. ASSUME UNCHANGED <<admissions, boots>>,
             daily_usage' = daily_usage \/ \E a \in Agents : Roll(a)
      PROVE  UsageCounts'
  <2>1. \A a \in Agents : daily_usage'[a] = daily_usage[a] \/ daily_usage'[a] = daily_entry(a)
    BY <1>0, <1>1 DEF Roll
  <2>. QED
    BY <1>1, <2>1, RefreshedCounts
<1>2. CASE Refusing
  BY <1>1, <1>2 DEF Refusing, Refuse, history
<1>3. CASE World \/ UNCHANGED vars
  BY <1>1, <1>3 DEF World, InsertGrant, RemoveAgent, Tick, vars, process, history
<1>4. ASSUME NEW card \in cards, NEW approved \in BOOLEAN, resolve(card, approved)
      PROVE  UsageCounts'
  BY <1>1, <1>4 DEF resolve, history
<1>5. ASSUME NEW tokens \in TokenCosts, Execute(tokens) PROVE UsageCounts'
  BY <1>1, <1>5 DEF Execute
<1>6. CASE Record
  <2>. DEFINE agent == running.call.agent
              tokens == running.tokens
  <2>1. running \in Running /\ agent \in Agents
    BY <1>6 DEF Record, TypeOK, Running, Calls
  <2>2. UNCHANGED <<admissions, boots>> /\ note_tokens(agent, tokens)
    BY <1>6 DEF Record
  <2>3. daily_entry(agent) \in Usage
    BY <2>1, EntryCounts
  <2>. HIDE DEF agent, tokens
  <2>. DEFINE u == daily_entry(agent)
              g == [u EXCEPT !.tokens = saturating_add(@, tokens)]
  <2>4. daily_usage' = [daily_usage EXCEPT ![agent] = g]
    BY <2>2 DEF note_tokens
  <2>5. daily_usage'[agent] = g /\ \A a \in Agents \ {agent} : daily_usage'[a] = daily_usage[a]
    BY <1>0, <2>1, <2>4
  <2>6. g.day = u.day /\ g.calls = u.calls
    <3>. HIDE DEF u
    <3>1. u \in Usage
      BY <2>3 DEF u
    <3>. QED
      BY <3>1 DEF Usage
  <2>. HIDE DEF g
  <2>. QED
    BY <2>2, <2>5, <2>6, RefreshedCounts
<1>7. CASE CrashRestart
  <2>1. /\ daily_usage' = NoUsage /\ boots' = boots + 1 /\ UNCHANGED <<admissions, now>>
    BY <1>7 DEF CrashRestart
  <2>2. boots \in Nat /\ now \in Nat /\ admissions \in Seq(Admission)
    BY DEF TypeOK
  <2>3. ASSUME NEW j \in DOMAIN admissions
        PROVE  admissions[j].boot <= boots' /\ admissions[j].boot # boots'
    <3>1. admissions[j] \in Admission
      BY <2>2
    <3>2. admissions[j].boot \in Nat
      BY <3>1 DEF Admission
    <3>. QED
      BY <2>1, <2>2, <3>2 DEF UsageCounts
  <2>4. current_day' \in Nat
    BY <2>1, <2>2, DaysFollow DEF current_day, Day
  <2>5. ASSUME NEW a \in Agents
        PROVE  daily_usage'[a].day <= current_day' /\ Counted(admissions, boots', a, daily_usage'[a])
    <3>1. daily_usage'[a].day = 0 /\ daily_usage'[a].calls = 0
      BY <2>1 DEF NoUsage
    <3>2. OfDay(admissions, boots', a, 0) = {}
      BY <2>3 DEF OfDay
    <3>3. daily_usage'[a].calls = Cardinality(OfDay(admissions, boots', a, daily_usage'[a].day))
      BY <3>1, <3>2, FS_EmptySet
    <3>. QED
      BY <2>3, <2>4, <3>1, <3>3 DEF Counted
  <2>. QED
    BY <2>1, <2>3, <2>5 DEF UsageCounts, Counted, OfDay, Day
<1>. QED
  BY <1>2, <1>3, <1>4, <1>5, <1>6, <1>7, AdmittedCounts, StepShapes

\* The record the limit was checked against counts what the ceiling counts.
LEMMA DayCeilingOfNew ==
  ASSUME TypeOK, UsageCounts,
         NEW ad \in Admission, ad.boot = boots, ad.at = now, ad.call.agent \in Agents,
         WithinBudgets(ad.grant, ad.call.agent)
  PROVE  DayCeiling(Append(admissions, ad), Len(admissions) + 1)
<1>. DEFINE log == Append(admissions, ad)
            n == Len(admissions) + 1
            limit == ad.grant.daily_call_limit
            agent == ad.call.agent
            old == OfDay(admissions, boots, agent, current_day)
<1>1. admissions \in Seq(Admission)
  BY DEF TypeOK
<1>2. log[n] = ad /\ \A j \in DOMAIN admissions : log[j] = admissions[j]
  BY <1>1
<1>3. n \in Nat /\ 1..n = DOMAIN admissions \cup {n} /\ n \notin DOMAIN admissions
  BY <1>1
<1>4. current_day = Day(now)
  BY DEF current_day, Day
<1>. HIDE DEF log, n
<1>. SUFFICES ASSUME limit # 0 PROVE Cardinality(SameDay(log, n)) <= limit
  BY <1>2 DEF DayCeiling, log, n
<1>5. SameDay(log, n) = old \cup {n}
  BY <1>2, <1>3, <1>4 DEF SameDay, OfDay
<1>6. n \notin old
  BY <1>3 DEF OfDay
<1>7. IsFiniteSet(old) /\ Cardinality(old) \in Nat
  BY <1>1, OfDayFinite
<1>8. daily_entry(agent).calls = Cardinality(old)
  BY EntryCounts DEF Counted
<1>9. limit \in Nat
  BY GatewayAssumption DEF Admission, GatewayAssumption, CapabilityGrant
<1>10. ~(daily_entry(agent).calls >= limit)
  BY DEF WithinBudgets, is_over_daily_budget
<1>. HIDE DEF old, limit
<1>11. Cardinality(SameDay(log, n)) = Cardinality(old) + 1
  BY <1>5, <1>6, <1>7, FS_AddElement
<1>. QED
  BY <1>7, <1>8, <1>9, <1>10, <1>11

(* No more calls of an agent are admitted on a calendar day, within one run
   of the process, than the daily call limit of the grant that admitted the
   last of them (is_over_daily_budget and note_daily_call): the single record
   per agent, rolled over by daily_entry, shared with the tokens and zeroed
   for whoever asks first on a new day, loses no call, provided the wall clock
   never steps back. *)
THEOREM DailyLimitHolds ==
  ASSUME ClockForward
  PROVE  Spec => []DailyCallCeiling
<1>1. Init => DailyInv
  <2>. SUFFICES ASSUME Init PROVE DailyInv
    OBVIOUS
  <2>1. admissions = <<>> /\ daily_usage = NoUsage /\ now = StartTime
    BY DEF Init
  <2>2. current_day \in Nat
    BY <2>1, GatewayAssumption, DaysFollow DEF GatewayAssumption, current_day, Day
  <2>3. \A a \in Agents : OfDay(admissions, boots, a, 0) = {}
    BY <2>1 DEF OfDay
  <2>4. \A a \in Agents : daily_usage[a].day = 0 /\ daily_usage[a].calls = 0
    BY <2>1 DEF NoUsage
  <2>5. \A a \in Agents : Counted(admissions, boots, a, daily_usage[a])
    <3>1. ASSUME NEW a \in Agents
          PROVE  daily_usage[a].calls
                   = Cardinality(OfDay(admissions, boots, a, daily_usage[a].day))
      BY <2>3, <2>4, FS_EmptySet
    <3>2. \A j \in DOMAIN admissions : FALSE
      BY <2>1
    <3>3. ASSUME NEW a \in Agents PROVE Counted(admissions, boots, a, daily_usage[a])
      BY <3>1, <3>2 DEF Counted
    <3>. QED
      BY <3>3
  <2>. QED
    BY <2>1, <2>2, <2>4, <2>5 DEF DailyInv, UsageCounts, DailyCallCeiling
<1>2. TypeOK /\ TypeOK' /\ DailyInv /\ [Next]_vars => DailyInv'
  <2>. SUFFICES ASSUME TypeOK, TypeOK', DailyInv, [Next]_vars PROVE DailyInv'
    OBVIOUS
  <2>0. UsageCounts /\ DailyCallCeiling /\ admissions \in Seq(Admission)
    BY DEF DailyInv, TypeOK
  <2>1. UsageCounts'
    BY <2>0, UsageStep
  <2>2. CASE Admitting
    <3>1. PICK ad \in Admission :
            /\ admissions' = Append(admissions, ad)
            /\ ad.boot = boots /\ ad.at = now /\ ad.call.agent \in Agents
            /\ WithinBudgets(ad.grant, ad.call.agent)
      BY <2>2, AdmissionOf
    <3>2. \A i \in DOMAIN admissions : DayCeiling(Append(admissions, ad), i)
      BY <2>0, DayCeilingStays, DayCeilingMeans
    <3>3. DayCeiling(Append(admissions, ad), Len(admissions) + 1)
      BY <2>0, <3>1, DayCeilingOfNew
    <3>4. \A i \in DOMAIN admissions' : i \in DOMAIN admissions \/ i = Len(admissions) + 1
      BY <2>0, <3>1
    <3>5. \A i \in DOMAIN admissions' : DayCeiling(admissions', i)
      BY <3>1, <3>2, <3>3, <3>4, Zenon
    <3>6. DailyCallCeiling'
      BY <3>5 DEF DailyCallCeiling, DayCeiling, SameDay, SameBudget, Day
    <3>. QED
      BY <2>1, <3>6 DEF DailyInv
  <2>3. CASE ~Admitting
    <3>1. UNCHANGED admissions
      BY <2>3, NoAdmission
    <3>. QED
      BY <2>0, <2>1, <3>1 DEF DailyInv, DailyCallCeiling, SameBudget, Day
  <2>. QED
    BY <2>2, <2>3
<1>3. DailyInv => DailyCallCeiling
  BY DEF DailyInv
<1>. QED
  BY <1>1, <1>2, <1>3, TypeCorrect, PTL DEF Spec
=============================================================================

-------------------------- MODULE RateLimitProofs --------------------------
(* What holds of the limiter for every set of clients, every budget and     *)
(* every window.                                                            *)
EXTENDS RateLimit, TLAPS

\* Every variable keeps its type: in particular the tokens of a bucket never
\* leave 0..max.  (ratelimit.go:42-54)
THEOREM TypeCorrect == Spec => []TypeOK
<1> USE RateLimitAssumption DEF none, Ages
<1>1. Init => TypeOK
  BY DEF Init, TypeOK
<1>2. TypeOK /\ [Next]_vars => TypeOK'
  <2> SUFFICES ASSUME TypeOK, [Next]_vars PROVE TypeOK'
    OBVIOUS
  <2> USE DEF TypeOK
  <2>1. CASE Tick
    BY <2>1 DEF Tick
  <2>2. ASSUME NEW c \in Clients, Admit(c) PROVE TypeOK'
    <3>1. AddrOf[c] \in Addrs
      OBVIOUS
    <3>2. TokensNow(AddrOf[c]) - 1 \in 0..Max
      BY <2>2, <3>1 DEF Admit, TokensNow
    <3>3. UsedNow(AddrOf[c]) + 1 \in Nat
      BY <3>1 DEF UsedNow
    <3>4. AgeNow(AddrOf[c]) \in 0..(Per + 1)
      BY <3>1 DEF AgeNow, WindowOver
    <3>5. age' \in [Addrs -> Ages] /\ tokens' \in [Addrs -> 0..Max] /\ used' \in [Addrs -> Nat]
      BY <2>2, <3>2, <3>3, <3>4 DEF Admit
    <3>6. since' \in [Addrs -> [Kept -> 0..(Per + 1)]]
      <4>1. SinceNow(AddrOf[c]) \in [Kept -> 0..(Per + 1)]
        BY <3>1 DEF SinceNow, Kept
      <4> QED
        BY <2>2, <4>1 DEF Admit
    <3> QED
      BY <2>2, <3>5, <3>6 DEF Admit
  <2>3. ASSUME NEW c \in Clients, Refuse(c) PROVE TypeOK'
    BY <2>3 DEF Refuse
  <2>4. ASSUME NEW c \in Clients, Upgrade(c) PROVE TypeOK'
    BY <2>4 DEF Upgrade
  <2>5. CASE UNCHANGED vars
    BY <2>5 DEF vars
  <2> QED
    BY <2>1, <2>2, <2>3, <2>4, <2>5 DEF Next
<1> QED
  BY <1>1, <1>2, PTL DEF Spec

\* In one window an address gets at most max requests through, and no token is
\* lost or given out twice.  (ratelimit.go:40-55)
THEOREM BudgetKept == Spec => []WindowBudget
<1> USE RateLimitAssumption DEF none, Ages
<1>1. Init => WindowBudget
  BY DEF Init, WindowBudget
<1>2. TypeOK /\ WindowBudget /\ [Next]_vars => WindowBudget'
  <2> SUFFICES ASSUME TypeOK, WindowBudget, [Next]_vars,
                      NEW a \in Addrs, age'[a] # none
               PROVE  used'[a] + tokens'[a] = Max /\ used'[a] <= Max
    BY DEF WindowBudget
  <2> USE DEF TypeOK, WindowBudget
  <2>1. CASE Tick
    BY <2>1 DEF Tick
  <2>2. ASSUME NEW c \in Clients, Admit(c)
        PROVE  used'[a] + tokens'[a] = Max /\ used'[a] <= Max
    <3>1. CASE a = AddrOf[c]
      <4>1. UsedNow(a) + TokensNow(a) = Max
        BY DEF UsedNow, TokensNow, WindowOver
      <4>2. TokensNow(a) \in 1..Max /\ UsedNow(a) \in Nat
        BY <2>2, <3>1 DEF Admit, TokensNow, UsedNow
      <4>3. used'[a] = UsedNow(a) + 1 /\ tokens'[a] = TokensNow(a) - 1
        BY <2>2, <3>1 DEF Admit
      <4> QED
        BY <4>1, <4>2, <4>3
    <3>2. CASE a # AddrOf[c]
      BY <2>2, <3>2 DEF Admit
    <3> QED
      BY <3>1, <3>2
  <2>3. ASSUME NEW c \in Clients, Refuse(c)
        PROVE  used'[a] + tokens'[a] = Max /\ used'[a] <= Max
    BY <2>3 DEF Refuse
  <2>4. ASSUME NEW c \in Clients, Upgrade(c)
        PROVE  used'[a] + tokens'[a] = Max /\ used'[a] <= Max
    BY <2>4 DEF Upgrade
  <2>5. CASE UNCHANGED vars
    BY <2>5 DEF vars
  <2> QED
    BY <2>1, <2>2, <2>3, <2>4, <2>5 DEF Next
<1> QED
  BY <1>1, <1>2, TypeCorrect, PTL DEF Spec

\* Why no stretch of length per holds three budgets: in the window at hand
\* only its own requests are younger than the window, and those of the window
\* before are at most Max, so that all earlier ones are longer ago than per.
Windowed(a) ==
  /\ age[a] = none => used[a] = 0 /\ \A k \in Kept : since[a][k] = Per + 1
  /\ age[a] # none => \A k \in Kept : k > used[a] => since[a][k] >= age[a]
  /\ \A k \in Kept : k > used[a] + Max => since[a][k] = Per + 1

\* An admitted request pushes the earlier ones back by one place.
LEMMA AdmitWindowed ==
  ASSUME NEW c \in Clients, NEW a \in Addrs, TypeOK, WindowBudget, Windowed(a), Admit(c)
  PROVE  Windowed(a)'
<1> USE RateLimitAssumption DEF none, Ages
<1>1. CASE a # AddrOf[c]
  BY <1>1 DEF Windowed, Admit, TypeOK
<1>2. CASE a = AddrOf[c]
  <2>1. /\ age'[a] = AgeNow(a)
        /\ used'[a] = UsedNow(a) + 1
        /\ since'[a] = SinceNow(a)
    BY <1>2 DEF Admit, TypeOK
  <2>2. /\ age[a] \in Ages /\ used[a] \in Nat
        /\ \A k \in Kept : since[a][k] \in 0..(Per + 1)
        /\ age[a] # none => used[a] <= Max
    BY DEF TypeOK, WindowBudget
  <2>3. ASSUME NEW k \in Kept, k > UsedNow(a) + 1 + Max
        PROVE  SinceNow(a)[k] = Per + 1
    <3>1. k - 1 \in Kept /\ SinceNow(a)[k] = since[a][k - 1]
      BY <2>2, <2>3 DEF SinceNow, Kept, UsedNow
    <3>2. CASE WindowOver(a)
      <4>1. k - 1 > Max
        BY <2>3, <3>2 DEF UsedNow, Kept
      <4>2. age[a] \in {none, Per + 1}
        BY <2>2, <3>2 DEF WindowOver
      <4> QED
        BY <2>2, <3>1, <4>1, <4>2 DEF Windowed, Kept
    <3>3. CASE ~WindowOver(a)
      BY <2>2, <2>3, <3>1, <3>3 DEF UsedNow, Windowed, Kept
    <3> QED
      BY <3>2, <3>3
  <2>4. ASSUME NEW k \in Kept, k > UsedNow(a) + 1
        PROVE  SinceNow(a)[k] >= AgeNow(a)
    <3>1. k - 1 \in Kept /\ SinceNow(a)[k] = since[a][k - 1]
      BY <2>2, <2>4 DEF SinceNow, Kept, UsedNow
    <3> QED
      BY <2>2, <2>4, <3>1 DEF UsedNow, AgeNow, WindowOver, Windowed, Kept
  <2>5. AgeNow(a) # none
    BY <2>2 DEF AgeNow, WindowOver
  <2> QED
    BY <2>1, <2>3, <2>4, <2>5 DEF Windowed
<1> QED
  BY <1>1, <1>2

\* Time makes the window and the requests older alike.
LEMMA TickWindowed ==
  ASSUME NEW a \in Addrs, TypeOK, Windowed(a), Tick
  PROVE  Windowed(a)'
<1> USE RateLimitAssumption DEF none, Ages
<1>1. /\ used'[a] = used[a]
      /\ age'[a] = IF age[a] \in 0..Per THEN age[a] + 1 ELSE age[a]
      /\ \A k \in Kept : since'[a][k] = IF since[a][k] <= Per THEN since[a][k] + 1 ELSE since[a][k]
  BY DEF Tick
<1>2. /\ age[a] \in Ages /\ used[a] \in Nat
      /\ \A k \in Kept : since[a][k] \in 0..(Per + 1)
  BY DEF TypeOK
<1> QED
  BY <1>1, <1>2 DEF Windowed

\* No stretch of length per sees more than two budgets of an address go
\* through, whatever the clients and the clock do.  (ratelimit.go:42-46)
THEOREM SlidingKept == Spec => []SlidingBudget
<1> USE RateLimitAssumption DEF none
<1> DEFINE Inv == \A a \in Addrs : Windowed(a)
<1>1. Init => Inv
  BY DEF Init, Windowed, Kept
<1>2. TypeOK /\ WindowBudget /\ Inv /\ [Next]_vars => Inv'
  <2> SUFFICES ASSUME TypeOK, WindowBudget, Inv, [Next]_vars, NEW a \in Addrs
               PROVE  Windowed(a)'
    OBVIOUS
  <2>1. CASE Tick
    BY <2>1, TickWindowed
  <2>2. ASSUME NEW c \in Clients, Admit(c) PROVE Windowed(a)'
    BY <2>2, AdmitWindowed
  <2>3. ASSUME NEW c \in Clients, Refuse(c) \/ Upgrade(c) PROVE Windowed(a)'
    BY <2>3 DEF Refuse, Upgrade, Windowed
  <2>4. CASE UNCHANGED vars
    BY <2>4 DEF vars, Windowed
  <2> QED
    BY <2>1, <2>2, <2>3, <2>4 DEF Next
<1>3. TypeOK /\ WindowBudget /\ Inv => SlidingBudget
  <2> SUFFICES ASSUME TypeOK, WindowBudget, NEW a \in Addrs, Windowed(a)
               PROVE  since[a][2 * Max + 1] > Per
    BY DEF SlidingBudget
  <2>1. 2 * Max + 1 \in Kept
    BY DEF Kept
  <2>2. age[a] # none => used[a] \in Nat /\ used[a] <= Max
    BY DEF TypeOK, WindowBudget
  <2> QED
    BY <2>1, <2>2 DEF Windowed
<1> QED
  BY <1>1, <1>2, <1>3, TypeCorrect, BudgetKept, PTL DEF Spec
=============================================================================

----------------------------- MODULE RateLimit -----------------------------
(***************************************************************************)
(* The limiter of backend/pkg/ratelimit: a bucket of tokens per remote     *)
(* address, refilled as a whole when its window is over.                   *)
(*                                                                         *)
(* There is no clock: a bucket has the age of its window, which grows with *)
(* every Tick up to Per + 1, "longer ago than per".  The middleware holds  *)
(* r.mu from the lookup to the decrement, so a request is one step.        *)
(***************************************************************************)
EXTENDS Integers

CONSTANTS
  Clients,   \* who asks
  Addrs,     \* hosts in RemoteAddr
  AddrOf,    \* AddrOf[c]: the address c's requests arrive from
  Max,       \* New's max (30 in the code)
  Per        \* New's per, in ticks (a minute in the code)

ASSUME RateLimitAssumption ==
  /\ AddrOf \in [Clients -> Addrs]
  /\ Max \in Nat \ {0}
  /\ Per \in Nat \ {0}

VARIABLES
  age,       \* age[a]: time since bucket.ts, or none if there is no bucket
  tokens,    \* tokens[a]: bucket.tokens
  answer,    \* answer[c]: what the last request of c got
  used,      \* used[a]: requests admitted in the window of a's bucket
  since      \* since[a][k]: time since a's k-th last admitted request

vars == <<age, tokens, answer, used, since>>

none == -1
Ages == {none} \cup 0..(Per + 1)

\* One request more than two budgets: as many as SlidingBudget has to tell apart.
Kept == 1..(2 * Max + 1)

Init ==
  /\ age = [a \in Addrs |-> none]
  /\ tokens = [a \in Addrs |-> 0]
  /\ answer = [c \in Clients |-> "none"]
  /\ used = [a \in Addrs |-> 0]
  /\ since = [a \in Addrs |-> [k \in Kept |-> Per + 1]]

\* Time passes.
Tick ==
  /\ age' = [a \in Addrs |-> IF age[a] \in 0..Per THEN age[a] + 1 ELSE age[a]]
  /\ since' = [a \in Addrs |-> [k \in Kept |->
                 IF since[a][k] <= Per THEN since[a][k] + 1 ELSE since[a][k]]]
  /\ UNCHANGED <<tokens, answer, used>>

\* ratelimit.go:42: no bucket, or its window started longer than per ago.
WindowOver(a) == age[a] \notin 0..Per

\* The bucket that decides: a fresh one or the one at hand.
TokensNow(a) == IF WindowOver(a) THEN Max ELSE tokens[a]
UsedNow(a) == IF WindowOver(a) THEN 0 ELSE used[a]
AgeNow(a) == IF WindowOver(a) THEN 0 ELSE age[a]

\* since[a] with one more request, of this moment.
SinceNow(a) == [k \in Kept |-> IF k = 1 THEN 0 ELSE since[a][k - 1]]

\* Fault: the last token is given out twice.
AdmitOneMore(c) ==
  LET a == AddrOf[c]
  IN  /\ TokensNow(a) >= 0
      /\ tokens' = [tokens EXCEPT ![a] = TokensNow(a) - 1]
      /\ used' = [used EXCEPT ![a] = UsedNow(a) + 1]
      /\ age' = [age EXCEPT ![a] = AgeNow(a)]
      /\ since' = [since EXCEPT ![a] = SinceNow(a)]
      /\ answer' = [answer EXCEPT ![c] = "ok"]

\* A request passes and takes a token.
Admit(c) ==
  LET a == AddrOf[c]
  IN  /\ TokensNow(a) > 0
      /\ tokens' = [tokens EXCEPT ![a] = TokensNow(a) - 1]
      /\ used' = [used EXCEPT ![a] = UsedNow(a) + 1]
      /\ age' = [age EXCEPT ![a] = AgeNow(a)]
      /\ since' = [since EXCEPT ![a] = SinceNow(a)]
      /\ answer' = [answer EXCEPT ![c] = "ok"]

\* Fault: a refused request starts the window anew.
RefuseProlongs(c) ==
  LET a == AddrOf[c]
  IN  /\ TokensNow(a) <= 0
      /\ age' = [age EXCEPT ![a] = 0]
      /\ answer' = [answer EXCEPT ![c] = "429"]
      /\ UNCHANGED <<tokens, used, since>>

\* A request finds no token: 429, and nothing changes.
Refuse(c) ==
  /\ TokensNow(AddrOf[c]) <= 0
  /\ answer' = [answer EXCEPT ![c] = "429"]
  /\ UNCHANGED <<age, tokens, used, since>>

\* A WebSocket handshake passes without touching a bucket.
Upgrade(c) ==
  /\ answer' = [answer EXCEPT ![c] = "upgrade"]
  /\ UNCHANGED <<age, tokens, used, since>>

Next ==
  \/ Tick
  \/ \E c \in Clients : Admit(c) \/ Refuse(c) \/ Upgrade(c)

Spec == Init /\ [][Next]_vars

\* Time goes on, and a client that can be admitted asks again some time.
FairSpec ==
  /\ Spec
  /\ WF_vars(Tick)
  /\ \A c \in Clients : WF_vars(Admit(c) \/ Refuse(c))

-----------------------------------------------------------------------------

\* Every variable keeps its type.
TypeOK ==
  /\ age \in [Addrs -> Ages]
  /\ tokens \in [Addrs -> 0..Max]
  /\ answer \in [Clients -> {"none", "ok", "429", "upgrade"}]
  /\ used \in [Addrs -> Nat]
  /\ since \in [Addrs -> [Kept -> 0..(Per + 1)]]

\* In one window an address gets no more than Max requests through, and every
\* token of its bucket is accounted for.  (ratelimit.go:40-55)
WindowBudget ==
  \A a \in Addrs : age[a] # none => used[a] + tokens[a] = Max /\ used[a] <= Max

\* Windows are fixed, so at a boundary two budgets may be spent in one stretch
\* of length per, but never more than two.  (ratelimit.go:42-46)
SlidingBudget == \A a \in Addrs : since[a][2 * Max + 1] > Per

\* A refused client that has its address to itself and keeps asking is admitted
\* again: being refused costs it nothing.  (ratelimit.go:48-52)
AdmittedAgain ==
  \A c \in Clients : (\A e \in Clients \ {c} : AddrOf[e] # AddrOf[c]) =>
    (answer[c] = "429" ~> answer[c] = "ok")
=============================================================================

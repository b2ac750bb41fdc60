--------------------------- MODULE FailurePolicy ---------------------------
(***************************************************************************)
(* Circuit-breaker policies: core/failure-policy-schema.js and the way     *)
(* state/state-graph.js stores them.                                       *)
(*                                                                         *)
(* A policy that the running code evaluates has either come back from the  *)
(* failure_policies table or is the built-in default.  In such a policy an *)
(* absent number is SQL NULL, and JavaScript reads null as 0 wherever the  *)
(* code does arithmetic with it, so 0 stands for "absent" in every numeric *)
(* field below.  Durations are whole time units.                           *)
(***************************************************************************)
EXTENDS Integers

CONSTANT NoPolicy   \* getFailurePolicy found no row, or policy_ref is empty

CooldownModes == {"exponential", "linear", "fixed"}

(* "unset": the row has no cooldown_mode, the parsed cooldown is {}.       *)
Policy ==
  [maxConsecutive  : Nat,
   mode            : CooldownModes \cup {"unset"},
   base            : Nat,
   multiplier      : Nat,
   cap             : Nat,
   degradeAfter    : Nat,
   resetOnRecovery : BOOLEAN,
   resetOnManual   : BOOLEAN]

ASSUME NoPolicyIsNoRecord == NoPolicy \notin Policy

AnyPolicy == Policy \cup {NoPolicy}

(* What Math.floor yields when the cooldown object has no base_seconds.    *)
NotANumber == -1

(* max_seconds is null, not undefined, in a stored policy without a cap,   *)
(* so the comparison "duration > null" caps it at 0.                       *)
Capped(duration, cap) == IF duration > cap THEN cap ELSE duration

GrowthFactor(policy) == IF policy.multiplier = 0 THEN 2 ELSE policy.multiplier

(* Math.pow of whole numbers, by recursion so that it can be reasoned      *)
(* about: the provers have no facts about the operator of the library.     *)
Powers(b) == LET power[n \in Nat] == IF n = 0 THEN 1 ELSE b * power[n - 1] IN power

(* Mutant: the exponent counts this failure too.                           *)
UncappedOffByOne(policy, failures) ==
  CASE policy.mode = "exponential" -> policy.base * Powers(GrowthFactor(policy))[failures]
    [] policy.mode = "linear"      -> policy.base * failures
    [] OTHER                       -> policy.base

UncappedDuration(policy, failures) ==
  CASE policy.mode = "exponential" -> policy.base * Powers(GrowthFactor(policy))[failures - 1]
    [] policy.mode = "linear"      -> policy.base * failures
    [] OTHER                       -> policy.base

CalculateCooldownDuration(policy, failures) ==
  IF policy = NoPolicy THEN 0
  ELSE IF policy.mode = "unset" THEN NotANumber
  ELSE Capped(UncappedDuration(policy, failures), policy.cap)

(* Mutant: the threshold itself does not degrade.                          *)
DegradesTooLate(policy, failures) ==
  /\ policy # NoPolicy
  /\ policy.degradeAfter # 0
  /\ failures > policy.degradeAfter

ShouldEnterDegraded(policy, failures) ==
  /\ policy # NoPolicy
  /\ policy.degradeAfter # 0
  /\ failures >= policy.degradeAfter

ShouldResetOnRecovery(policy) == policy # NoPolicy /\ policy.resetOnRecovery

ShouldResetOnManualReset(policy) == policy # NoPolicy /\ policy.resetOnManual

(* Mutant: one failure more than the maximum is let through.               *)
MaxFailuresExceeded(policy, failures) ==
  /\ policy # NoPolicy
  /\ policy.maxConsecutive # 0
  /\ failures > policy.maxConsecutive

(* Check 1 of the gate's policy evaluation: the breaker is exhausted.      *)
MaxFailuresReached(policy, failures) ==
  /\ policy # NoPolicy
  /\ policy.maxConsecutive # 0
  /\ failures >= policy.maxConsecutive

-----------------------------------------------------------------------------
(* Declaring and storing a policy.  A declared policy may leave any field  *)
(* out (Undefined); createFailurePolicy writes "value || null".            *)

Undefined == -1

Number == Nat \cup {Undefined}

Declaration ==
  [maxConsecutive  : Number,
   mode            : CooldownModes \cup {"unset"},
   base            : Number,
   multiplier      : Number,
   cap             : Number,
   degradeAfter    : Number,
   resetOnRecovery : {"undefined", "yes", "no"},
   resetOnManual   : {"undefined", "yes", "no"}]

NullIfFalsy(n) == IF n = Undefined THEN 0 ELSE n

IsDeclarable(d) ==
  /\ d.maxConsecutive = Undefined \/ d.maxConsecutive >= 1
  /\ d.mode \in CooldownModes \cup {"unset"}
  /\ d.base = Undefined \/ d.base >= 0
  /\ d.mode = "exponential" => d.multiplier = Undefined \/ d.multiplier >= 1
  /\ d.cap = Undefined \/ d.cap >= 0
  /\ d.degradeAfter = Undefined \/ d.degradeAfter >= 1

(* createFailurePolicy followed by getFailurePolicy.                       *)
Stored(d) ==
  [maxConsecutive  |-> NullIfFalsy(d.maxConsecutive),
   mode            |-> d.mode,
   base            |-> NullIfFalsy(d.base),
   multiplier      |-> NullIfFalsy(d.multiplier),
   cap             |-> NullIfFalsy(d.cap),
   degradeAfter    |-> NullIfFalsy(d.degradeAfter),
   resetOnRecovery |-> d.resetOnRecovery # "no",
   resetOnManual   |-> d.resetOnManual # "no"]

-----------------------------------------------------------------------------
(* The backoff as its documentation describes it, step by step: the first  *)
(* failure waits base, and each further one multiplies, adds base, or      *)
(* waits as long again.                                                    *)

OrElse(field, default) == IF field = Undefined THEN default ELSE field

LongerWait(d, wait) ==
  CASE d.mode = "exponential" -> OrElse(d.multiplier, 2) * wait
    [] d.mode = "linear"      -> OrElse(d.base, 0) + wait
    [] OTHER                  -> wait

DeclaredWaits(d) ==
  LET waits[n \in Nat] ==
        IF n = 0 THEN OrElse(d.base, 0) ELSE LongerWait(d, waits[n - 1])
  IN waits

(* The wait after so many failures of a policy with a cap.                 *)
DeclaredBackoff(d, failures) ==
  LET wait == DeclaredWaits(d)[failures - 1] IN IF wait > d.cap THEN d.cap ELSE wait
=============================================================================

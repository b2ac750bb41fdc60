----------------------- MODULE ReconciliationProofs -----------------------
(***************************************************************************)
(* Proofs about the reconciliation loop, for every set of objectives and   *)
(* policies and every bound.                                               *)
(*                                                                         *)
(* The argument: each handler turns a sound row into a sound row (the      *)
(* handler lemmas), so each action preserves IndInv (one step per action), *)
(* and IndInv implies the properties of the counters.  Then every step is  *)
(* shown to move each objective in one of a few ways (StepMoves), from     *)
(* which the theorems about the breaker and the refinement follow.  The    *)
(* backoff is a recursion over numbers and is proved by induction.         *)
(***************************************************************************)
EXTENDS Reconciliation, WellFoundedInduction, TLAPS

InstancePolicies == {PolicyOf[o] : o \in Objectives} \cup {DefaultPolicy}

RowOK(r) == r \in Row /\ SoundRow(r)

-----------------------------------------------------------------------------
(* Numbers                                                                 *)

(* Induction, as a fact about sets.  The theorems of the library about it  *)
(* take an operator, but a set of numbers without a least one contradicts  *)
(* their being well-founded, which is stated without one.                  *)
Less == {p \in Nat \X Nat : p[1] < p[2]}

LEMMA Least ==
  ASSUME NEW T \in SUBSET Nat, T # {}
  PROVE  \E x \in T : \A y \in T : x <= y
<1>1. IsWellFoundedOn(Less, Nat)
  <2>1. OpToRel(<, Nat) = Less
    BY DEF OpToRel, Less
  <2> QED
    BY <2>1, NatLessThanWellFounded
<1>2. PICK x \in T : \A y \in T : <<y, x>> \notin Less
  BY <1>1, WFMin
<1>3. ASSUME NEW y \in T PROVE x <= y
  <2>1. <<y, x>> \in Nat \X Nat /\ <<y, x>>[1] = y /\ <<y, x>>[2] = x
    OBVIOUS
  <2> QED
    BY <1>2, <2>1 DEF Less
<1> QED
  BY <1>3

LEMMA Induction ==
  ASSUME NEW S, 0 \in S, \A n \in Nat : n \in S => n + 1 \in S
  PROVE  Nat \subseteq S
<1> SUFFICES ASSUME Nat \ S # {} PROVE FALSE
  OBVIOUS
<1>1. PICK x \in Nat \ S : \A y \in Nat \ S : x <= y
  <2>1. (Nat \ S) \in SUBSET Nat
    OBVIOUS
  <2> QED
    BY <2>1, Least
<1>2. x # 0 /\ x - 1 \in Nat
  BY <1>1
<1>3. x - 1 \in S /\ (x - 1) + 1 = x
  BY <1>1, <1>2
<1> QED
  BY <1>1, <1>2, <1>3

(* What is defined by recursion on the numbers exists.                     *)
LEMMA Recursion ==
  ASSUME NEW a \in Nat, NEW f \in [Nat -> Nat]
  PROVE  \E g \in [Nat -> Nat] : g[0] = a /\ \A n \in Nat : g[n + 1] = f[g[n]]
<1> DEFINE Chains(n) == {h \in [Nat -> Nat] : h[0] = a /\ \A k \in Nat : k < n => h[k + 1] = f[h[k]]}
           Ends(n) == {h[n] : h \in Chains(n)}
           S == {n \in Nat : \E v \in Nat : Ends(n) = {v}}
           g == [n \in Nat |-> CHOOSE v \in Nat : Ends(n) = {v}]
<1>1. Ends(0) = {a}
  <2>1. [k \in Nat |-> a] \in Chains(0)
    OBVIOUS
  <2>2. [k \in Nat |-> a][0] = a
    OBVIOUS
  <2>3. a \in Ends(0)
    BY <2>1, <2>2
  <2> QED
    BY <2>3
<1>2. ASSUME NEW n \in Nat, NEW v \in Nat, Ends(n) = {v}
      PROVE  Ends(n + 1) = {f[v]}
  <2>1. ASSUME NEW h \in Chains(n + 1) PROVE h[n + 1] = f[v]
    <3>1. h \in Chains(n) /\ h[n + 1] = f[h[n]]
      OBVIOUS
    <3> QED
      BY <1>2, <3>1
  <2>2. PICK h \in Chains(n) : h[n] = v
    BY <1>2
  <2> DEFINE longer == [h EXCEPT ![n + 1] = f[v]]
  <2>3. longer \in Chains(n + 1)
    <3>1. longer \in [Nat -> Nat] /\ longer[0] = a
      OBVIOUS
    <3>2. ASSUME NEW k \in Nat, k < n + 1
          PROVE  longer[k + 1] = f[longer[k]]
      BY <2>2, <3>2
    <3> QED
      BY <3>1, <3>2
  <2>4. longer[n + 1] = f[v]
    OBVIOUS
  <2>5. f[v] \in Ends(n + 1)
    BY <2>3, <2>4
  <2> QED
    BY <2>1, <2>5
<1> HIDE DEF Ends
<1>3. \A n \in Nat : \E v \in Nat : Ends(n) = {v}
  <2>1. 0 \in S
    BY <1>1
  <2>2. \A n \in Nat : n \in S => n + 1 \in S
    BY <1>2
  <2>3. Nat \subseteq S
    <3> HIDE DEF S
    <3> QED BY <2>1, <2>2, Induction
  <2> QED
    BY <2>3
<1>4. \A n \in Nat : g[n] \in Nat /\ Ends(n) = {g[n]}
  BY <1>3
<1>5. g \in [Nat -> Nat]
  BY <1>3
<1>6. g[0] = a
  BY <1>1, <1>4
<1>7. ASSUME NEW n \in Nat PROVE g[n + 1] = f[g[n]]
  <2>1. Ends(n + 1) = {f[g[n]]}
    BY <1>2, <1>4
  <2>2. Ends(n + 1) = {g[n + 1]}
    BY <1>4
  <2> QED
    BY <2>1, <2>2
<1> QED
  BY <1>5, <1>6, <1>7

LEMMA Arithmetic ==
  \A x, y, z \in Nat : /\ x * y \in Nat
                      /\ x * (y * z) = y * (x * z)
                      /\ x * (y + 1) = x + x * y
                      /\ x * 1 = x
OBVIOUS

LEMMA PowersUnfold ==
  ASSUME NEW b \in Nat
  PROVE  /\ Powers(b) \in [Nat -> Nat]
         /\ Powers(b)[0] = 1 /\ \A n \in Nat : Powers(b)[n + 1] = b * Powers(b)[n]
<1> DEFINE f == [x \in Nat |-> b * x]
<1>1. PICK g \in [Nat -> Nat] : g[0] = 1 /\ \A n \in Nat : g[n + 1] = f[g[n]]
  <2>1. f \in [Nat -> Nat] /\ 1 \in Nat
    OBVIOUS
  <2> HIDE DEF f
  <2> QED BY <2>1, Recursion
<1>2. \A n \in Nat : g[n + 1] = b * g[n]
  BY <1>1
<1>3. g = [n \in Nat |-> IF n = 0 THEN 1 ELSE b * g[n - 1]]
  <2>1. ASSUME NEW n \in Nat, n # 0 PROVE g[n] = b * g[n - 1]
    <3>1. n - 1 \in Nat /\ (n - 1) + 1 = n
      BY <2>1
    <3> QED BY <1>2, <3>1
  <2> QED BY <1>1, <2>1
<1> DEFINE p == Powers(b)
<1>4. p = [n \in Nat |-> IF n = 0 THEN 1 ELSE b * p[n - 1]]
  BY <1>3 DEF Powers
<1> HIDE DEF p
<1>5. p[0] = 1
  BY <1>4
<1>6. ASSUME NEW n \in Nat PROVE p[n + 1] = b * p[n]
  <2>1. n + 1 \in Nat /\ n + 1 # 0 /\ (n + 1) - 1 = n
    OBVIOUS
  <2> QED BY <1>4, <2>1
<1>7. Nat \subseteq {n \in Nat : p[n] \in Nat}
  <2> DEFINE S == {n \in Nat : p[n] \in Nat}
  <2>1. 0 \in S
    BY <1>5
  <2>2. \A n \in Nat : n \in S => n + 1 \in S
    BY <1>6
  <2> HIDE DEF S
  <2>3. Nat \subseteq S
    BY <2>1, <2>2, Induction
  <2> QED BY <2>3 DEF S
<1> QED
  BY <1>4, <1>5, <1>6, <1>7 DEF p

-----------------------------------------------------------------------------
(* Policies                                                                *)

(* The policies of an instance are policies.                               *)
LEMMA InstancePoliciesTyped == InstancePolicies \subseteq AnyPolicy
  BY PoliciesAssumption DEF InstancePolicies, AnyPolicy

LEMMA WaitsUnfold ==
  ASSUME NEW d \in Declaration
  PROVE  /\ OrElse(d.base, 0) \in Nat /\ OrElse(d.multiplier, 2) \in Nat
         /\ DeclaredWaits(d) \in [Nat -> Nat]
         /\ DeclaredWaits(d)[0] = OrElse(d.base, 0)
         /\ \A n \in Nat : DeclaredWaits(d)[n + 1] = LongerWait(d, DeclaredWaits(d)[n])
<1> DEFINE base == OrElse(d.base, 0)
           f == [x \in Nat |-> LongerWait(d, x)]
           w == DeclaredWaits(d)
<1>1. base \in Nat /\ OrElse(d.multiplier, 2) \in Nat
  BY DEF Declaration, Number, OrElse, Undefined
<1>2. \A x \in Nat : LongerWait(d, x) \in Nat
  BY <1>1, Arithmetic DEF LongerWait
<1>3. PICK g \in [Nat -> Nat] : g[0] = base /\ \A n \in Nat : g[n + 1] = f[g[n]]
  <2>1. f \in [Nat -> Nat]
    BY <1>2
  <2> HIDE DEF f, base
  <2> QED
    BY <1>1, <2>1, Recursion
<1>4. \A n \in Nat : g[n + 1] = LongerWait(d, g[n])
  BY <1>3
<1>5. g = [n \in Nat |-> IF n = 0 THEN base ELSE LongerWait(d, g[n - 1])]
  <2>1. ASSUME NEW n \in Nat, n # 0 PROVE g[n] = LongerWait(d, g[n - 1])
    <3>1. n - 1 \in Nat /\ (n - 1) + 1 = n
      BY <2>1
    <3> QED
      BY <1>4, <3>1
  <2> QED
    BY <1>3, <2>1
<1>6. w = [n \in Nat |-> IF n = 0 THEN base ELSE LongerWait(d, w[n - 1])]
  BY <1>5 DEF DeclaredWaits
<1> HIDE DEF w
<1>7. w[0] = base
  BY <1>6
<1>8. ASSUME NEW n \in Nat PROVE w[n + 1] = LongerWait(d, w[n])
  <2>1. n + 1 \in Nat /\ n + 1 # 0 /\ (n + 1) - 1 = n
    OBVIOUS
  <2> QED
    BY <1>6, <2>1
<1>9. Nat \subseteq {n \in Nat : w[n] \in Nat}
  <2> DEFINE S == {n \in Nat : w[n] \in Nat}
  <2>1. 0 \in S
    BY <1>1, <1>7
  <2>2. \A n \in Nat : n \in S => n + 1 \in S
    BY <1>2, <1>8
  <2> HIDE DEF S
  <2>3. Nat \subseteq S
    BY <2>1, <2>2, Induction
  <2> QED
    BY <2>3 DEF S
<1> QED
  BY <1>1, <1>6, <1>7, <1>8, <1>9 DEF w

(* Storing a declared policy and reading it back keeps its numbers.        *)
LEMMA StoredDeclaration ==
  ASSUME NEW d \in Declaration, IsDeclarable(d)
  PROVE  /\ Stored(d) \in Policy /\ Stored(d) # NoPolicy
         /\ Stored(d).mode = d.mode /\ Stored(d).base = OrElse(d.base, 0)
         /\ d.mode = "exponential" => /\ GrowthFactor(Stored(d)) = OrElse(d.multiplier, 2)
                                      /\ OrElse(d.multiplier, 2) >= 1
         /\ d.cap # Undefined => Stored(d).cap = d.cap
<1>1. Stored(d) \in Policy
  BY DEF Stored, NullIfFalsy, Declaration, Number, Undefined, Policy
<1> QED
  BY <1>1, NoPolicyIsNoRecord DEF Stored, NullIfFalsy, Declaration, Number, Undefined, IsDeclarable,
    GrowthFactor, OrElse

(* The closed formula is what the steps come to.                           *)
LEMMA FormulaIsDeclared ==
  ASSUME NEW d \in Declaration, IsDeclarable(d), d.mode # "unset"
  PROVE  \A n \in Nat : UncappedDuration(Stored(d), n + 1) = DeclaredWaits(d)[n]
<1> DEFINE base == OrElse(d.base, 0)
           m == OrElse(d.multiplier, 2)
           w == DeclaredWaits(d)
           p == Powers(m)
           u(n) == UncappedDuration(Stored(d), n + 1)
           S == {n \in Nat : u(n) = w[n]}
<1>1. /\ Stored(d).mode = d.mode /\ Stored(d).base = base
      /\ d.mode = "exponential" => GrowthFactor(Stored(d)) = m /\ m >= 1
      /\ base \in Nat /\ m \in Nat
  BY StoredDeclaration DEF Declaration, Number, OrElse, Undefined
<1>2. /\ w \in [Nat -> Nat] /\ w[0] = base
      /\ \A n \in Nat : w[n + 1] = CASE d.mode = "exponential" -> m * w[n]
                                      [] d.mode = "linear"      -> base + w[n]
                                      [] OTHER                  -> w[n]
  BY <1>1, WaitsUnfold DEF LongerWait
<1>3. p \in [Nat -> Nat] /\ p[0] = 1 /\ \A n \in Nat : p[n + 1] = m * p[n]
  BY <1>1, PowersUnfold
<1>4. \A n \in Nat : (n + 1) - 1 = n
  OBVIOUS
<1>5. \A n \in Nat : u(n) = CASE d.mode = "exponential" -> base * p[n]
                               [] d.mode = "linear"      -> base * (n + 1)
                               [] OTHER                  -> base
  BY <1>1, <1>4 DEF UncappedDuration
<1> HIDE DEF base, m, w, p, u
<1>6. 0 \in S
  <2>1. u(0) = CASE d.mode = "exponential" -> base * 1
                 [] d.mode = "linear"      -> base * 1
                 [] OTHER                  -> base
    BY <1>3, <1>5
  <2>2. base * 1 = base
    BY <1>1
  <2>3. u(0) = base
    BY <2>1, <2>2
  <2> QED
    BY <1>2, <2>3
<1>7. ASSUME NEW n \in Nat, u(n) = w[n]
      PROVE  u(n + 1) = w[n + 1]
  <2>1. CASE d.mode = "exponential"
    <3>1. u(n + 1) = base * (m * p[n]) /\ u(n) = base * p[n] /\ p[n] \in Nat
      BY <1>3, <1>5, <2>1
    <3>2. w[n + 1] = m * w[n]
      BY <1>2, <2>1
    <3>3. base * (m * p[n]) = m * (base * p[n])
      BY <1>1, <3>1, Arithmetic
    <3> QED
      BY <1>7, <3>1, <3>2, <3>3
  <2>2. CASE d.mode = "linear"
    <3>1. u(n + 1) = base * ((n + 1) + 1) /\ u(n) = base * (n + 1)
      BY <1>5, <2>2
    <3>2. w[n + 1] = base + w[n]
      BY <1>2, <2>2
    <3>3. base * ((n + 1) + 1) = base + base * (n + 1)
      BY <1>1, Arithmetic
    <3> QED
      BY <1>7, <3>1, <3>2, <3>3
  <2>3. CASE d.mode \notin {"exponential", "linear"}
    BY <1>2, <1>5, <1>7, <2>3
  <2> QED
    BY <2>1, <2>2, <2>3
<1>8. Nat \subseteq S
  <2>1. \A n \in Nat : n \in S => n + 1 \in S
    BY <1>7
  <2> HIDE DEF S
  <2> QED
    BY <1>6, <2>1, Induction
<1> QED
  BY <1>8 DEF u, w

LEMMA BackoffIsDeclared ==
  ASSUME NEW d \in Declaration, IsDeclarable(d), d.mode # "unset", d.cap # Undefined,
         NEW n \in Nat \ {0}
  PROVE  CalculateCooldownDuration(Stored(d), n) = DeclaredBackoff(d, n)
<1>1. n - 1 \in Nat /\ (n - 1) + 1 = n
  OBVIOUS
<1>2. UncappedDuration(Stored(d), n) = DeclaredWaits(d)[n - 1]
  BY <1>1, FormulaIsDeclared
<1> QED
  BY <1>2, StoredDeclaration DEF CalculateCooldownDuration, Capped, DeclaredBackoff

(* However often an objective has failed, a declared policy with a cap     *)
(* backs off as declared (failure-policy-schema.js:164): for every policy  *)
(* and every count of failures, by induction on the count.                 *)
THEOREM BacksOffAsDeclared == Spec => []BackoffAsDeclared
<1>1. WrongAfter = {}
  BY BackoffIsDeclared, DeclarationsAssumption, BoundsAssumption DEF WrongAfter
<1>2. BackoffAsDeclared
  BY <1>1 DEF BackoffAsDeclared
<1> QED
  BY <1>2, PTL

(* A stored policy with a cooldown mode yields a duration.                 *)
LEMMA Durations ==
  ASSUME NEW p \in Policy, p.mode # "unset", NEW n \in Nat \ {0}
  PROVE  CalculateCooldownDuration(p, n) \in Nat
<1>1. GrowthFactor(p) \in Nat /\ p.base \in Nat /\ p.cap \in Nat /\ n - 1 \in Nat
  BY DEF GrowthFactor, Policy
<1>2. Powers(GrowthFactor(p))[n - 1] \in Nat
  BY <1>1, PowersUnfold
<1>3. UncappedDuration(p, n) \in Nat
  BY <1>1, <1>2, Arithmetic DEF UncappedDuration
<1> QED
  BY <1>1, <1>3, NoPolicyIsNoRecord DEF CalculateCooldownDuration, Capped

(* calculateCooldownDuration yields a duration unless the policy has no    *)
(* cooldown mode, in which case it yields NaN.                             *)
LEMMA CooldownTyped ==
  ASSUME NEW p \in InstancePolicies, NEW n \in 1..MaxGeneration,
         CalculateCooldownDuration(p, n) # NotANumber
  PROVE  CalculateCooldownDuration(p, n) \in Nat
<1>1. CASE p = NoPolicy
  BY <1>1 DEF CalculateCooldownDuration
<1>2. CASE p # NoPolicy
  <2>1. p \in Policy /\ p.mode # "unset"
    BY <1>2, InstancePoliciesTyped DEF AnyPolicy, CalculateCooldownDuration
  <2> QED
    BY <2>1, Durations, BoundsAssumption
<1> QED
  BY <1>1, <1>2

(* The default policy always has a backoff.                                *)
LEMMA DefaultCooldownTyped ==
  ASSUME NEW n \in 1..MaxGeneration
  PROVE  CalculateCooldownDuration(DefaultPolicy, n) \in Nat
BY Durations, DefaultHasCooldown, PoliciesAssumption, BoundsAssumption

-----------------------------------------------------------------------------
(* Handlers keep rows sound                                                *)

(* The numbers of a row.                                                   *)
LEMMA RowNumbers ==
  ASSUME NEW r \in Row
  PROVE  /\ r.generation \in Nat
         /\ r.consecutive \in Nat
         /\ r.total \in Nat
         /\ r.cooldown \in Nat
         /\ r.attempt \in Nat
         /\ r.deadline \in Nat
         /\ r.grace \in Nat
  BY DEF Row

(* The part of a row that IndInv speaks about.                             *)
SameCore(r, s) ==
  /\ s.status = r.status
  /\ s.generation = r.generation
  /\ s.attempt = r.attempt
  /\ s.consecutive = r.consecutive
  /\ s.total = r.total

(* Clearing the attempt's fields keeps a row sound.                        *)
LEMMA AttemptClearedSound ==
  ASSUME NEW r, RowOK(r)
  PROVE  /\ RowOK(AttemptCleared(r))
         /\ AttemptCleared(r).status = r.status
         /\ AttemptCleared(r).generation = r.generation
         /\ AttemptCleared(r).attempt = 0
<1> DEFINE c == AttemptCleared(r)
<1>1. r \in Row /\ SoundRow(r)
  BY DEF RowOK
<1>2. c \in Row
  BY <1>1 DEF AttemptCleared, Row
<1>3. /\ c.status = r.status /\ c.generation = r.generation /\ c.attempt = 0
      /\ c.consecutive = r.consecutive /\ c.total = r.total
  BY <1>1 DEF AttemptCleared, Row
<1> HIDE DEF c
<1>4. RowOK(c)
  BY <1>1, <1>2, <1>3, RowNumbers DEF RowOK, SoundRow
<1> QED BY <1>3, <1>4 DEF c

(* A row whose core is that of a sound row is sound.                       *)
LEMMA SameCoreSound ==
  ASSUME NEW r, RowOK(r), NEW s \in Row, SameCore(r, s)
  PROVE  RowOK(s)
  BY DEF RowOK, SoundRow, SameCore

(* Marking a row as completed or timed out touches nothing else.           *)
LEMMA MarkedSound ==
  ASSUME NEW r, RowOK(r), NEW m \in {ResultRecorded(r), ForceTerminated(r)}
  PROVE  RowOK(m) /\ SameCore(r, m)
<1>1. r \in Row
  BY DEF RowOK
<1>2. m \in Row
  BY <1>1 DEF Row, ResultRecorded, ForceTerminated, TerminalReasons
<1>3. SameCore(r, m)
  BY <1>1 DEF Row, ResultRecorded, ForceTerminated, SameCore
<1> QED BY <1>2, <1>3, SameCoreSound

(* Asking an attempt to cancel touches only its grace period.              *)
LEMMA CancelRequestedSound ==
  ASSUME NEW r, RowOK(r)
  PROVE  RowOK(CancelRequested(r)) /\ SameCore(r, CancelRequested(r))
<1>1. r \in Row
  BY DEF RowOK
<1>2. CancelRequested(r) \in Row
  BY <1>1, BoundsAssumption DEF Row, CancelRequested
<1>3. SameCore(r, CancelRequested(r))
  BY <1>1 DEF Row, CancelRequested, SameCore
<1> QED BY <1>2, <1>3, SameCoreSound

(* Time passing touches only the time left.                                *)
LEMMA AgedSound ==
  ASSUME NEW r, RowOK(r)
  PROVE  RowOK(Aged(r)) /\ SameCore(r, Aged(r))
<1>1. r \in Row
  BY DEF RowOK
<1>2. \A n \in Nat : OneLess(n) \in Nat
  BY DEF OneLess
<1>3. /\ OneLess(r.cooldown) \in Nat
      /\ OneLess(r.deadline) \in Nat
      /\ OneLess(r.grace) \in Nat
  BY <1>1, <1>2, RowNumbers
<1>4. Aged(r) \in Row
  BY <1>1, <1>3 DEF Row, Aged
<1>5. SameCore(r, Aged(r))
  BY <1>1 DEF Row, Aged, SameCore
<1> QED BY <1>4, <1>5, SameCoreSound

(* Recoveries and resets lead to idle and lower the consecutive count, if  *)
(* anything.                                                               *)
LEMMA IdledSound ==
  ASSUME NEW r, RowOK(r), NEW i \in Row,
         i.status = "idle",
         i.generation = r.generation, i.attempt = r.attempt, i.total = r.total,
         i.consecutive \in {0, r.consecutive}
  PROVE  RowOK(i)
  BY RowNumbers DEF RowOK, SoundRow

(* A verified recovery keeps a row sound.                                  *)
LEMMA VerifiedRecoverySound ==
  ASSUME NEW r, RowOK(r), NEW p
  PROVE  /\ RowOK(VerifiedRecovery(r, p))
         /\ VerifiedRecovery(r, p).status = "idle"
         /\ VerifiedRecovery(r, p).generation = r.generation
         /\ VerifiedRecovery(r, p).attempt = r.attempt
<1> DEFINE i == VerifiedRecovery(r, p)
           n == IF ShouldResetOnRecovery(p) THEN 0 ELSE r.consecutive
<1>1. r \in Row
  BY DEF RowOK
<1>2. n \in Nat /\ n \in {0, r.consecutive}
  BY <1>1, RowNumbers
<1>3. i = [r EXCEPT !.status = "idle", !.cooldown = 0, !.consecutive = n]
  BY <1>1 DEF VerifiedRecovery, Row
<1> HIDE DEF n, i
<1>4. i \in Row
  BY <1>1, <1>2, <1>3 DEF Row, Statuses
<1>5. /\ i.status = "idle" /\ i.generation = r.generation /\ i.attempt = r.attempt
      /\ i.total = r.total /\ i.consecutive = n
  BY <1>1, <1>3 DEF Row
<1>6. RowOK(i)
  BY <1>2, <1>4, <1>5, IdledSound
<1> QED BY <1>5, <1>6 DEF i

(* A manual reset keeps a row sound.                                       *)
LEMMA ManuallyResetSound ==
  ASSUME NEW r, RowOK(r), NEW p
  PROVE  /\ RowOK(ManuallyReset(r, p))
         /\ ManuallyReset(r, p).status = "idle"
         /\ ManuallyReset(r, p).generation = r.generation
         /\ ManuallyReset(r, p).attempt = r.attempt
<1> DEFINE i == ManuallyReset(r, p)
           n == IF ShouldResetOnManualReset(p) THEN 0 ELSE r.consecutive
<1>1. r \in Row
  BY DEF RowOK
<1>2. n \in Nat /\ n \in {0, r.consecutive}
  BY <1>1, RowNumbers
<1>3. i = [r EXCEPT !.status = "idle", !.cooldown = 0, !.consecutive = n]
  BY <1>1 DEF ManuallyReset, Row
<1> HIDE DEF n, i
<1>4. i \in Row
  BY <1>1, <1>2, <1>3 DEF Row, Statuses
<1>5. /\ i.status = "idle" /\ i.generation = r.generation /\ i.attempt = r.attempt
      /\ i.total = r.total /\ i.consecutive = n
  BY <1>1, <1>3 DEF Row
<1>6. RowOK(i)
  BY <1>2, <1>4, <1>5, IdledSound
<1> QED BY <1>5, <1>6 DEF i

(* A passive recovery keeps a row sound.                                   *)
LEMMA PassivelyRecoveredSound ==
  ASSUME NEW r, RowOK(r)
  PROVE  /\ RowOK(PassivelyRecovered(r))
         /\ PassivelyRecovered(r).status = "idle"
         /\ PassivelyRecovered(r).generation = r.generation
         /\ PassivelyRecovered(r).attempt = r.attempt
<1> DEFINE i == PassivelyRecovered(r)
<1>1. r \in Row
  BY DEF RowOK
<1>2. i \in Row
  BY <1>1 DEF Row, Statuses, PassivelyRecovered
<1>3. /\ i.status = "idle" /\ i.generation = r.generation /\ i.attempt = r.attempt
      /\ i.total = r.total /\ i.consecutive = r.consecutive
  BY <1>1 DEF Row, PassivelyRecovered
<1> HIDE DEF i
<1>4. RowOK(i)
  BY <1>2, <1>3, IdledSound
<1> QED BY <1>3, <1>4 DEF i

(* Entering reconciling opens a generation that no earlier failure used.   *)
LEMMA AdmittedSound ==
  ASSUME NEW r, RowOK(r), r.generation < MaxGeneration
  PROVE  /\ RowOK(Admitted(r))
         /\ Admitted(r).status = "reconciling"
         /\ Admitted(r).generation = r.generation + 1
         /\ Admitted(r).attempt = r.attempt
<1> DEFINE a == Admitted(r)
           g == r.generation + 1
<1>1. r \in Row /\ SoundRow(r)
  BY DEF RowOK
<1>2. g \in Nat
  BY <1>1, RowNumbers
<1>3. a = [r EXCEPT !.status = "reconciling", !.generation = g, !.cooldown = 0]
  BY <1>1 DEF Admitted, Row
<1> HIDE DEF a, g
<1>4. a \in Row
  BY <1>1, <1>2, <1>3 DEF Row, Statuses
<1>5. /\ a.status = "reconciling" /\ a.generation = g /\ a.attempt = r.attempt
      /\ a.total = r.total /\ a.consecutive = r.consecutive
  BY <1>1, <1>3 DEF Row
<1>6. RowOK(a)
  BY <1>1, <1>4, <1>5, RowNumbers, BoundsAssumption DEF RowOK, SoundRow, g
<1> QED BY <1>5, <1>6 DEF a, g

(* A lease belongs to the current generation.                              *)
LEMMA LeaseStartedSound ==
  ASSUME NEW r, RowOK(r)
  PROVE  /\ RowOK(LeaseStarted(r))
         /\ LeaseStarted(r).status = r.status
         /\ LeaseStarted(r).generation = r.generation
         /\ LeaseStarted(r).attempt = r.generation
         /\ LeaseStarted(r).consecutive = r.consecutive
         /\ LeaseStarted(r).total = r.total
<1> DEFINE l == LeaseStarted(r)
<1>1. r \in Row /\ SoundRow(r) /\ r.generation \in Nat
  BY RowNumbers DEF RowOK
<1>2. l \in Row
  BY <1>1, BoundsAssumption DEF Row, LeaseStarted
<1>3. /\ l.status = r.status /\ l.generation = r.generation /\ l.attempt = r.generation
      /\ l.total = r.total /\ l.consecutive = r.consecutive
  BY <1>1 DEF Row, LeaseStarted
<1> HIDE DEF l
<1>4. RowOK(l)
  BY <1>1, <1>2, <1>3 DEF RowOK, SoundRow
<1> QED BY <1>3, <1>4 DEF l

(* Giving up on a missing plan degrades without counting.                  *)
LEMMA PlanNotFoundSound ==
  ASSUME NEW r, RowOK(r)
  PROVE  /\ RowOK(PlanNotFound(r))
         /\ PlanNotFound(r).status = "degraded"
         /\ PlanNotFound(r).generation = r.generation
         /\ PlanNotFound(r).attempt = r.attempt
<1> DEFINE d == PlanNotFound(r)
<1>1. r \in Row /\ SoundRow(r)
  BY DEF RowOK
<1>2. d \in Row
  BY <1>1 DEF Row, Statuses, PlanNotFound
<1>3. /\ d.status = "degraded" /\ d.generation = r.generation /\ d.attempt = r.attempt
      /\ d.total = r.total /\ d.consecutive = r.consecutive
  BY <1>1 DEF Row, PlanNotFound
<1> HIDE DEF d
<1>4. RowOK(d)
  BY <1>1, <1>2, <1>3 DEF RowOK, SoundRow
<1> QED BY <1>3, <1>4 DEF d

(* Accounting a failure, computed from counters equal to the row's, keeps  *)
(* a reconciling row sound and ends its reconciling.                       *)
LEMMA FailureAccountedSound ==
  ASSUME NEW r, RowOK(r), r.status = "reconciling",
         NEW p \in InstancePolicies, NEW s,
         s.consecutive = r.consecutive, s.total = r.total,
         ~AccountingThrows(p, s)
  PROVE  LET a == FailureAccounted(r, p, s) IN
         /\ RowOK(a)
         /\ a.status \in {"cooldown", "degraded"}
         /\ a.generation = r.generation
         /\ a.attempt = r.attempt
<1> DEFINE n == r.consecutive + 1
           t == r.total + 1
           counted == [r EXCEPT !.consecutive = n, !.total = t]
           a == FailureAccounted(r, p, s)
<1>1. r \in Row /\ SoundRow(r)
  BY DEF RowOK
<1>2. n \in 1..MaxGeneration /\ n \in Nat /\ t \in Nat /\ n <= t /\ t <= r.generation
  BY <1>1, RowNumbers, BoundsAssumption DEF SoundRow
<1>3. a \in Row /\ a.status \in {"cooldown", "degraded"}
      /\ a.generation = r.generation /\ a.attempt = r.attempt
      /\ a.consecutive = n /\ a.total = t
  <2>1. CASE ShouldEnterDegraded(p, n)
    <3>1. a = [[r EXCEPT !.consecutive = n, !.total = t] EXCEPT !.status = "degraded"]
      BY <2>1 DEF FailureAccounted
    <3> HIDE DEF a, n, t
    <3>2. a \in Row
      BY <1>1, <1>2, <3>1 DEF Row, Statuses
    <3> QED BY <1>1, <3>1, <3>2 DEF Row
  <2>2. CASE ~ShouldEnterDegraded(p, n)
    <3> DEFINE c == CalculateCooldownDuration(p, n)
    <3>1. a = [[r EXCEPT !.consecutive = n, !.total = t]
                 EXCEPT !.status = "cooldown", !.cooldown = c]
      BY <2>2 DEF FailureAccounted
    <3>2. c # NotANumber
      BY <2>2 DEF AccountingThrows
    <3>3. c \in Nat
      BY <1>2, <3>2, CooldownTyped
    <3> HIDE DEF a, n, t, c
    <3>4. a \in Row
      BY <1>1, <1>2, <3>1, <3>3 DEF Row, Statuses
    <3> QED BY <1>1, <3>1, <3>4 DEF Row
  <2> QED BY <2>1, <2>2
<1> HIDE DEF a, n, t
<1>4. RowOK(a)
  BY <1>1, <1>2, <1>3, RowNumbers DEF RowOK, SoundRow
<1> QED BY <1>3, <1>4 DEF a

(* Whatever a result that is not stale does to a sound row, all of it or   *)
(* its first updates only, the row stays sound, keeps its generation, and  *)
(* has either ended its attempt or kept its core.                          *)
Settled(r, s) ==
  /\ RowOK(s)
  /\ s.generation = r.generation
  /\ \/ SameCore(r, s)
     \/ r.status = "reconciling" /\ s.status # "reconciling" /\ s.attempt = 0

(* The same for a crash, which may leave the attempt's id behind.          *)
HalfSettled(r, s) == RowOK(s) /\ s.generation = r.generation

(* A failed attempt settles its row, or leaves it to the watchdog when the *)
(* accounting throws.                                                      *)
LEMMA AttemptFailedSettles ==
  ASSUME NEW r, RowOK(r), r.status = "reconciling",
         NEW p \in InstancePolicies, NEW s,
         s.consecutive = r.consecutive, s.total = r.total
  PROVE  Settled(r, AttemptFailed(r, p, s)) /\ HalfSettled(r, FailureWritten(r, p, s))
<1>1. CASE AccountingThrows(p, s)
  BY <1>1 DEF AttemptFailed, FailureWritten, Settled, HalfSettled, SameCore
<1>2. CASE ~AccountingThrows(p, s)
  <2> DEFINE a == FailureAccounted(r, p, s)
  <2>1. RowOK(a) /\ a.status \in {"cooldown", "degraded"} /\ a.generation = r.generation
    BY <1>2, FailureAccountedSound
  <2>2. AttemptFailed(r, p, s) = AttemptCleared(a) /\ FailureWritten(r, p, s) = a
    BY <1>2 DEF AttemptFailed, FailureWritten
  <2> HIDE DEF a
  <2>3. /\ RowOK(AttemptCleared(a))
        /\ AttemptCleared(a).status = a.status
        /\ AttemptCleared(a).generation = a.generation
        /\ AttemptCleared(a).attempt = 0
    BY <2>1, AttemptClearedSound
  <2> QED BY <2>1, <2>2, <2>3 DEF Settled, HalfSettled
<1> QED BY <1>1, <1>2

(* A forced termination settles a reconciling row.                         *)
LEMMA TimedOutSettles ==
  ASSUME NEW r, RowOK(r), r.status = "reconciling"
  PROVE  /\ Settled(r, TimedOut(r))
         /\ \A h \in PartlyTimedOut(r) : HalfSettled(r, h)
<1> DEFINE m == ForceTerminated(r)
           a == FailureAccounted(m, DefaultPolicy, r)
<1>1. RowOK(m) /\ SameCore(r, m)
  BY MarkedSound
<1>2. DefaultPolicy \in InstancePolicies
  BY DEF InstancePolicies
<1>3. ~AccountingThrows(DefaultPolicy, r)
  <2>1. r.consecutive + 1 \in 1..MaxGeneration
    BY RowNumbers, BoundsAssumption DEF RowOK, SoundRow
  <2>2. CalculateCooldownDuration(DefaultPolicy, r.consecutive + 1) \in Nat
    BY <2>1, DefaultCooldownTyped
  <2> QED BY <2>2 DEF AccountingThrows, NotANumber
<1> HIDE DEF m
<1>4. RowOK(a) /\ a.status \in {"cooldown", "degraded"} /\ a.generation = m.generation
  BY <1>1, <1>2, <1>3, FailureAccountedSound DEF SameCore
<1>5. TimedOut(r) = AttemptCleared(a) /\ PartlyTimedOut(r) = {m, a}
  BY DEF TimedOut, PartlyTimedOut, m
<1> HIDE DEF a
<1>6. /\ RowOK(AttemptCleared(a))
      /\ AttemptCleared(a).status = a.status
      /\ AttemptCleared(a).generation = a.generation
      /\ AttemptCleared(a).attempt = 0
  BY <1>4, AttemptClearedSound
<1> QED BY <1>1, <1>4, <1>5, <1>6 DEF Settled, HalfSettled, SameCore

-----------------------------------------------------------------------------
(* Actions keep the invariant                                              *)

(* How a row may change under executions in flight: its core stays, or it  *)
(* stops reconciling and no execution holds its lease any more, or it was  *)
(* not reconciling and becomes idle.                                       *)
Calm(r, s) ==
  /\ RowOK(s)
  /\ s.generation = r.generation
  /\ \/ SameCore(r, s)
     \/ r.status = "reconciling" /\ s.status # "reconciling" /\ s.attempt = 0
     \/ r.status # "reconciling" /\ s.status = "idle" /\ s.attempt = r.attempt

(* A settled row moved calmly.                                             *)
LEMMA SettledIsCalm ==
  ASSUME NEW r, NEW s, Settled(r, s)
  PROVE  Calm(r, s)
  BY DEF Settled, Calm

(* A row that did not change moved calmly.                                 *)
LEMMA SameIsCalm ==
  ASSUME NEW r, RowOK(r)
  PROVE  Calm(r, r)
  BY DEF Calm, SameCore

(* The parked evaluator is a typed, idle one.                              *)
LEMMA IdleLaneTyped == IdleLane \in Lane /\ IdleLane.pc = "idle"
  BY SomeObjective DEF IdleLane, Lane, Statuses

(* What the type of a lane says.                                           *)
LEMMA LaneFacts ==
  ASSUME IndInv, NEW e \in Evaluators
  PROVE  /\ lane \in [Evaluators -> Lane]
         /\ lane[e] \in Lane
         /\ lane[e].target \in Objectives
         /\ lane[e].generation \in Nat
         /\ SoundLane(lane[e])
         /\ obj[lane[e].target].generation \in Nat
  BY DEF IndInv, TypeOK, Lane, Row

(* Lanes that only move to idle stay apart.                                *)
LEMMA FewerAdmitted ==
  ASSUME IndInv, \A e \in Evaluators : lane'[e] \in {lane[e], IdleLane}
  PROVE  OneAdmittance'
  BY IdleLaneTyped DEF IndInv, OneAdmittance

(* The flags are Booleans whatever happens.                                *)
FlagsOK == safeMode \in BOOLEAN /\ gateSafeMode \in BOOLEAN /\ running \in BOOLEAN

(* An action that moves rows calmly, starts no execution and moves lanes   *)
(* only to idle keeps the invariant.                                       *)
LEMMA CalmStep ==
  ASSUME IndInv,
         obj' = [o \in Objectives |-> obj'[o]],
         \A o \in Objectives : Calm(obj[o], obj'[o]),
         flights' \subseteq flights,
         lane' = [e \in Evaluators |-> lane'[e]],
         \A e \in Evaluators : lane'[e] \in {lane[e], IdleLane},
         FlagsOK'
  PROVE  IndInv'
<1>1. \A o \in Objectives : obj'[o] \in Row /\ SoundRow(obj'[o])
  BY DEF Calm, RowOK
<1>2. TypeOK'
  <2>1. obj' \in [Objectives -> Row]
    BY <1>1
  <2>2. lane' \in [Evaluators -> Lane]
    BY IdleLaneTyped DEF IndInv, TypeOK
  <2> QED BY <2>1, <2>2 DEF IndInv, TypeOK, FlagsOK
<1>3. \A f \in flights' : SoundFlight(f)'
  <2> SUFFICES ASSUME NEW f \in flights' PROVE SoundFlight(f)'
    OBVIOUS
  <2> DEFINE o == f.objective
  <2>1. f \in flights /\ f \in Flight /\ o \in Objectives /\ f.generation \in Nat
    BY DEF IndInv, TypeOK, Flight
  <2>2. Calm(obj[o], obj'[o]) /\ SoundFlight(f)
    BY <2>1 DEF IndInv
  <2>3. CASE SameCore(obj[o], obj'[o])
    BY <2>2, <2>3 DEF SoundFlight, HoldsLease, SameCore
  <2>4. CASE obj'[o].attempt = 0
    BY <2>1, <2>2, <2>4 DEF SoundFlight, HoldsLease, Calm
  <2>5. CASE obj[o].status # "reconciling" /\ obj'[o].attempt = obj[o].attempt
    BY <2>2, <2>5 DEF SoundFlight, HoldsLease, Calm
  <2> QED BY <2>2, <2>3, <2>4, <2>5 DEF Calm
<1>4. \A e \in Evaluators : SoundLane(lane[e])'
  <2> SUFFICES ASSUME NEW e \in Evaluators PROVE SoundLane(lane[e])'
    OBVIOUS
  <2>1. CASE lane'[e] = IdleLane
    BY <2>1, IdleLaneTyped DEF SoundLane
  <2>2. CASE lane'[e] = lane[e]
    <3>1. SoundLane(lane[e]) /\ lane[e].target \in Objectives
      BY LaneFacts
    <3>2. Calm(obj[lane[e].target], obj'[lane[e].target])
      BY <3>1
    <3> QED BY <2>2, <3>1, <3>2 DEF SoundLane, Calm, SameCore
  <2> QED BY <2>1, <2>2
<1> QED BY <1>1, <1>2, <1>3, <1>4, FewerAdmitted DEF IndInv

(* A crash leaves sound rows and nothing else that the invariant is about. *)
LEMMA CrashStepSafe ==
  ASSUME IndInv, Lost,
         obj' = [o \in Objectives |-> obj'[o]],
         \A o \in Objectives : RowOK(obj'[o])
  PROVE  IndInv'
<1>1. lane' = [e \in Evaluators |-> IdleLane] /\ flights' = {}
  BY DEF Lost
<1>2. \A o \in Objectives : obj'[o] \in Row /\ SoundRow(obj'[o])
  BY DEF RowOK
<1>3. obj' \in [Objectives -> Row]
  BY <1>2
<1>4. lane' \in [Evaluators -> Lane]
  BY <1>1, IdleLaneTyped
<1>5. TypeOK'
  BY <1>1, <1>3, <1>4 DEF TypeOK, IndInv, Lost
<1>6. \A e \in Evaluators : SoundLane(lane[e])'
  BY <1>1, IdleLaneTyped DEF SoundLane
<1>7. OneAdmittance'
  BY <1>1, FewerAdmitted
<1> QED BY <1>1, <1>2, <1>5, <1>6, <1>7 DEF IndInv

(* A created objective, no execution and idle evaluators are sound.        *)
LEMMA InitSafe == Init => IndInv
<1> SUFFICES ASSUME Init PROVE IndInv
  OBVIOUS
<1>1. CreatedRow \in Row
  BY DEF CreatedRow, Row, Statuses, TerminalReasons
<1>2. SoundRow(CreatedRow)
  BY BoundsAssumption DEF CreatedRow, SoundRow
<1>3. TypeOK
  BY <1>1, IdleLaneTyped DEF Init, TypeOK
<1>4. \A e \in Evaluators : SoundLane(lane[e])
  BY IdleLaneTyped DEF Init, SoundLane
<1>5. OneAdmittance
  BY IdleLaneTyped DEF Init, OneAdmittance
<1> QED BY <1>2, <1>3, <1>4, <1>5 DEF Init, IndInv

(* The pieces of the invariant about one objective or execution.           *)
LEMMA RowsOK ==
  ASSUME IndInv, NEW o \in Objectives
  PROVE  RowOK(obj[o])
  BY DEF IndInv, TypeOK, RowOK

(* Where an execution in flight points to.                                 *)
LEMMA FlightFacts ==
  ASSUME IndInv, NEW f \in flights
  PROVE  /\ f.objective \in Objectives
         /\ f.generation \in Nat
         /\ SoundFlight(f)
         /\ RowOK(obj[f.objective])
         /\ PolicyOf[f.objective] \in InstancePolicies
<1>1. f.objective \in Objectives /\ f.generation \in Nat
  BY DEF IndInv, TypeOK, Flight
<1>2. PolicyOf[f.objective] \in InstancePolicies
  BY <1>1 DEF InstancePolicies
<1> QED BY <1>1, <1>2, RowsOK DEF IndInv

(* An action that calmly moves one row, or none, and leaves the rest.      *)
LEMMA CalmRow ==
  ASSUME IndInv, NEW o \in Objectives, NEW s, Calm(obj[o], s),
         obj' = [obj EXCEPT ![o] = s],
         flights' \subseteq flights,
         lane' = lane \/ \E e \in Evaluators : EvaluationDone(e),
         FlagsOK'
  PROVE  IndInv'
<1>1. obj \in [Objectives -> Row] /\ lane \in [Evaluators -> Lane]
  BY DEF IndInv, TypeOK
<1>2. obj' = [p \in Objectives |-> obj'[p]]
  BY <1>1
<1>3. \A p \in Objectives : Calm(obj[p], obj'[p])
  BY <1>1, RowsOK, SameIsCalm
<1>4. lane' = [e \in Evaluators |-> lane'[e]]
  BY <1>1 DEF EvaluationDone
<1>5. \A e \in Evaluators : lane'[e] \in {lane[e], IdleLane}
  BY <1>1 DEF EvaluationDone
<1> QED BY <1>2, <1>3, <1>4, <1>5, CalmStep

(* ... and the same when no row moves at all.                              *)
LEMMA CalmRest ==
  ASSUME IndInv, obj' = obj,
         flights' \subseteq flights,
         lane' = lane \/ \E e \in Evaluators : EvaluationDone(e),
         FlagsOK'
  PROVE  IndInv'
<1>1. obj \in [Objectives -> Row] /\ lane \in [Evaluators -> Lane]
  BY DEF IndInv, TypeOK
<1>2. obj' = [p \in Objectives |-> obj'[p]]
  BY <1>1
<1>3. \A p \in Objectives : Calm(obj[p], obj'[p])
  BY RowsOK, SameIsCalm
<1>4. lane' = [e \in Evaluators |-> lane'[e]]
  BY <1>1 DEF EvaluationDone
<1>5. \A e \in Evaluators : lane'[e] \in {lane[e], IdleLane}
  BY <1>1 DEF EvaluationDone
<1> QED BY <1>2, <1>3, <1>4, <1>5, CalmStep

(* Reading an objective that is not reconciling starts an observation.     *)
LEMMA EvaluatorReadSafe ==
  ASSUME IndInv, NEW e \in Evaluators, NEW o \in Objectives, EvaluatorRead(e, o)
  PROVE  IndInv'
<1> DEFINE l == [pc |-> "observing", target |-> o, seen |-> obj[o].status, generation |-> 0]
<1>1. lane \in [Evaluators -> Lane] /\ obj[o] \in Row
  BY DEF IndInv, TypeOK
<1>2. l \in Lane
  BY <1>1 DEF Lane, Row
<1>3. lane' = [lane EXCEPT ![e] = l]
  BY DEF EvaluatorRead
<1>4. UNCHANGED <<obj, flights, safeMode, gateSafeMode, running>>
  BY DEF EvaluatorRead
<1>5. SoundLane(l) /\ l.pc = "observing"
  BY DEF EvaluatorRead, SoundLane
<1> HIDE DEF l
<1>6. lane' \in [Evaluators -> Lane]
  BY <1>1, <1>2, <1>3
<1>7. TypeOK'
  BY <1>4, <1>6 DEF IndInv, TypeOK
<1>8. \A d \in Evaluators : SoundLane(lane'[d])
  BY <1>1, <1>3, <1>5 DEF IndInv
<1>9. \A d \in Evaluators : SoundLane(lane[d])'
  BY <1>4, <1>8 DEF SoundLane
<1>10. \A f \in flights' : SoundFlight(f)'
  BY <1>4 DEF IndInv, SoundFlight, HoldsLease
<1>11. OneAdmittance'
  BY <1>1, <1>3, <1>5 DEF IndInv, OneAdmittance
<1> QED BY <1>4, <1>7, <1>9, <1>10, <1>11 DEF IndInv

(* An admission opens a generation for which nothing is in flight yet.     *)
LEMMA AdmitSafe ==
  ASSUME IndInv, Careful, NEW e \in Evaluators, lane[e].pc = "observing",
         AdmitAndTransition(e),
         UNCHANGED <<flights, safeMode, gateSafeMode, running>>
  PROVE  IndInv'
<1> DEFINE o == lane[e].target
           g == obj[o].generation + 1
<1>1. /\ lane \in [Evaluators -> Lane] /\ lane[e] \in Lane /\ o \in Objectives
      /\ obj \in [Objectives -> Row] /\ RowOK(obj[o]) /\ obj[o].generation \in Nat
  BY RowsOK DEF IndInv, TypeOK, Lane, Row
<1>2. /\ obj' = [obj EXCEPT ![o] = Admitted(obj[o])]
      /\ obj[o].generation < MaxGeneration
      /\ lane' = [lane EXCEPT ![e].pc = "admitted", ![e].generation = g]
  BY <1>1 DEF AdmitAndTransition
<1>3. /\ RowOK(Admitted(obj[o]))
      /\ Admitted(obj[o]).generation = g
  BY <1>1, <1>2, AdmittedSound
<1>4. TypeOK'
  <2>1. obj' \in [Objectives -> Row]
    BY <1>1, <1>2, <1>3 DEF RowOK
  <2>2. g \in Nat
    BY <1>1
  <2>3. lane' \in [Evaluators -> Lane]
    BY <1>1, <1>2, <2>2 DEF Lane
  <2> QED BY <2>1, <2>3 DEF IndInv, TypeOK
<1>5. \A p \in Objectives : SoundRow(obj[p])'
  BY <1>1, <1>2, <1>3 DEF IndInv, RowOK
<1>6. \A f \in flights : f.objective = o => f.generation < g
  BY <1>1, FlightFacts DEF SoundFlight
<1>7. \A f \in flights' : SoundFlight(f)'
  <2> SUFFICES ASSUME NEW f \in flights PROVE SoundFlight(f)'
    OBVIOUS
  <2>1. f.objective \in Objectives /\ f.generation \in Nat /\ SoundFlight(f)
    BY FlightFacts
  <2>2. CASE f.objective = o
    BY <1>1, <1>2, <1>3, <1>6, <2>1, <2>2 DEF SoundFlight, HoldsLease
  <2>3. CASE f.objective # o
    BY <1>1, <1>2, <2>1, <2>3 DEF SoundFlight, HoldsLease
  <2> QED BY <2>2, <2>3
<1>9. lane'[e].pc = "admitted" /\ lane'[e].target = o /\ lane'[e].generation = g
  BY <1>1, <1>2 DEF Lane
<1>8. \A d \in Evaluators : SoundLane(lane[d])'
  <2> SUFFICES ASSUME NEW d \in Evaluators PROVE SoundLane(lane[d])'
    OBVIOUS
  <2>1. CASE d = e
    BY <1>1, <1>2, <1>3, <1>6, <1>9, <2>1 DEF SoundLane
  <2>2. CASE d # e
    <3>1. lane'[d] = lane[d] /\ TRUE \notin Observations
      BY <1>1, <1>2, <2>2 DEF Careful
    <3> DEFINE k == lane[d]
    <3>2. /\ SoundLane(k) /\ k.target \in Objectives
          /\ k.generation \in Nat /\ obj[k.target].generation \in Nat
      BY LaneFacts
    <3> HIDE DEF k
    <3>3. k.pc = "admitted" => k.generation \in 1..obj[k.target].generation
      BY <3>2 DEF SoundLane
    <3>4. CASE k.target = o
      <4>1. obj'[k.target].generation = g
        BY <1>1, <1>2, <1>3, <3>4
      <4>2. k.pc = "admitted" => k.generation \in 1..g /\ k.generation # g
        BY <3>2, <3>3, <3>4
      <4> QED BY <3>1, <4>1, <4>2 DEF SoundLane, k
    <3>5. CASE k.target # o
      <4>1. obj'[k.target] = obj[k.target]
        BY <1>1, <1>2, <3>2, <3>5
      <4> QED BY <3>1, <3>2, <4>1 DEF SoundLane, k
    <3> QED BY <3>4, <3>5
  <2> QED BY <2>1, <2>2
<1>10. OneAdmittance'
  <2>1. \A d \in Evaluators : d # e => lane'[d] = lane[d]
    BY <1>1, <1>2
  <2>2. \A d \in Evaluators :
          lane[d].pc = "admitted" /\ lane[d].target = o => lane[d].generation # g
    <3> SUFFICES ASSUME NEW d \in Evaluators, lane[d].pc = "admitted", lane[d].target = o
                 PROVE  lane[d].generation # g
      OBVIOUS
    <3>1. SoundLane(lane[d]) /\ lane[d].generation \in Nat
      BY LaneFacts
    <3>2. lane[d].generation <= obj[o].generation
      BY <1>1, <3>1 DEF SoundLane
    <3> QED BY <1>1, <3>1, <3>2
  <2> QED BY <1>9, <2>1, <2>2 DEF IndInv, OneAdmittance
<1> QED BY <1>4, <1>5, <1>7, <1>8, <1>10 DEF IndInv

(* Every outcome of an observation keeps the invariant.                    *)
LEMMA EvaluatorResumeSafe ==
  ASSUME IndInv, Careful, NEW e \in Evaluators, EvaluatorResume(e)
  PROVE  IndInv'
<1> DEFINE o == lane[e].target
<1>1. /\ lane[e].pc = "observing" /\ o \in Objectives /\ RowOK(obj[o])
      /\ UNCHANGED <<flights, safeMode, gateSafeMode, running>>
      /\ FlagsOK'
  BY RowsOK, LaneFacts DEF EvaluatorResume, IndInv, TypeOK, FlagsOK
<1>2. CASE PassiveRecovery(e) /\ TRUE \in Observations
  <2>0. obj[o].status # "reconciling"
    BY <1>1, <1>2, LaneFacts DEF SoundLane
  <2>1. Calm(obj[o], PassivelyRecovered(obj[o]))
    BY <1>1, <2>0, PassivelyRecoveredSound DEF Calm
  <2>2. obj' = [obj EXCEPT ![o] = PassivelyRecovered(obj[o])] /\ EvaluationDone(e)
    BY <1>2 DEF PassiveRecovery
  <2> QED BY <1>1, <2>1, <2>2, CalmRow
<1>3. CASE Monitoring(e) \/ AdmissionDenied(e)
  BY <1>1, <1>3, CalmRest DEF Monitoring, AdmissionDenied
<1>4. CASE AdmitAndTransition(e)
  BY <1>1, <1>4, AdmitSafe
<1> QED BY <1>2, <1>3, <1>4 DEF EvaluatorResume

(* The trigger leases the attempt of the admitted generation, gives up, or *)
(* leaves the objective alone.                                             *)
LEMMA StartExecutionSafe ==
  ASSUME IndInv, Careful, NEW e \in Evaluators,
         NEW environment \in StartEnvironments, StartExecution(e, environment)
  PROVE  IndInv'
<1> DEFINE o == lane[e].target
           r == obj[o]
<1>1. /\ lane \in [Evaluators -> Lane] /\ lane[e].pc = "admitted" /\ o \in Objectives
      /\ obj \in [Objectives -> Row] /\ RowOK(r) /\ r \in Row /\ r.generation \in Nat
      /\ SoundLane(lane[e])
      /\ UNCHANGED <<safeMode, gateSafeMode, running>>
      /\ EvaluationDone(e)
      /\ FlagsOK'
  BY RowsOK DEF StartExecution, IndInv, TypeOK, Lane, Row, FlagsOK
<1>2. /\ lane' \in [Evaluators -> Lane]
      /\ lane'[e] = IdleLane
      /\ \A d \in Evaluators : d # e => lane'[d] = lane[d]
      /\ OneAdmittance'
  <2>1. lane' = [lane EXCEPT ![e] = IdleLane]
    BY <1>1 DEF EvaluationDone
  <2> QED BY <1>1, <2>1, IdleLaneTyped, FewerAdmitted
<1>9. SoundLane(lane[e])'
  BY <1>2, IdleLaneTyped DEF SoundLane
<1>3. MayExecute(e, environment) =>
        /\ r.status = "reconciling"
        /\ \A f \in flights : f.objective = o => f.generation < r.generation
  BY <1>1 DEF MayExecute, SoundLane
<1>4. CASE obj' = obj /\ flights' = flights
  BY <1>1, <1>4, CalmRest
<1>5. CASE /\ MayExecute(e, environment) /\ flights' = flights
           /\ obj' = [obj EXCEPT ![o] = PlanNotFound(r)]
  <2>1. RowOK(PlanNotFound(r)) /\ PlanNotFound(r).generation = r.generation
    BY <1>1, PlanNotFoundSound
  <2>2. \A f \in flights' : SoundFlight(f)'
    <3> SUFFICES ASSUME NEW f \in flights PROVE SoundFlight(f)'
      BY <1>5
    <3>1. f.objective \in Objectives /\ f.generation \in Nat /\ SoundFlight(f)
      BY FlightFacts
    <3>2. CASE f.objective = o
      BY <1>1, <1>3, <1>5, <2>1, <3>1, <3>2 DEF SoundFlight, HoldsLease
    <3>3. CASE f.objective # o
      BY <1>1, <1>5, <3>1, <3>3 DEF SoundFlight, HoldsLease
    <3> QED BY <3>2, <3>3
  <2>3. obj' \in [Objectives -> Row] /\ \A p \in Objectives : SoundRow(obj'[p])
    BY <1>1, <1>5, <2>1 DEF IndInv, RowOK
  <2>4. TypeOK'
    BY <1>2, <1>5, <2>3 DEF IndInv, TypeOK, StartExecution
  <2>5. \A d \in Evaluators : SoundLane(lane[d])'
    <3> SUFFICES ASSUME NEW d \in Evaluators, d # e PROVE SoundLane(lane[d])'
      BY <1>9
    <3>1. /\ lane'[d] = lane[d] /\ TRUE \notin Observations
          /\ lane[d].target \in Objectives /\ SoundLane(lane[d])
      BY <1>2, LaneFacts DEF Careful
    <3>2. obj'[lane[d].target].generation = obj[lane[d].target].generation
      BY <1>1, <1>5, <2>1, <3>1
    <3> QED BY <1>5, <3>1, <3>2 DEF SoundLane
  <2> QED BY <1>2, <2>2, <2>3, <2>4, <2>5 DEF IndInv
<1>6. CASE /\ MayExecute(e, environment)
           /\ obj' = [obj EXCEPT ![o] = LeaseStarted(r)]
           /\ flights' = flights \cup
                {[objective |-> o, generation |-> r.generation,
                  consecutive |-> r.consecutive, total |-> r.total]}
  <2> DEFINE new == [objective |-> o, generation |-> r.generation,
                     consecutive |-> r.consecutive, total |-> r.total]
             l == LeaseStarted(r)
  <2>1. /\ RowOK(l) /\ l.status = "reconciling" /\ l.generation = r.generation
        /\ l.attempt = r.generation /\ l.consecutive = r.consecutive /\ l.total = r.total
    BY <1>1, <1>3, <1>6, LeaseStartedSound
  <2>2. new \in Flight /\ 1 <= r.generation
    BY <1>1, <1>3, <1>6, RowNumbers DEF Flight, RowOK, SoundRow
  <2>3. obj'[o] = l
    BY <1>1, <1>6
  <2> HIDE DEF l
  <2>4. ASSUME NEW f, f = new PROVE SoundFlight(f)'
    BY <1>1, <2>1, <2>2, <2>3, <2>4 DEF SoundFlight, HoldsLease
  <2>5. \A f \in flights : SoundFlight(f)'
    <3> SUFFICES ASSUME NEW f \in flights PROVE SoundFlight(f)'
      OBVIOUS
    <3>1. f.objective \in Objectives /\ f.generation \in Nat /\ SoundFlight(f)
      BY FlightFacts
    <3>2. CASE f.objective = o
      BY <1>1, <1>3, <1>6, <2>1, <2>3, <3>1, <3>2 DEF SoundFlight, HoldsLease
    <3>3. CASE f.objective # o
      BY <1>1, <1>6, <3>1, <3>3 DEF SoundFlight, HoldsLease
    <3> QED BY <3>2, <3>3
  <2>6. obj' \in [Objectives -> Row] /\ \A p \in Objectives : SoundRow(obj'[p])
    BY <1>1, <1>6, <2>1 DEF IndInv, RowOK, l
  <2>7. TypeOK'
    <3>1. flights' \subseteq Flight
      BY <1>6, <2>2 DEF IndInv, TypeOK
    <3> QED BY <1>1, <1>2, <2>6, <3>1 DEF TypeOK, FlagsOK
  <2>8. \A f \in flights' : SoundFlight(f)'
    BY <1>6, <2>4, <2>5
  <2>9. \A d \in Evaluators : SoundLane(lane[d])'
    <3> SUFFICES ASSUME NEW d \in Evaluators, d # e PROVE SoundLane(lane[d])'
      BY <1>9
    <3>1. /\ lane'[d] = lane[d] /\ TRUE \notin Observations
          /\ lane[d].target \in Objectives /\ SoundLane(lane[d])
      BY <1>2, LaneFacts DEF Careful
    <3>2. obj'[lane[d].target].generation = obj[lane[d].target].generation
      BY <1>1, <1>6, <2>1, <3>1 DEF l
    <3>3. lane[d].pc = "admitted" /\ lane[d].target = o => lane[d].generation # r.generation
      BY <1>1, <1>6 DEF MayExecute, IndInv, OneAdmittance
    <3> DEFINE k == lane[d]
    <3>4. new.objective = o
      OBVIOUS
    <3> HIDE DEF k, new
    <3>5. k.pc = "admitted" /\ k.generation = obj'[k.target].generation =>
            \A f \in flights' : f.objective = k.target => f.generation < k.generation
      <4> SUFFICES ASSUME k.pc = "admitted", k.generation = obj'[k.target].generation,
                          NEW f \in flights', f.objective = k.target
                   PROVE  f.generation < k.generation
        OBVIOUS
      <4>1. k.generation = obj[k.target].generation
        BY <3>2 DEF k
      <4>2. k.target # o
        BY <3>3, <4>1 DEF k
      <4>3. f \in flights
        BY <1>6, <3>4, <4>2 DEF new
      <4> QED BY <3>1, <4>1, <4>3 DEF SoundLane, k
    <3>6. k.pc = "admitted" => k.generation \in 1..obj'[k.target].generation
      BY <3>1, <3>2 DEF SoundLane, k
    <3> QED BY <3>1, <3>5, <3>6 DEF SoundLane, k
  <2> QED BY <1>2, <2>6, <2>7, <2>8, <2>9 DEF IndInv
<1> QED BY <1>4, <1>5, <1>6 DEF StartExecution

(* A result that is not stale settles its objective.                       *)
LEMMA ResultSettles ==
  ASSUME IndInv, NEW f \in flights, HoldsLease(f), NEW result
  PROVE  /\ Settled(obj[f.objective], ResultApplied(f, result))
         /\ \A h \in PartlyApplied(f, result) : HalfSettled(obj[f.objective], h)
<1> DEFINE o == f.objective
           policy == PolicyOf[o]
           m == ResultRecorded(obj[o])
<1>1. /\ RowOK(obj[o]) /\ policy \in InstancePolicies
      /\ obj[o].status = "reconciling"
      /\ f.consecutive = obj[o].consecutive /\ f.total = obj[o].total
  BY FlightFacts DEF SoundFlight
<1>2. RowOK(m) /\ SameCore(obj[o], m)
  BY <1>1, MarkedSound
<1>3. HalfSettled(obj[o], m)
  BY <1>2 DEF HalfSettled, SameCore
<1>4. /\ ResultApplied(f, result) =
           IF Verified(result) THEN AttemptCleared(VerifiedRecovery(m, policy))
           ELSE AttemptFailed(m, policy, f)
      /\ PartlyApplied(f, result) =
           {m, IF Verified(result) THEN VerifiedRecovery(m, policy)
               ELSE FailureWritten(m, policy, f)}
  BY DEF ResultApplied, PartlyApplied, OutcomeWritten, AttemptFailed, FailureWritten
<1> HIDE DEF m, policy
<1>5. CASE Verified(result)
  <2> DEFINE v == VerifiedRecovery(m, policy)
  <2>1. RowOK(v) /\ v.status = "idle" /\ v.generation = m.generation
    BY <1>2, VerifiedRecoverySound
  <2> HIDE DEF v
  <2>2. /\ RowOK(AttemptCleared(v)) /\ AttemptCleared(v).status = "idle"
        /\ AttemptCleared(v).generation = m.generation /\ AttemptCleared(v).attempt = 0
    BY <2>1, AttemptClearedSound
  <2>3. ResultApplied(f, result) = AttemptCleared(v) /\ PartlyApplied(f, result) = {m, v}
    BY <1>4, <1>5 DEF v
  <2> QED BY <1>1, <1>2, <1>3, <2>1, <2>2, <2>3 DEF Settled, HalfSettled, SameCore
<1>6. CASE ~Verified(result)
  <2>1. Settled(m, AttemptFailed(m, policy, f)) /\ HalfSettled(m, FailureWritten(m, policy, f))
    BY <1>1, <1>2, AttemptFailedSettles DEF SameCore
  <2>2. /\ ResultApplied(f, result) = AttemptFailed(m, policy, f)
        /\ PartlyApplied(f, result) = {m, FailureWritten(m, policy, f)}
    BY <1>4, <1>6
  <2> QED BY <1>2, <1>3, <2>1, <2>2 DEF Settled, HalfSettled, SameCore
<1> QED BY <1>5, <1>6

(* A result is applied to the counters it was computed from, or ignored.   *)
LEMMA BridgeReturnsSafe ==
  ASSUME IndInv, NEW f \in flights, NEW result, BridgeReturns(f, result)
  PROVE  IndInv'
<1>1. flights' \subseteq flights /\ lane' = lane /\ FlagsOK'
  BY DEF BridgeReturns, IndInv, TypeOK, FlagsOK
<1>2. CASE Stale(f)
  BY <1>1, <1>2, CalmRest DEF BridgeReturns
<1>3. CASE ~Stale(f)
  <2>1. Calm(obj[f.objective], ResultApplied(f, result))
    BY <1>3, ResultSettles, SettledIsCalm DEF Stale
  <2>2. obj' = [obj EXCEPT ![f.objective] = ResultApplied(f, result)]
    BY <1>3 DEF BridgeReturns
  <2> QED BY <1>1, <2>1, <2>2, FlightFacts, CalmRow
<1> QED BY <1>2, <1>3

(* An error of an execution that holds its lease is one more failure.      *)
LEMMA ExecutionRaisesSafe ==
  ASSUME IndInv, Careful, NEW f \in flights, ExecutionRaises(f)
  PROVE  IndInv'
<1> DEFINE r == obj[f.objective]
           s == AttemptFailed(r, PolicyOf[f.objective], f)
<1>1. flights' \subseteq flights /\ lane' = lane /\ FlagsOK' /\ HoldsLease(f)
  BY DEF ExecutionRaises, IndInv, TypeOK, FlagsOK, Careful
<1>2. /\ f.objective \in Objectives /\ RowOK(r) /\ r.status = "reconciling"
      /\ f.consecutive = r.consecutive /\ f.total = r.total
      /\ PolicyOf[f.objective] \in InstancePolicies
  BY <1>1, FlightFacts DEF SoundFlight
<1>3. Calm(r, s)
  BY <1>2, AttemptFailedSettles, SettledIsCalm
<1>4. obj' = [obj EXCEPT ![f.objective] = s]
  BY <1>2 DEF ExecutionRaises, IndInv, TypeOK
<1> QED BY <1>1, <1>2, <1>3, <1>4, CalmRow

(* A sweep of the watchdog moves every row calmly.                         *)
LEMMA SweptCalm ==
  ASSUME IndInv, NEW o \in Objectives
  PROVE  Calm(obj[o], Swept[o])
<1>1. RowOK(obj[o])
  BY RowsOK
<1>2. CASE ~WatchdogActs(obj[o])
  BY <1>1, <1>2, SameIsCalm DEF Swept
<1>3. CASE WatchdogActs(obj[o]) /\ obj[o].cancelling
  <2>1. obj[o].status = "reconciling"
    BY <1>3 DEF WatchdogActs, LeaseExpired
  <2>2. Swept[o] = TimedOut(obj[o])
    BY <1>3 DEF Swept, HandleExpiredLease
  <2> QED BY <1>1, <2>1, <2>2, TimedOutSettles, SettledIsCalm
<1>4. CASE WatchdogActs(obj[o]) /\ ~obj[o].cancelling
  <2>1. Swept[o] = CancelRequested(obj[o])
    BY <1>4 DEF Swept, HandleExpiredLease
  <2>2. RowOK(Swept[o]) /\ SameCore(obj[o], Swept[o])
    BY <1>1, <2>1, CancelRequestedSound
  <2> QED BY <2>2 DEF Calm, SameCore
<1> QED BY <1>2, <1>3, <1>4

(* A tick of the watchdog, and the sweep at startup, keep the invariant.   *)
LEMMA SweepSafe ==
  ASSUME IndInv, obj' = Swept, UNCHANGED <<lane, flights>>, FlagsOK'
  PROVE  IndInv'
<1>1. obj' = [o \in Objectives |-> obj'[o]]
  BY DEF Swept
<1>2. \A o \in Objectives : Calm(obj[o], obj'[o])
  BY SweptCalm
<1>3. lane' = [e \in Evaluators |-> lane'[e]] /\ \A e \in Evaluators : lane'[e] = lane[e]
  BY DEF IndInv, TypeOK
<1> QED BY <1>1, <1>2, <1>3, CalmStep

(* The operator's actions keep the invariant.                              *)
LEMMA OperatorSafe ==
  ASSUME IndInv, Careful, OperatorStep
  PROVE  IndInv'
<1>1. ASSUME NEW o \in Objectives, SetManualHold(o) PROVE IndInv'
  <2> DEFINE s == [obj[o] EXCEPT !.hold = ~@]
  <2>1. obj[o] \in Row /\ RowOK(obj[o])
    BY RowsOK DEF RowOK
  <2>2. s \in Row
    BY <2>1 DEF Row
  <2>3. SameCore(obj[o], s)
    BY <2>1 DEF SameCore, Row
  <2>4. Calm(obj[o], s)
    BY <2>1, <2>2, <2>3, SameCoreSound DEF Calm, SameCore
  <2>5. obj' = [obj EXCEPT ![o] = s] /\ UNCHANGED <<lane, flights>> /\ FlagsOK'
    BY <1>1 DEF SetManualHold, IndInv, TypeOK, FlagsOK
  <2> QED BY <2>4, <2>5, CalmRow
<1>2. ASSUME NEW o \in Objectives, SetEnabled(o) PROVE IndInv'
  <2> DEFINE s == [obj[o] EXCEPT !.enabled = ~@]
  <2>1. obj[o] \in Row /\ RowOK(obj[o])
    BY RowsOK DEF RowOK
  <2>2. s \in Row
    BY <2>1 DEF Row
  <2>3. SameCore(obj[o], s)
    BY <2>1 DEF SameCore, Row
  <2>4. Calm(obj[o], s)
    BY <2>1, <2>2, <2>3, SameCoreSound DEF Calm, SameCore
  <2>5. obj' = [obj EXCEPT ![o] = s] /\ UNCHANGED <<lane, flights>> /\ FlagsOK'
    BY <1>2 DEF SetEnabled, IndInv, TypeOK, FlagsOK
  <2> QED BY <2>4, <2>5, CalmRow
<1>3. ASSUME NEW o \in Objectives, ManualReset(o) PROVE IndInv'
  <2> DEFINE s == ManuallyReset(obj[o], PolicyOf[o])
  <2>1. RowOK(obj[o]) /\ obj[o].status # "reconciling"
    BY <1>3, RowsOK DEF ManualReset, Careful
  <2>2. Calm(obj[o], s)
    BY <2>1, ManuallyResetSound DEF Calm
  <2>3. obj' = [obj EXCEPT ![o] = s] /\ UNCHANGED <<lane, flights>> /\ FlagsOK'
    BY <1>3 DEF ManualReset, IndInv, TypeOK, FlagsOK
  <2> QED BY <2>2, <2>3, CalmRow
<1>4. CASE SwitchSafeMode
  BY <1>4, CalmRest DEF SwitchSafeMode, IndInv, TypeOK, FlagsOK
<1>5. CASE SwitchGateSafeMode
  BY <1>5, CalmRest DEF SwitchGateSafeMode, IndInv, TypeOK, FlagsOK
<1> QED BY <1>1, <1>2, <1>3, <1>4, <1>5 DEF OperatorStep

(* A crash, wherever it hits, keeps the invariant.                         *)
LEMMA CrashSafe ==
  ASSUME IndInv, CrashStep
  PROVE  IndInv'
<1>0. obj \in [Objectives -> Row]
  BY DEF IndInv, TypeOK
<1>1. CASE Crash
  <2>1. obj' = obj /\ Lost
    BY <1>1 DEF Crash
  <2> QED BY <1>0, <2>1, RowsOK, CrashStepSafe
<1>2. ASSUME NEW f \in flights, NEW result \in Results, CrashInResult(f, result) PROVE IndInv'
  <2>1. HoldsLease(f) /\ Lost
    BY <1>2 DEF CrashInResult, Stale
  <2>2. PICK h \in PartlyApplied(f, result) : obj' = [obj EXCEPT ![f.objective] = h]
    BY <1>2 DEF CrashInResult
  <2>3. RowOK(h)
    BY <2>1, ResultSettles DEF HalfSettled
  <2>4. f.objective \in Objectives
    BY FlightFacts
  <2> QED BY <1>0, <2>1, <2>2, <2>3, <2>4, RowsOK, CrashStepSafe
<1>3. ASSUME NEW o \in Objectives, CrashInWatchdog(o) PROVE IndInv'
  <2>1. obj[o].status = "reconciling" /\ Lost
    BY <1>3 DEF CrashInWatchdog, WatchdogActs, LeaseExpired
  <2>2. PICK done \in SUBSET (Objectives \ {o}), h \in PartlyTimedOut(obj[o]) :
          obj' = [p \in Objectives |-> IF p = o THEN h
                                       ELSE IF p \in done THEN Swept[p] ELSE obj[p]]
    BY <1>3 DEF CrashInWatchdog
  <2>3. RowOK(h)
    BY <2>1, RowsOK, TimedOutSettles DEF HalfSettled
  <2>4. \A p \in Objectives : RowOK(obj[p]) /\ RowOK(Swept[p])
    BY RowsOK, SweptCalm DEF Calm
  <2>5. obj' = [p \in Objectives |-> obj'[p]] /\ \A p \in Objectives : RowOK(obj'[p])
    BY <2>2, <2>3, <2>4
  <2> QED BY <2>1, <2>5, CrashStepSafe
<1> QED BY <1>1, <1>2, <1>3 DEF CrashStep

(* Time passing keeps the invariant.                                       *)
LEMMA TickSafe ==
  ASSUME IndInv, Tick
  PROVE  IndInv'
<1>1. obj' = [o \in Objectives |-> Aged(obj[o])] /\ UNCHANGED <<lane, flights>> /\ FlagsOK'
  BY DEF Tick, IndInv, TypeOK, FlagsOK
<1>2. \A o \in Objectives : Calm(obj[o], obj'[o])
  BY <1>1, RowsOK, AgedSound DEF Calm, SameCore
<1>3. lane' = [e \in Evaluators |-> lane'[e]] /\ \A e \in Evaluators : lane'[e] = lane[e]
  BY <1>1 DEF IndInv, TypeOK
<1>4. obj' = [o \in Objectives |-> obj'[o]]
  BY <1>1
<1> QED BY <1>1, <1>2, <1>3, <1>4, CalmStep

(* Every step keeps the invariant.                                         *)
LEMMA StepSafe ==
  ASSUME IndInv, Careful, [Next]_vars
  PROVE  IndInv'
<1>1. CASE EvaluatorStep
  BY <1>1, EvaluatorReadSafe, EvaluatorResumeSafe DEF EvaluatorStep
<1>2. CASE TriggerStep
  BY <1>2, StartExecutionSafe DEF TriggerStep
<1>3. CASE ExecutionStep
  BY <1>3, BridgeReturnsSafe, ExecutionRaisesSafe DEF ExecutionStep
<1>4. CASE WatchdogTick
  BY <1>4, SweepSafe DEF WatchdogTick, IndInv, TypeOK, FlagsOK
<1>5. CASE OperatorStep
  BY <1>5, OperatorSafe
<1>6. CASE CrashStep
  BY <1>6, CrashSafe
<1>7. CASE Restart
  BY <1>7, SweepSafe DEF Restart, IndInv, TypeOK, FlagsOK
<1>8. CASE Tick
  BY <1>8, TickSafe
<1>9. CASE UNCHANGED vars
  BY <1>9, CalmRest DEF vars, IndInv, TypeOK, FlagsOK
<1> QED BY <1>1, <1>2, <1>3, <1>4, <1>5, <1>6, <1>7, <1>8, <1>9 DEF Next

-----------------------------------------------------------------------------
(* Theorems                                                                *)

(* IndInv holds in every state of a careful instance.                      *)
THEOREM Invariance == ASSUME Careful PROVE Spec => []IndInv
<1>1. Init => IndInv
  BY InitSafe
<1>2. IndInv /\ [Next]_vars => IndInv'
  BY StepSafe
<1> QED BY <1>1, <1>2, PTL DEF Spec

(* Every variable keeps its type.                                          *)
THEOREM TypeCorrect == ASSUME Careful PROVE Spec => []TypeOK
<1>1. IndInv => TypeOK
  BY DEF IndInv
<1> QED BY <1>1, Invariance, PTL

(* One admission accounts for at most one failure, in every instance.      *)
THEOREM CountersSound == ASSUME Careful PROVE Spec => []FailuresCountedOnce
<1>1. IndInv => FailuresCountedOnce
  BY DEF IndInv, SoundRow, FailuresCountedOnce
<1> QED BY <1>1, Invariance, PTL

(* No accepted result overwrites a newer counter.                          *)
THEOREM NoLostUpdate == ASSUME Careful PROVE Spec => []SnapshotsCurrent
<1>1. IndInv => SnapshotsCurrent
  BY DEF IndInv, SoundFlight, SnapshotsCurrent, Stale
<1> QED BY <1>1, Invariance, PTL
-----------------------------------------------------------------------------
(* What a step makes of one objective                                      *)

(* What becomes of an objective after its nth failure in a row.            *)
Judged(p, n) == IF ShouldEnterDegraded(p, n) THEN "degraded" ELSE "cooldown"

(* The moves of a row, apart from its time left, hold and the like.        *)
Admits(r, s, p) ==
  /\ r.status \in {"idle", "cooldown"} /\ ~MaxFailuresReached(p, r.consecutive)
  /\ s.status = "reconciling" /\ s.generation = r.generation + 1
  /\ s.attempt = r.attempt /\ s.consecutive = r.consecutive /\ s.total = r.total

Leases(r, s) ==
  /\ r.status = "reconciling" /\ s.status = "reconciling"
  /\ s.generation = r.generation /\ s.attempt = r.generation
  /\ s.consecutive = r.consecutive /\ s.total = r.total

GivesUp(r, s) ==
  /\ r.status = "reconciling" /\ s.status = "degraded"
  /\ s.generation = r.generation /\ s.attempt = r.attempt
  /\ s.consecutive = r.consecutive /\ s.total = r.total

Fails(r, s, p) ==
  /\ r.status = "reconciling" /\ s.status = Judged(p, r.consecutive + 1)
  /\ s.generation = r.generation
  /\ s.consecutive = r.consecutive + 1 /\ s.total = r.total + 1

Recovers(r, s, p) ==
  /\ r.status = "reconciling" /\ s.status = "idle"
  /\ s.generation = r.generation /\ s.total = r.total
  /\ s.consecutive = IF ShouldResetOnRecovery(p) THEN 0 ELSE r.consecutive

RecoversPassively(r, s) ==
  /\ r.status \in {"idle", "cooldown"} /\ s.status = "idle"
  /\ s.generation = r.generation /\ s.attempt = r.attempt
  /\ s.consecutive = r.consecutive /\ s.total = r.total

Resets(r, s, p) ==
  /\ r.status # "reconciling" /\ s.status = "idle"
  /\ s.generation = r.generation /\ s.attempt = r.attempt /\ s.total = r.total
  /\ s.consecutive = IF ShouldResetOnManualReset(p) THEN 0 ELSE r.consecutive

(* Only a crash in the middle of a handler leaves the id of an attempt     *)
(* behind whose outcome has been written.                                  *)
EndsAttempt(r, s) ==
  /\ r.attempt # 0
  /\ s.attempt = 0 \/ "crash_in_handler" \in Operations

(* An admission on its way starts.                                         *)
Hands(o) ==
  \E e \in Evaluators :
    /\ lane[e].pc = "admitted" /\ lane[e].target = o
    /\ lane[e].generation = obj[o].generation
    /\ lane'[e] = IdleLane

Moved(o) ==
  LET r == obj[o]
      s == obj'[o]
      p == PolicyOf[o]
  IN  \/ SameCore(r, s)
      \/ Admits(r, s, p) /\ EventLoopFree
      \/ Leases(r, s) /\ Hands(o)
      \/ GivesUp(r, s) /\ Hands(o)
      \/ EndsAttempt(r, s) /\ \E q \in {p, DefaultPolicy} : Fails(r, s, q)
      \/ /\ EndsAttempt(r, s) /\ Recovers(r, s, p)
         /\ \E f \in flights \ flights' : f.objective = o /\ HoldsLease(f)
      \/ RecoversPassively(r, s)
      \/ Resets(r, s, p) /\ ManualReset(o)

(* Clearing the attempt's fields touches nothing else.                     *)
LEMMA ClearedFields ==
  ASSUME NEW r \in Row
  PROVE  LET c == AttemptCleared(r) IN
         /\ c.status = r.status /\ c.generation = r.generation /\ c.attempt = 0
         /\ c.consecutive = r.consecutive /\ c.total = r.total
  BY DEF AttemptCleared, Row

(* Accounting a failure is one failure, whoever's policy judges it.        *)
LEMMA AccountedFails ==
  ASSUME NEW r \in Row, r.status = "reconciling", NEW p, NEW s,
         s.consecutive = r.consecutive, s.total = r.total
  PROVE  /\ Fails(r, FailureAccounted(r, p, s), p)
         /\ FailureAccounted(r, p, s).attempt = r.attempt
<1> DEFINE n == r.consecutive + 1
           t == r.total + 1
           c == CalculateCooldownDuration(p, n)
           a == FailureAccounted(r, p, s)
<1>1. a = IF ShouldEnterDegraded(p, n)
          THEN [[r EXCEPT !.consecutive = n, !.total = t] EXCEPT !.status = "degraded"]
          ELSE [[r EXCEPT !.consecutive = n, !.total = t]
                  EXCEPT !.status = "cooldown", !.cooldown = c]
  BY DEF FailureAccounted
<1> HIDE DEF n, t, c, a
<1>2. /\ a.status = Judged(p, n) /\ a.generation = r.generation /\ a.attempt = r.attempt
      /\ a.consecutive = n /\ a.total = t
  BY <1>1 DEF Row, Judged
<1> QED BY <1>2 DEF Fails, n, t, a

(* A verified recovery recovers.                                           *)
LEMMA VerifiedRecovers ==
  ASSUME NEW r \in Row, r.status = "reconciling", NEW p
  PROVE  /\ Recovers(r, VerifiedRecovery(r, p), p)
         /\ VerifiedRecovery(r, p).attempt = r.attempt
<1> DEFINE n == IF ShouldResetOnRecovery(p) THEN 0 ELSE r.consecutive
           i == VerifiedRecovery(r, p)
<1>1. i = [r EXCEPT !.status = "idle", !.cooldown = 0, !.consecutive = n]
  BY DEF VerifiedRecovery, Row
<1> HIDE DEF n, i
<1>2. /\ i.status = "idle" /\ i.generation = r.generation /\ i.attempt = r.attempt
      /\ i.total = r.total /\ i.consecutive = n
  BY <1>1 DEF Row
<1> QED BY <1>2 DEF Recovers, n, i

(* An operator's reset resets.                                             *)
LEMMA ManualResets ==
  ASSUME NEW r \in Row, r.status # "reconciling", NEW p
  PROVE  Resets(r, ManuallyReset(r, p), p)
<1> DEFINE n == IF ShouldResetOnManualReset(p) THEN 0 ELSE r.consecutive
           i == ManuallyReset(r, p)
<1>1. i = [r EXCEPT !.status = "idle", !.cooldown = 0, !.consecutive = n]
  BY DEF ManuallyReset, Row
<1> HIDE DEF n, i
<1>2. /\ i.status = "idle" /\ i.generation = r.generation /\ i.attempt = r.attempt
      /\ i.total = r.total /\ i.consecutive = n
  BY <1>1 DEF Row
<1> QED BY <1>2 DEF Resets, n, i

(* A row whose core is that of a moved row has moved like it.              *)
LEMMA SameCoreMoves ==
  ASSUME NEW r, NEW m, SameCore(r, m), NEW s, NEW p
  PROVE  /\ Fails(m, s, p) => Fails(r, s, p)
         /\ Recovers(m, s, p) => Recovers(r, s, p)
         /\ SameCore(m, s) => SameCore(r, s)
         /\ m.attempt = r.attempt
  BY DEF SameCore, Fails, Recovers

(* A failed attempt fails, unless its accounting throws.                   *)
LEMMA AttemptFailedMoves ==
  ASSUME NEW r, RowOK(r), r.status = "reconciling",
         NEW p \in InstancePolicies, NEW s,
         s.consecutive = r.consecutive, s.total = r.total,
         NEW w \in {FailureWritten(r, p, s), AttemptFailed(r, p, s)}
  PROVE  /\ SameCore(r, w) \/ Fails(r, w, p)
         /\ w = AttemptFailed(r, p, s) => SameCore(r, w) \/ w.attempt = 0
<1>1. CASE AccountingThrows(p, s)
  <2>1. w = r
    BY <1>1 DEF AttemptFailed, FailureWritten
  <2> QED BY <2>1 DEF SameCore
<1>2. CASE ~AccountingThrows(p, s)
  <2> DEFINE a == FailureAccounted(r, p, s)
             c == AttemptCleared(a)
  <2>1. RowOK(a) /\ a \in Row
    BY <1>2, FailureAccountedSound DEF RowOK
  <2>2. AttemptFailed(r, p, s) = c /\ FailureWritten(r, p, s) = a
    BY <1>2 DEF AttemptFailed, FailureWritten
  <2>3. Fails(r, a, p)
    BY AccountedFails DEF RowOK
  <2>4. Fails(r, c, p) /\ c.attempt = 0
    <3> HIDE DEF a
    <3> QED BY <2>1, <2>3, ClearedFields DEF Fails
  <2> HIDE DEF a, c
  <2>5. CASE w = AttemptFailed(r, p, s)
    BY <2>2, <2>4, <2>5
  <2>6. CASE w = FailureWritten(r, p, s) /\ w # AttemptFailed(r, p, s)
    BY <2>2, <2>3, <2>6
  <2> QED BY <2>5, <2>6
<1> QED BY <1>1, <1>2

(* A result that is not stale fails or recovers its objective, all of it   *)
(* or its first updates only, or leaves it to the watchdog.                *)
LEMMA ResultMoves ==
  ASSUME IndInv, NEW f \in flights, HoldsLease(f), NEW result,
         NEW w \in {ResultApplied(f, result)} \cup PartlyApplied(f, result)
  PROVE  LET r == obj[f.objective]
             p == PolicyOf[f.objective]
         IN  /\ SameCore(r, w) \/ Fails(r, w, p) \/ Recovers(r, w, p)
             /\ w = ResultApplied(f, result) => SameCore(r, w) \/ w.attempt = 0
<1> DEFINE o == f.objective
           r == obj[o]
           policy == PolicyOf[o]
           m == ResultRecorded(r)
           v == VerifiedRecovery(m, policy)
<1>1. /\ RowOK(r) /\ policy \in InstancePolicies
      /\ r.status = "reconciling"
      /\ f.consecutive = r.consecutive /\ f.total = r.total
  BY FlightFacts DEF SoundFlight
<1>2. RowOK(m) /\ SameCore(r, m)
  BY <1>1, MarkedSound
<1>3. /\ ResultApplied(f, result) =
           IF Verified(result) THEN AttemptCleared(v) ELSE AttemptFailed(m, policy, f)
      /\ PartlyApplied(f, result) =
           {m, IF Verified(result) THEN v ELSE FailureWritten(m, policy, f)}
  BY DEF ResultApplied, PartlyApplied, OutcomeWritten, AttemptFailed, FailureWritten
<1>4. m.status = "reconciling" /\ f.consecutive = m.consecutive /\ f.total = m.total
  BY <1>1, <1>2 DEF SameCore
<1> HIDE DEF m, policy, r
<1>5. CASE w = m
  BY <1>2, <1>5 DEF r
<1>6. CASE Verified(result) /\ w # m
  <2> DEFINE c == AttemptCleared(v)
  <2>1. Recovers(m, v, policy) /\ RowOK(v)
    BY <1>2, <1>4, VerifiedRecovers, VerifiedRecoverySound DEF RowOK
  <2> HIDE DEF v
  <2>2. Recovers(m, c, policy) /\ c.attempt = 0
    BY <2>1, ClearedFields DEF RowOK, Recovers
  <2> HIDE DEF c
  <2>3. w \in {v, c} /\ ResultApplied(f, result) = c
    BY <1>3, <1>6 DEF c
  <2>4. Recovers(m, w, policy)
    BY <2>1, <2>2, <2>3
  <2> QED BY <1>2, <2>2, <2>3, <2>4, SameCoreMoves DEF r, policy
<1>7. CASE ~Verified(result) /\ w # m
  <2>1. w \in {FailureWritten(m, policy, f), AttemptFailed(m, policy, f)}
    BY <1>3, <1>7
  <2>2. /\ SameCore(m, w) \/ Fails(m, w, policy)
        /\ w = AttemptFailed(m, policy, f) => SameCore(m, w) \/ w.attempt = 0
    BY <1>1, <1>2, <1>4, <2>1, AttemptFailedMoves
  <2>3. ResultApplied(f, result) = AttemptFailed(m, policy, f)
    BY <1>3, <1>7
  <2> QED BY <1>2, <2>2, <2>3, SameCoreMoves DEF r, policy
<1> QED BY <1>5, <1>6, <1>7

(* A forced termination fails its objective by the default policy.         *)
LEMMA TimedOutMoves ==
  ASSUME NEW r, RowOK(r), r.status = "reconciling",
         NEW w \in {TimedOut(r)} \cup PartlyTimedOut(r)
  PROVE  /\ SameCore(r, w) \/ Fails(r, w, DefaultPolicy)
         /\ w = TimedOut(r) => Fails(r, w, DefaultPolicy) /\ w.attempt = 0
<1> DEFINE m == ForceTerminated(r)
           a == FailureAccounted(m, DefaultPolicy, r)
           c == AttemptCleared(a)
<1>1. RowOK(m) /\ SameCore(r, m)
  BY MarkedSound
<1>2. TimedOut(r) = c /\ PartlyTimedOut(r) = {m, a}
  BY DEF TimedOut, PartlyTimedOut
<1> HIDE DEF m
<1>3. Fails(m, a, DefaultPolicy)
  BY <1>1, AccountedFails DEF RowOK, SameCore
<1>4. a \in Row
  <2>1. PartlyTimedOut(r) = {m, a}
    BY <1>2
  <2> HIDE DEF a
  <2> QED BY <2>1, TimedOutSettles DEF HalfSettled, RowOK
<1> HIDE DEF a
<1>5. Fails(m, c, DefaultPolicy) /\ c.attempt = 0
  BY <1>3, <1>4, ClearedFields DEF Fails
<1> HIDE DEF c
<1>6. CASE w = m
  <2>1. m # c
    BY <1>1, <1>5 DEF Fails, Judged
  <2> QED BY <1>1, <1>2, <1>6, <2>1
<1>7. CASE w # m
  BY <1>1, <1>2, <1>3, <1>5, <1>7, SameCoreMoves
<1> QED BY <1>6, <1>7

(* Every step moves each objective in one of those ways.                   *)
LEMMA EvaluatorMoves ==
  ASSUME IndInv, Careful, EvaluatorStep, NEW o \in Objectives
  PROVE  Moved(o)
<1>1. PICK e \in Evaluators : (\E t \in Objectives : EvaluatorRead(e, t)) \/ EvaluatorResume(e)
  BY DEF EvaluatorStep
<1>2. obj \in [Objectives -> Row] /\ obj[o] \in Row /\ lane[e].target \in Objectives
  BY LaneFacts DEF IndInv, TypeOK
<1>3. ASSUME obj'[o] = obj[o] PROVE Moved(o)
  BY <1>3 DEF Moved, SameCore
<1>4. CASE \E t \in Objectives : EvaluatorRead(e, t)
  BY <1>3, <1>4 DEF EvaluatorRead
<1>5. CASE EvaluatorResume(e) /\ (Monitoring(e) \/ AdmissionDenied(e))
  BY <1>3, <1>5 DEF Monitoring, AdmissionDenied
<1>6. CASE EvaluatorResume(e) /\ TRUE \in Observations /\ PassiveRecovery(e)
  <2>1. obj' = [obj EXCEPT ![lane[e].target] = PassivelyRecovered(@)]
    BY <1>6 DEF PassiveRecovery
  <2>2. CASE lane[e].target # o
    BY <1>2, <1>3, <2>1, <2>2
  <2>3. CASE lane[e].target = o
    <3>1. obj'[o] = PassivelyRecovered(obj[o])
      BY <1>2, <2>1, <2>3
    <3>2. obj[o].status \in {"idle", "cooldown"}
      BY <1>6, <2>3, LaneFacts DEF SoundLane, EvaluatorResume, PassiveRecovery
    <3> QED BY <1>2, <3>1, <3>2 DEF Moved, RecoversPassively, PassivelyRecovered, Row
  <2> QED BY <2>2, <2>3
<1>7. CASE EvaluatorResume(e) /\ AdmitAndTransition(e)
  <2>1. obj' = [obj EXCEPT ![lane[e].target] = Admitted(@)]
    BY <1>7 DEF AdmitAndTransition
  <2>2. CASE lane[e].target # o
    BY <1>2, <1>3, <2>1, <2>2
  <2>3. CASE lane[e].target = o
    <3>1. obj'[o] = Admitted(obj[o])
      BY <1>2, <2>1, <2>3
    <3>2. /\ obj[o].status \in {"idle", "cooldown"}
          /\ ~MaxFailuresReached(PolicyOf[o], obj[o].consecutive)
          /\ EventLoopFree
      BY <1>7, <2>3 DEF EvaluatorResume, AdmitAndTransition, Admissible,
                        EligibleForReconciliation, PolicyAllows
    <3>3. Admits(obj[o], obj'[o], PolicyOf[o])
      <4> DEFINE g == obj[o].generation + 1
      <4>1. obj'[o] = [obj[o] EXCEPT !.status = "reconciling", !.generation = g, !.cooldown = 0]
        BY <1>2, <3>1 DEF Admitted, Row
      <4> HIDE DEF g
      <4>2. /\ obj'[o].status = "reconciling" /\ obj'[o].generation = g
            /\ obj'[o].attempt = obj[o].attempt /\ obj'[o].total = obj[o].total
            /\ obj'[o].consecutive = obj[o].consecutive
        BY <1>2, <4>1 DEF Row
      <4> QED BY <3>2, <4>2 DEF Admits, g
    <3> QED BY <3>2, <3>3 DEF Moved
  <2> QED BY <2>2, <2>3
<1> QED BY <1>1, <1>4, <1>5, <1>6, <1>7 DEF EvaluatorResume

LEMMA TriggerMoves ==
  ASSUME IndInv, TriggerStep, NEW o \in Objectives
  PROVE  Moved(o)
<1>1. PICK e \in Evaluators, environment \in StartEnvironments : StartExecution(e, environment)
  BY DEF TriggerStep
<1> DEFINE t == lane[e].target
<1>2. obj \in [Objectives -> Row] /\ obj[o] \in Row /\ t \in Objectives
  BY LaneFacts DEF IndInv, TypeOK
<1>3. ASSUME obj'[o] = obj[o] PROVE Moved(o)
  BY <1>3 DEF Moved, SameCore
<1>4. lane[e].pc = "admitted" /\ lane'[e] = IdleLane
  BY <1>1, LaneFacts DEF StartExecution, EvaluationDone
<1>5. CASE obj' = obj
  BY <1>3, <1>5
<1>6. CASE MayExecute(e, environment) /\ \E w \in {PlanNotFound(obj[t]), LeaseStarted(obj[t])} :
             obj' = [obj EXCEPT ![t] = w]
  <2>1. PICK w \in {PlanNotFound(obj[t]), LeaseStarted(obj[t])} : obj' = [obj EXCEPT ![t] = w]
    BY <1>6
  <2>2. CASE t # o
    BY <1>2, <1>3, <2>1, <2>2
  <2>3. CASE t = o
    <3>1. obj'[o] = w /\ obj[o].status = "reconciling" /\ lane[e].generation = obj[o].generation
      BY <1>2, <1>6, <2>1, <2>3 DEF MayExecute
    <3>2. Hands(o)
      BY <1>4, <2>3, <3>1 DEF Hands
    <3>3. CASE w = PlanNotFound(obj[o])
      <4>1. GivesUp(obj[o], w)
        BY <1>2, <3>1, <3>3 DEF GivesUp, PlanNotFound, Row
      <4> QED BY <3>1, <3>2, <4>1 DEF Moved
    <3>4. CASE w = LeaseStarted(obj[o])
      <4>1. Leases(obj[o], w)
        BY <1>2, <3>1, <3>4 DEF Leases, LeaseStarted, Row
      <4> QED BY <3>1, <3>2, <4>1 DEF Moved
    <3> QED BY <2>1, <2>3, <3>3, <3>4
  <2> QED BY <2>2, <2>3
<1> QED BY <1>1, <1>5, <1>6 DEF StartExecution

(* ... a result, or an error of the execution that holds the lease, ends   *)
(* the attempt of its own objective,                                       *)
LEMMA OutcomeMoves ==
  ASSUME IndInv, NEW f \in flights, f \notin flights', HoldsLease(f),
         NEW o \in Objectives, NEW w,
         obj' = [obj EXCEPT ![f.objective] = w],
         LET r == obj[f.objective]
             p == PolicyOf[f.objective]
         IN  /\ SameCore(r, w) \/ Fails(r, w, p) \/ Recovers(r, w, p)
             /\ SameCore(r, w) \/ w.attempt = 0 \/ "crash_in_handler" \in Operations
  PROVE  Moved(o)
<1>1. obj \in [Objectives -> Row] /\ f.objective \in Objectives
  BY FlightFacts DEF IndInv, TypeOK
<1>2. CASE f.objective # o
  BY <1>1, <1>2 DEF Moved, SameCore
<1>3. CASE f.objective = o
  <2>1. obj'[o] = w
    BY <1>1, <1>3
  <2>2. obj[o].attempt # 0
    BY <1>3, FlightFacts DEF SoundFlight, HoldsLease
  <2>3. CASE SameCore(obj[o], w)
    BY <2>1, <2>3 DEF Moved
  <2>4. CASE ~SameCore(obj[o], w)
    <3>1. EndsAttempt(obj[o], w)
      BY <1>3, <2>2, <2>4 DEF EndsAttempt
    <3> QED BY <1>3, <2>1, <2>4, <3>1 DEF Moved
  <2> QED BY <2>3, <2>4
<1> QED BY <1>2, <1>3

LEMMA ExecutionMoves ==
  ASSUME IndInv, Careful, ExecutionStep, NEW o \in Objectives
  PROVE  Moved(o)
<1>1. PICK f \in flights : (\E result \in Results : BridgeReturns(f, result)) \/ ExecutionRaises(f)
  BY DEF ExecutionStep
<1>2. CASE \E result \in Results : BridgeReturns(f, result)
  <2>1. PICK result \in Results : BridgeReturns(f, result)
    BY <1>2
  <2>2. CASE Stale(f)
    BY <2>1, <2>2 DEF BridgeReturns, Moved, SameCore
  <2>3. CASE ~Stale(f)
    <3> DEFINE w == ResultApplied(f, result)
    <3>1. /\ HoldsLease(f) /\ f \notin flights'
          /\ obj' = [obj EXCEPT ![f.objective] = w]
      BY <2>1, <2>3 DEF BridgeReturns, Stale
    <3>2. LET r == obj[f.objective]
              p == PolicyOf[f.objective]
          IN  /\ SameCore(r, w) \/ Fails(r, w, p) \/ Recovers(r, w, p)
              /\ SameCore(r, w) \/ w.attempt = 0
      BY <3>1, ResultMoves
    <3> QED BY <3>1, <3>2, OutcomeMoves
  <2> QED BY <2>2, <2>3
<1>3. CASE ExecutionRaises(f)
  <2> DEFINE r == obj[f.objective]
             w == AttemptFailed(r, PolicyOf[f.objective], f)
  <2>1. /\ HoldsLease(f) /\ f \notin flights'
        /\ obj' = [obj EXCEPT ![f.objective] = w]
    BY <1>3 DEF ExecutionRaises, Careful
  <2>2. /\ RowOK(r) /\ r.status = "reconciling"
        /\ f.consecutive = r.consecutive /\ f.total = r.total
        /\ PolicyOf[f.objective] \in InstancePolicies
    BY <2>1, FlightFacts DEF SoundFlight
  <2>3. /\ SameCore(r, w) \/ Fails(r, w, PolicyOf[f.objective])
        /\ SameCore(r, w) \/ w.attempt = 0
    BY <2>2, AttemptFailedMoves
  <2> QED BY <2>1, <2>3, OutcomeMoves
<1> QED BY <1>1, <1>2, <1>3

(* ... the watchdog ends the attempts whose leases have expired,           *)
LEMMA WatchdogMoves ==
  ASSUME IndInv, NEW o \in Objectives, NEW w,
         obj'[o] = w,
         \/ w = Swept[o]
         \/ /\ WatchdogActs(obj[o]) /\ w \in PartlyTimedOut(obj[o])
            /\ "crash_in_handler" \in Operations
  PROVE  Moved(o)
<1>1. RowOK(obj[o]) /\ obj[o] \in Row
  BY RowsOK DEF RowOK
<1>2. WatchdogActs(obj[o]) => obj[o].status = "reconciling" /\ obj[o].attempt # 0
  BY DEF WatchdogActs, LeaseExpired
<1>3. CASE w = Swept[o] /\ (~WatchdogActs(obj[o]) \/ ~obj[o].cancelling)
  <2>1. w \in {obj[o], CancelRequested(obj[o])}
    BY <1>3 DEF Swept, HandleExpiredLease
  <2> QED BY <1>1, <2>1, CancelRequestedSound DEF Moved, SameCore
<1>4. CASE w = Swept[o] /\ WatchdogActs(obj[o]) /\ obj[o].cancelling
  <2>1. w = TimedOut(obj[o])
    BY <1>4 DEF Swept, HandleExpiredLease
  <2>2. Fails(obj[o], w, DefaultPolicy) /\ w.attempt = 0
    BY <1>1, <1>2, <1>4, <2>1, TimedOutMoves
  <2> QED BY <1>2, <1>4, <2>2 DEF Moved, EndsAttempt
<1>5. CASE /\ WatchdogActs(obj[o]) /\ w \in PartlyTimedOut(obj[o])
           /\ "crash_in_handler" \in Operations
  <2>1. SameCore(obj[o], w) \/ Fails(obj[o], w, DefaultPolicy)
    BY <1>1, <1>2, <1>5, TimedOutMoves
  <2> QED BY <1>2, <1>5, <2>1 DEF Moved, EndsAttempt
<1> QED BY <1>3, <1>4, <1>5

(* ... and the operator, a crash and time do what they do.                 *)
LEMMA OperatorMoves ==
  ASSUME IndInv, Careful, OperatorStep, NEW o \in Objectives
  PROVE  Moved(o)
<1>1. obj \in [Objectives -> Row] /\ obj[o] \in Row
  BY DEF IndInv, TypeOK
<1>2. CASE obj' = obj
  BY <1>2 DEF Moved, SameCore
<1>3. ASSUME NEW t \in Objectives, SetManualHold(t) \/ SetEnabled(t) PROVE Moved(o)
  <2>1. \/ obj' = [obj EXCEPT ![t].hold = ~@]
        \/ obj' = [obj EXCEPT ![t].enabled = ~@]
    BY <1>3 DEF SetManualHold, SetEnabled
  <2> QED BY <1>1, <2>1 DEF Moved, SameCore, Row
<1>4. ASSUME NEW t \in Objectives, ManualReset(t) PROVE Moved(o)
  <2>1. obj' = [obj EXCEPT ![t] = ManuallyReset(@, PolicyOf[t])] /\ obj[t].status # "reconciling"
    BY <1>4 DEF ManualReset, Careful
  <2>2. CASE t = o
    BY <1>1, <1>4, <2>1, <2>2, ManualResets DEF Moved
  <2>3. CASE t # o
    BY <1>1, <2>1, <2>3 DEF Moved, SameCore
  <2> QED BY <2>2, <2>3
<1> QED BY <1>2, <1>3, <1>4 DEF OperatorStep, SwitchSafeMode, SwitchGateSafeMode

LEMMA CrashMoves ==
  ASSUME IndInv, CrashStep, NEW o \in Objectives
  PROVE  Moved(o)
<1>1. obj \in [Objectives -> Row] /\ obj[o] \in Row
  BY DEF IndInv, TypeOK
<1>2. CASE Crash
  BY <1>2 DEF Crash, Moved, SameCore
<1>3. ASSUME NEW f \in flights, NEW result \in Results, CrashInResult(f, result) PROVE Moved(o)
  <2>1. HoldsLease(f) /\ flights' = {} /\ "crash_in_handler" \in Operations
    BY <1>3 DEF CrashInResult, Stale, Lost
  <2>2. PICK w \in PartlyApplied(f, result) : obj' = [obj EXCEPT ![f.objective] = w]
    BY <1>3 DEF CrashInResult
  <2>3. LET r == obj[f.objective]
            p == PolicyOf[f.objective]
        IN  SameCore(r, w) \/ Fails(r, w, p) \/ Recovers(r, w, p)
    BY <2>1, ResultMoves
  <2> QED BY <2>1, <2>2, <2>3, OutcomeMoves
<1>4. ASSUME NEW t \in Objectives, CrashInWatchdog(t) PROVE Moved(o)
  <2>1. PICK done \in SUBSET (Objectives \ {t}), h \in PartlyTimedOut(obj[t]) :
          obj' = [q \in Objectives |-> IF q = t THEN h
                                       ELSE IF q \in done THEN Swept[q] ELSE obj[q]]
    BY <1>4 DEF CrashInWatchdog
  <2>2. WatchdogActs(obj[t]) /\ "crash_in_handler" \in Operations
    BY <1>4 DEF CrashInWatchdog
  <2>3. CASE o = t
    BY <2>1, <2>2, <2>3, WatchdogMoves
  <2>4. CASE o # t /\ o \in done
    BY <2>1, <2>4, WatchdogMoves
  <2>5. CASE o # t /\ o \notin done
    BY <2>1, <2>5 DEF Moved, SameCore
  <2> QED BY <2>3, <2>4, <2>5
<1> QED BY <1>2, <1>3, <1>4 DEF CrashStep

LEMMA StepMoves ==
  ASSUME IndInv, Careful, [Next]_vars, NEW o \in Objectives
  PROVE  Moved(o)
<1>1. CASE EvaluatorStep
  BY <1>1, EvaluatorMoves
<1>2. CASE TriggerStep
  BY <1>2, TriggerMoves
<1>3. CASE ExecutionStep
  BY <1>3, ExecutionMoves
<1>4. CASE WatchdogTick \/ Restart
  <2>1. obj'[o] = Swept[o]
    BY <1>4 DEF WatchdogTick, Restart
  <2> QED BY <2>1, WatchdogMoves
<1>5. CASE OperatorStep
  BY <1>5, OperatorMoves
<1>6. CASE CrashStep
  BY <1>6, CrashMoves
<1>7. CASE Tick
  <2>1. obj'[o] = Aged(obj[o])
    BY <1>7 DEF Tick
  <2> QED BY <2>1, RowsOK, AgedSound DEF Moved
<1>8. CASE UNCHANGED vars
  BY <1>8 DEF vars, Moved, SameCore
<1> QED BY <1>1, <1>2, <1>3, <1>4, <1>5, <1>6, <1>7, <1>8 DEF Next

-----------------------------------------------------------------------------
(* What follows for the circuit breaker                                    *)

(* Nothing but the operator takes an objective out of degraded.            *)
LEMMA DegradedStays ==
  ASSUME IndInv, Careful, [Next]_vars, NEW o \in Objectives,
         obj[o].status = "degraded", obj'[o].status # "degraded"
  PROVE  ManualReset(o)
  BY StepMoves DEF Moved, SameCore, Admits, Leases, GivesUp, Fails, Recovers, RecoversPassively

(* An execution closes what it holds.                                      *)
LEMMA HolderCloses ==
  ASSUME IndInv, Careful, [Next]_vars, NEW o \in Objectives,
         obj[o].status = "reconciling", obj'[o].status = "idle"
  PROVE  \E f \in flights \ flights' : f.objective = o /\ HoldsLease(f)
  BY StepMoves
     DEF Moved, SameCore, Admits, Leases, GivesUp, Fails, Judged, RecoversPassively, Resets

(* An objective that may still fail has failures left before its maximum.  *)
RowLimited(o) ==
  PolicyOf[o] # NoPolicy /\ PolicyOf[o].maxConsecutive # 0 =>
    /\ obj[o].consecutive <= PolicyOf[o].maxConsecutive
    /\ obj[o].status = "reconciling" => obj[o].consecutive < PolicyOf[o].maxConsecutive

Limited == \A o \in Objectives : RowLimited(o)

LEMMA LimitedStep ==
  ASSUME IndInv, Careful, [Next]_vars, Limited
  PROVE  Limited'
<1> SUFFICES ASSUME NEW o \in Objectives,
                    PolicyOf[o] # NoPolicy, PolicyOf[o].maxConsecutive # 0
             PROVE  /\ obj'[o].consecutive <= PolicyOf[o].maxConsecutive
                    /\ obj'[o].status = "reconciling" =>
                         obj'[o].consecutive < PolicyOf[o].maxConsecutive
  BY DEF Limited, RowLimited
<1> DEFINE max == PolicyOf[o].maxConsecutive
<1>1. max \in Nat /\ obj[o].consecutive \in Nat
  BY PoliciesAssumption DEF AnyPolicy, Policy, IndInv, TypeOK, Row
<1>2. /\ obj[o].consecutive <= max
      /\ obj[o].status = "reconciling" => obj[o].consecutive < max
  BY DEF Limited, RowLimited
<1>3. Moved(o)
  BY StepMoves
<1>4. MaxFailuresReached(PolicyOf[o], obj[o].consecutive) \/ obj[o].consecutive < max
  BY <1>1 DEF MaxFailuresReached
<1> HIDE DEF max
<1>5. /\ obj'[o].consecutive <= max
      /\ obj'[o].status = "reconciling" => obj'[o].consecutive < max
  BY <1>1, <1>2, <1>3, <1>4
     DEF Moved, SameCore, Admits, Leases, GivesUp, Fails, Judged, Recovers, RecoversPassively, Resets
<1> QED BY <1>5 DEF max

(* Policies that degrade an objective no later than they refuse it, and    *)
(* give it its failures back when the operator resets it.  The watchdog    *)
(* judges timeouts by the default policy.                                  *)
DegradesInTime ==
  \A o \in Objectives :
    PolicyOf[o] # NoPolicy /\ PolicyOf[o].maxConsecutive # 0 =>
      /\ PolicyOf[o].resetOnManual
      /\ \A q \in {PolicyOf[o], DefaultPolicy} :
           q.degradeAfter \in 1..PolicyOf[o].maxConsecutive

LEMMA ExhaustedStep ==
  ASSUME IndInv, Careful, DegradesInTime, [Next]_vars, ExhaustedIsDegraded
  PROVE  ExhaustedIsDegraded'
<1> SUFFICES ASSUME NEW o \in Objectives, MaxFailuresReached(PolicyOf[o], obj'[o].consecutive)
             PROVE  obj'[o].status = "degraded"
  BY DEF ExhaustedIsDegraded
<1> DEFINE p == PolicyOf[o]
           max == p.maxConsecutive
<1>1. p # NoPolicy /\ max # 0 /\ obj'[o].consecutive >= max
  BY DEF MaxFailuresReached
<1>2. max \in Nat /\ obj[o].consecutive \in Nat
  BY <1>1, PoliciesAssumption DEF AnyPolicy, Policy, IndInv, TypeOK, Row
<1>3. Moved(o)
  BY StepMoves
<1>4. obj[o].consecutive >= max => obj[o].status = "degraded"
  BY <1>1 DEF ExhaustedIsDegraded, MaxFailuresReached
<1>5. obj[o].consecutive < max => ~MaxFailuresReached(p, obj[o].consecutive)
  BY <1>1, <1>2 DEF MaxFailuresReached
<1>6. ASSUME NEW q \in {p, DefaultPolicy}, Fails(obj[o], obj'[o], q)
      PROVE  obj'[o].status = "degraded"
  <2>1. q # NoPolicy
    BY <1>1, PoliciesAssumption, NoPolicyIsNoRecord
  <2>2. q.degradeAfter \in 1..max
    BY <1>1 DEF DegradesInTime
  <2>3. obj'[o].status = Judged(q, obj[o].consecutive + 1) /\ obj[o].consecutive + 1 >= max
    BY <1>1, <1>6 DEF Fails
  <2>4. ShouldEnterDegraded(q, obj[o].consecutive + 1)
    BY <1>2, <2>1, <2>2, <2>3 DEF ShouldEnterDegraded
  <2> QED BY <2>3, <2>4 DEF Judged
<1>7. ASSUME Resets(obj[o], obj'[o], p) PROVE FALSE
  <2>1. ShouldResetOnManualReset(p)
    BY <1>1 DEF DegradesInTime, ShouldResetOnManualReset
  <2>2. obj'[o].consecutive = 0
    BY <1>7, <2>1 DEF Resets
  <2> QED BY <1>1, <1>2, <2>2
<1>8. ASSUME Recovers(obj[o], obj'[o], p) PROVE FALSE
  BY <1>1, <1>2, <1>4, <1>8 DEF Recovers
<1>9. ASSUME Admits(obj[o], obj'[o], p) PROVE FALSE
  BY <1>1, <1>2, <1>4, <1>9 DEF Admits
<1>10. ASSUME RecoversPassively(obj[o], obj'[o]) PROVE FALSE
  BY <1>1, <1>4, <1>10 DEF RecoversPassively
<1>11. ASSUME SameCore(obj[o], obj'[o]) \/ Leases(obj[o], obj'[o]) PROVE obj'[o].status = "degraded"
  BY <1>1, <1>4, <1>11 DEF SameCore, Leases
<1>12. ASSUME GivesUp(obj[o], obj'[o]) PROVE obj'[o].status = "degraded"
  BY <1>12 DEF GivesUp
<1> QED BY <1>3, <1>6, <1>7, <1>8, <1>9, <1>10, <1>11, <1>12 DEF Moved

-----------------------------------------------------------------------------
(* The refinement                                                          *)

(* The default policy, by which the watchdog judges, degrades an objective *)
(* as its own policy does.                                                 *)
OneThreshold ==
  \A o \in Objectives, n \in Nat :
    ShouldEnterDegraded(PolicyOf[o], n) <=> ShouldEnterDegraded(DefaultPolicy, n)

Abstract(r) ==
  [status |-> r.status, generation |-> r.generation,
   consecutive |-> r.consecutive, total |-> r.total]

LEMMA AbstractTyped ==
  ASSUME NEW r \in Row
  PROVE  /\ Abstract(r) \in Breakers!Breaker
         /\ Abstract(r).status = r.status /\ Abstract(r).generation = r.generation
         /\ Abstract(r).consecutive = r.consecutive /\ Abstract(r).total = r.total
  BY DEF Row, Statuses, Abstract, Breakers!Breaker

(* A move of a row is an event of the abstract breaker, or none.           *)
LEMMA MovesAreEvents ==
  ASSUME OneThreshold, NEW o \in Objectives, obj[o] \in Row, obj'[o] \in Row, Moved(o)
  PROVE  Abstract(obj'[o]) \in
           {Abstract(obj[o])} \cup Breakers!Successors(Abstract(obj[o]), PolicyOf[o])
<1> DEFINE b == Abstract(obj[o])
           c == Abstract(obj'[o])
           p == PolicyOf[o]
<1> SUFFICES c \in {b} \cup Breakers!Successors(b, p)
  OBVIOUS
<1>1. obj[o].consecutive \in Nat
  BY DEF Row
<1>2. CASE SameCore(obj[o], obj'[o]) \/ Leases(obj[o], obj'[o])
  BY <1>2 DEF SameCore, Leases, Abstract
<1>9. /\ b \in Breakers!Breaker
      /\ b.status = obj[o].status /\ b.generation = obj[o].generation
      /\ b.consecutive = obj[o].consecutive /\ b.total = obj[o].total
  BY AbstractTyped
<1>10. /\ c \in Breakers!Breaker
       /\ c.status = obj'[o].status /\ c.generation = obj'[o].generation
       /\ c.consecutive = obj'[o].consecutive /\ c.total = obj'[o].total
  BY AbstractTyped
<1> HIDE DEF b, c
<1>3. CASE Admits(obj[o], obj'[o], p)
  <2>1. c = [b EXCEPT !.status = "reconciling", !.generation = @ + 1]
    BY <1>3, <1>9, <1>10 DEF Admits, Breakers!Breaker
  <2>2. b.status \in {"idle", "cooldown"} /\ ~Breakers!MaxFailuresReached(p, b.consecutive)
    BY <1>3, <1>9 DEF Admits, MaxFailuresReached, Breakers!MaxFailuresReached
  <2>3. c \in Breakers!Admit(b, p)
    BY <2>1, <2>2 DEF Breakers!Admit
  <2> QED BY <2>3 DEF Breakers!Successors
<1>4. CASE GivesUp(obj[o], obj'[o])
  <2>1. c = [b EXCEPT !.status = "degraded"] /\ b.status = "reconciling"
    BY <1>4, <1>9, <1>10 DEF GivesUp, Breakers!Breaker
  <2>2. c \in Breakers!GiveUp(b)
    BY <2>1 DEF Breakers!GiveUp
  <2> QED BY <2>2 DEF Breakers!Successors
<1>5. ASSUME NEW q \in {p, DefaultPolicy}, Fails(obj[o], obj'[o], q)
      PROVE  c \in Breakers!Successors(b, p)
  <2>1. Judged(q, obj[o].consecutive + 1) = Breakers!AfterFailure(p, b.consecutive + 1)
    BY <1>1, <1>9 DEF Judged, Breakers!AfterFailure, ShouldEnterDegraded,
                Breakers!ShouldEnterDegraded, OneThreshold
  <2>2. /\ c = [b EXCEPT !.status = Breakers!AfterFailure(p, b.consecutive + 1),
                         !.consecutive = @ + 1, !.total = @ + 1]
        /\ b.status = "reconciling"
    BY <1>5, <1>9, <1>10, <2>1 DEF Fails, Breakers!Breaker
  <2>3. c \in Breakers!Fail(b, p)
    BY <2>2 DEF Breakers!Fail
  <2> QED BY <2>3 DEF Breakers!Successors
<1>6. CASE Recovers(obj[o], obj'[o], p)
  <2>1. /\ c = [b EXCEPT !.status = "idle",
                         !.consecutive = IF Breakers!ShouldResetOnRecovery(p) THEN 0 ELSE @]
        /\ b.status = "reconciling"
    BY <1>6, <1>9, <1>10 DEF Recovers, Breakers!Breaker, ShouldResetOnRecovery, Breakers!ShouldResetOnRecovery
  <2>2. c \in Breakers!Recover(b, p)
    BY <2>1 DEF Breakers!Recover
  <2> QED BY <2>2 DEF Breakers!Successors
<1>7. CASE RecoversPassively(obj[o], obj'[o])
  <2>1. c = [b EXCEPT !.status = "idle"] /\ b.status \in {"idle", "cooldown"}
    BY <1>7, <1>9, <1>10 DEF RecoversPassively, Breakers!Breaker
  <2>2. CASE b.status = "idle"
    BY <1>9, <2>1, <2>2 DEF Breakers!Breaker
  <2>3. CASE b.status = "cooldown"
    BY <2>1, <2>3 DEF Breakers!RecoverPassively, Breakers!Successors
  <2> QED BY <2>1, <2>2, <2>3
<1>8. CASE Resets(obj[o], obj'[o], p)
  <2> DEFINE n == IF Breakers!ShouldResetOnManualReset(p) THEN 0 ELSE b.consecutive
  <2>3. c.consecutive = n /\ b.status # "reconciling"
    BY <1>8, <1>9, <1>10
       DEF Resets, ShouldResetOnManualReset, Breakers!ShouldResetOnManualReset
  <2>1. c = [b EXCEPT !.status = "idle", !.consecutive = n]
    <3> HIDE DEF n
    <3> QED BY <1>8, <1>9, <1>10, <2>3 DEF Resets, Breakers!Breaker
  <2>2. c \in Breakers!Reset(b, p)
    BY <2>1, <2>3 DEF Breakers!Reset
  <2> QED BY <2>2 DEF Breakers!Successors
<1> QED BY <1>2, <1>3, <1>4, <1>5, <1>6, <1>7, <1>8 DEF Moved

(* The objectives as breakers.                                             *)
AsBreakers == [o \in Objectives |-> Abstract(obj[o])]

LEMMA InitIsAbstract == Init => Breakers!Init
  BY DEF Init, Breakers!Init, CreatedRow

LEMMA StepIsAbstract ==
  ASSUME IndInv, Careful, OneThreshold, [Next]_vars
  PROVE  [Breakers!Next]_AsBreakers
<1>1. \A o \in Objectives :
        AsBreakers'[o] \in {AsBreakers[o]} \cup Breakers!Successors(AsBreakers[o], PolicyOf[o])
  <2> SUFFICES ASSUME NEW o \in Objectives
               PROVE  Abstract(obj'[o]) \in
                        {Abstract(obj[o])} \cup Breakers!Successors(Abstract(obj[o]), PolicyOf[o])
    BY DEF AsBreakers
  <2>1. obj[o] \in Row /\ obj'[o] \in Row
    BY StepSafe DEF IndInv, TypeOK
  <2> QED BY <2>1, StepMoves, MovesAreEvents
<1> QED BY <1>1 DEF Breakers!Next, AsBreakers, Abstract

-----------------------------------------------------------------------------
(* Single flight                                                           *)

(* Where no crash cuts a handler short, an attempt id stands only while    *)
(* its objective is reconciling in its generation, and an admission on its *)
(* way finds no attempt.                                                   *)
RowTidy(r) == r.attempt # 0 => r.status = "reconciling" /\ r.attempt = r.generation

LaneWaits(l) ==
  l.pc = "admitted" /\ l.generation = obj[l.target].generation =>
    obj[l.target].status = "reconciling" /\ obj[l.target].attempt = 0

TidyLeases ==
  /\ \A o \in Objectives : RowTidy(obj[o])
  /\ \A e \in Evaluators : LaneWaits(lane[e])

Tidied == "crash_in_handler" \notin Operations => TidyLeases

(* An evaluator that is admitted after a step was admitted before it, or   *)
(* by it.                                                                  *)
LEMMA LaneMoves ==
  ASSUME IndInv, [Next]_vars, NEW e \in Evaluators, lane'[e].pc = "admitted"
  PROVE  \/ lane'[e] = lane[e]
         \/ /\ obj[lane'[e].target].status \in {"idle", "cooldown"}
            /\ obj'[lane'[e].target].status = "reconciling"
<1>1. lane \in [Evaluators -> Lane]
  BY DEF IndInv, TypeOK
<1>2. CASE EvaluatorStep
  <2>1. PICK d \in Evaluators : (\E t \in Objectives : EvaluatorRead(d, t)) \/ EvaluatorResume(d)
    BY <1>2 DEF EvaluatorStep
  <2>2. CASE d # e
    BY <1>1, <2>1, <2>2
       DEF EvaluatorRead, EvaluatorResume, EvaluationDone, PassiveRecovery, Monitoring,
           AdmissionDenied, AdmitAndTransition
  <2>3. CASE d = e
    <3>1. ~ \E t \in Objectives : EvaluatorRead(e, t)
      BY <1>1 DEF EvaluatorRead
    <3>2. ~EvaluationDone(e)
      BY <1>1, IdleLaneTyped DEF EvaluationDone
    <3>3. AdmitAndTransition(e)
      BY <2>1, <2>3, <3>1, <3>2 DEF EvaluatorResume, PassiveRecovery, Monitoring, AdmissionDenied
    <3>4. lane'[e].target = lane[e].target
      BY <1>1, <3>3 DEF AdmitAndTransition, Lane
    <3>5. obj'[lane[e].target].status = "reconciling"
      BY <3>3, LaneFacts DEF AdmitAndTransition, Admitted, IndInv, TypeOK, Row
    <3> QED BY <3>3, <3>4, <3>5 DEF AdmitAndTransition, Admissible, EligibleForReconciliation
  <2> QED BY <2>2, <2>3
<1>3. CASE TriggerStep
  BY <1>1, <1>3, IdleLaneTyped DEF TriggerStep, StartExecution, EvaluationDone
<1>4. CASE CrashStep
  <2>1. lane'[e] = IdleLane
    BY <1>4 DEF CrashStep, Crash, CrashInResult, CrashInWatchdog, Lost
  <2> QED BY <2>1, IdleLaneTyped
<1>5. CASE ExecutionStep \/ WatchdogTick \/ OperatorStep \/ Restart \/ Tick \/ UNCHANGED vars
  BY <1>5 DEF ExecutionStep, BridgeReturns, ExecutionRaises, WatchdogTick, OperatorStep,
              SetManualHold, SetEnabled, ManualReset, SwitchSafeMode, SwitchGateSafeMode,
              Restart, Tick, vars
<1> QED BY <1>2, <1>3, <1>4, <1>5 DEF Next

LEMMA TidyStep ==
  ASSUME IndInv, Careful, [Next]_vars, "crash_in_handler" \notin Operations, TidyLeases
  PROVE  TidyLeases'
<1>1. ASSUME NEW o \in Objectives PROVE RowTidy(obj'[o])
  <2>1. Moved(o) /\ RowTidy(obj[o])
    BY StepMoves DEF TidyLeases
  <2>2. Hands(o) => obj[o].attempt = 0
    BY DEF Hands, TidyLeases, LaneWaits
  <2> QED BY <2>1, <2>2
          DEF Moved, RowTidy, SameCore, Admits, Leases, GivesUp, EndsAttempt,
              RecoversPassively, Resets
<1>2. ASSUME NEW e \in Evaluators PROVE LaneWaits(lane[e])'
  <2> DEFINE l == lane'[e]
             t == l.target
  <2> SUFFICES ASSUME l.pc = "admitted", l.generation = obj'[t].generation
               PROVE  obj'[t].status = "reconciling" /\ obj'[t].attempt = 0
    BY DEF LaneWaits
  <2>1. t \in Objectives
    BY StepSafe, LaneFacts DEF IndInv, TypeOK, Lane
  <2>2. Moved(t) /\ RowTidy(obj[t]) /\ obj[t].generation \in Nat
    BY <2>1, StepMoves DEF TidyLeases, IndInv, TypeOK, Row
  <2>3. CASE l = lane[e]
    <3>1. SoundLane(lane[e]) /\ LaneWaits(lane[e])
      BY LaneFacts DEF TidyLeases
    <3>2. l.generation <= obj[t].generation /\ l.generation \in Nat
      BY <2>3, <3>1, LaneFacts DEF SoundLane
    <3>3. obj'[t].generation = obj[t].generation =>
            obj[t].status = "reconciling" /\ obj[t].attempt = 0
      BY <2>3, <3>1 DEF LaneWaits
    <3>4. obj'[t].generation = obj[t].generation => ~Hands(t)
      BY <2>3, IdleLaneTyped DEF Hands, IndInv, OneAdmittance
    <3> HIDE DEF l, t
    <3> QED BY <2>2, <3>2, <3>3, <3>4
            DEF Moved, SameCore, Admits, Leases, GivesUp, EndsAttempt, Fails, Recovers,
                RecoversPassively, Resets
  <2>4. CASE l # lane[e]
    <3>1. obj[t].status \in {"idle", "cooldown"} /\ obj'[t].status = "reconciling"
      BY <2>4, LaneMoves
    <3> HIDE DEF l, t
    <3> QED BY <2>2, <3>1
            DEF RowTidy, Moved, SameCore, Admits, Leases, GivesUp, Fails, Recovers,
                RecoversPassively, Resets
  <2> QED BY <2>3, <2>4
<1> QED BY <1>1, <1>2 DEF TidyLeases

(* An admission while evaluations and executions go on is the only one.    *)
LEMMA AdmittedAlone ==
  ASSUME IndInv, Careful, [Next]_vars, Tidied,
         RunToCompletion \/ "crash_in_handler" \notin Operations,
         NEW o \in Objectives, obj'[o].generation # obj[o].generation
  PROVE  /\ \A f \in flights : f.objective = o => ~HoldsLease(f)
         /\ \A e \in Evaluators :
              ~(/\ lane[e].pc = "admitted" /\ lane[e].target = o
                /\ lane[e].generation = obj[o].generation)
<1>1. obj[o].status \in {"idle", "cooldown"} /\ EventLoopFree
  BY StepMoves
     DEF Moved, SameCore, Admits, Leases, GivesUp, Fails, Recovers, RecoversPassively, Resets
<1>2. \A f \in flights : f.objective = o => ~HoldsLease(f)
  BY <1>1, FlightFacts DEF SoundFlight
<1>3. CASE RunToCompletion
  BY <1>1, <1>2, <1>3 DEF EventLoopFree
<1>4. CASE "crash_in_handler" \notin Operations
  BY <1>1, <1>2, <1>4 DEF Tidied, TidyLeases, LaneWaits
<1> QED BY <1>3, <1>4

-----------------------------------------------------------------------------
(* Theorems about the breaker                                              *)

(* The maximum of an objective's policy limits its failures in a row.      *)
THEOREM FailuresLimited == ASSUME Careful PROVE Spec => []BreakerLimitsFailures
<1>1. Init => Limited
  <2> SUFFICES ASSUME Init, NEW o \in Objectives,
                      PolicyOf[o] # NoPolicy, PolicyOf[o].maxConsecutive # 0
               PROVE  /\ obj[o].consecutive <= PolicyOf[o].maxConsecutive
                      /\ obj[o].status = "reconciling" =>
                           obj[o].consecutive < PolicyOf[o].maxConsecutive
    BY DEF Limited, RowLimited
  <2>1. PolicyOf[o].maxConsecutive \in Nat
    BY PoliciesAssumption DEF AnyPolicy, Policy
  <2> QED BY <2>1 DEF Init, CreatedRow
<1>2. IndInv /\ Limited /\ [Next]_vars => Limited'
  BY LimitedStep
<1>3. Limited => BreakerLimitsFailures
  BY DEF Limited, RowLimited, BreakerLimitsFailures
<1> QED BY <1>1, <1>2, <1>3, Invariance, PTL DEF Spec

(* An objective that the gate would refuse as exhausted has been degraded. *)
THEOREM ExhaustedAreDegraded ==
  ASSUME Careful, DegradesInTime PROVE Spec => []ExhaustedIsDegraded
<1>1. Init => ExhaustedIsDegraded
  <2> SUFFICES ASSUME Init, NEW o \in Objectives
               PROVE  ~MaxFailuresReached(PolicyOf[o], obj[o].consecutive)
    BY DEF ExhaustedIsDegraded
  <2>1. PolicyOf[o] # NoPolicy => PolicyOf[o].maxConsecutive \in Nat
    BY PoliciesAssumption DEF AnyPolicy, Policy
  <2> QED BY <2>1 DEF Init, CreatedRow, MaxFailuresReached
<1>2. IndInv /\ ExhaustedIsDegraded /\ [Next]_vars => ExhaustedIsDegraded'
  BY ExhaustedStep
<1> QED BY <1>1, <1>2, Invariance, PTL DEF Spec

(* Degraded is left by the operator's reset alone.                         *)
THEOREM OnlyResetLeavesDegraded == ASSUME Careful PROVE Spec => DegradedNeedsOperator
<1>1. IndInv /\ [Next]_vars =>
        [\A o \in Objectives :
           obj[o].status = "degraded" /\ obj'[o].status # "degraded" => ManualReset(o)]_vars
  BY DegradedStays
<1> QED BY <1>1, Invariance, PTL DEF Spec, DegradedNeedsOperator

(* Only the execution that holds an objective's lease closes it.           *)
THEOREM ClosedByHolder == ASSUME Careful PROVE Spec => ClosedByItsExecution
<1>1. IndInv /\ [Next]_vars =>
        [\A o \in Objectives :
           obj[o].status = "reconciling" /\ obj'[o].status = "idle"
             => \E f \in flights \ flights' : f.objective = o /\ HoldsLease(f)]_vars
  BY HolderCloses
<1> QED BY <1>1, Invariance, PTL DEF Spec, ClosedByItsExecution

(* However evaluations overlap, an objective is admitted to one execution  *)
(* at a time, where the process runs admissions to completion or no crash  *)
(* cuts a handler short.                                                   *)
THEOREM OneFlight ==
  ASSUME Careful, RunToCompletion \/ "crash_in_handler" \notin Operations
  PROVE  Spec => SingleFlight
<1>1. Init => Tidied
  BY IdleLaneTyped DEF Init, Tidied, TidyLeases, RowTidy, LaneWaits, CreatedRow
<1>2. IndInv /\ Tidied /\ [Next]_vars => Tidied'
  BY TidyStep DEF Tidied
<1>3. IndInv /\ Tidied /\ [Next]_vars =>
        [\A o \in Objectives :
           obj'[o].generation # obj[o].generation =>
             /\ \A f \in flights : f.objective = o => ~HoldsLease(f)
             /\ \A e \in Evaluators :
                  ~(/\ lane[e].pc = "admitted" /\ lane[e].target = o
                    /\ lane[e].generation = obj[o].generation)]_vars
  BY AdmittedAlone
<1> QED BY <1>1, <1>2, <1>3, Invariance, PTL DEF Spec, SingleFlight

(* The loop implements the abstract circuit breaker where the default      *)
(* policy, which judges timeouts, has the objectives' own threshold.       *)
THEOREM LoopImplementsBreaker == ASSUME Careful, OneThreshold PROVE Spec => ImplementsBreaker
<1>1. Init => Breakers!Init
  BY InitIsAbstract
<1>2. IndInv /\ [Next]_vars => [Breakers!Next]_AsBreakers
  BY StepIsAbstract
<1>3. ImplementsBreaker <=> Breakers!Init /\ [][Breakers!Next]_AsBreakers
  BY DEF ImplementsBreaker, Breakers!Spec, AsBreakers, Abstract
<1> QED BY <1>1, <1>2, <1>3, Invariance, PTL DEF Spec
=============================================================================

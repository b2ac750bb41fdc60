--------------------- MODULE EndpointInstructionsProofs ---------------------
(***************************************************************************)
(* Why nothing is begun late.  The agent begins an instruction only when   *)
(* it reads a whole file, and the file of a caller who was answered or has *)
(* given up is gone for good: it was removed on the way out, and only a    *)
(* dispatch that has not ended writes one.                                 *)
(***************************************************************************)
EXTENDS EndpointInstructions, TLAPS

GivenUp == {"clearing", "answered", "timed_out"}

(* The callers who are past the removal of their instruction have none.    *)
Gone == \A i \in Instructions : caller[i] \in GivenUp => instruction[i] = "none"

InstructionInv == TypeOK /\ Gone

-----------------------------------------------------------------------------
(* Every variable has its type at the start.                               *)
LEMMA InitInv == Init => InstructionInv
<1>1. Init => TypeOK
  BY InstructionAssumption DEF Init, TypeOK, Listing, Callers, Awaiting
<1>2. Init => Gone
  BY DEF Init, Gone, GivenUp
<1> QED BY <1>1, <1>2 DEF InstructionInv

(* What the agent begins to read is a list that is not empty.              *)
LEMMA ListingTyped ==
  ASSUME NEW todo \in Listings
  PROVE  todo \in Seq(Instructions) /\ todo # <<>>
<1>1. PICK n \in 1..MaxConcurrent : todo \in [1..n -> Files]
  BY DEF Listings
<1>2. Files \subseteq Instructions
  BY DEF Files
<1>3. n \in Nat /\ n > 0
  BY <1>1, InstructionAssumption
<1>4. todo \in [1..n -> Instructions]
  BY <1>1, <1>2
<1>5. todo \in Seq(Instructions) /\ Len(todo) = n
  BY <1>3, <1>4
<1> QED BY <1>3, <1>5

(* The list that remains is well formed, and noticed when it is empty.     *)
LEMMA NextTyped ==
  ASSUME NEW todo \in Seq(Instructions)
  PROVE  /\ Next_(todo) \in [pc : {"listing", "reading"}, todo : Seq(Instructions),
                             says : {"none"}]
         /\ Next_(todo).todo = <<>> <=> Next_(todo).pc = "listing"
BY DEF Next_, Listing

-----------------------------------------------------------------------------
(* Each step of a caller keeps the types, and the removed files removed.   *)
LEMMA CallersKeep ==
  ASSUME InstructionInv, NEW i \in Instructions,
         Dispatch(i) \/ CallerStep(i) \/ GiveUp(i) \/ Cleanup(i)
  PROVE  InstructionInv'
<1> USE DEF InstructionInv, TypeOK, Callers, Awaiting, Moves, Records, Withdrawn
<1>1. CASE Dispatch(i)
  BY <1>1 DEF Dispatch, Gone, GivenUp
<1>2. CASE Written(i)
  BY <1>2 DEF Written, Gone, GivenUp
<1>3. CASE Poll(i)
  BY <1>3 DEF Poll, Gone, GivenUp
<1>4. CASE Withdraw(i)
  BY <1>4 DEF Withdraw, Gone, GivenUp
<1>5. CASE Clear(i)
  BY <1>5 DEF Clear, Gone, GivenUp
<1>6. CASE GiveUp(i)
  BY <1>6 DEF GiveUp, Gone, GivenUp
<1>7. CASE Cleanup(i)
  BY <1>7 DEF Cleanup, Gone, GivenUp
<1> QED BY <1>1, <1>2, <1>3, <1>4, <1>5, <1>6, <1>7 DEF CallerStep

(* The agent writes no instruction file, and neither does a crash.         *)
LEMMA AgentKeeps ==
  ASSUME InstructionInv, AgentStep \/ ViennaCrashes \/ AgentCrashes
  PROVE  InstructionInv'
<1> USE DEF InstructionInv, TypeOK, Callers, Awaiting
<1>1. CASE List
  <2>1. PICK todo \in Listings : agent' = [Listing EXCEPT !.pc = "reading", !.todo = todo]
    BY <1>1 DEF List
  <2>2. todo \in Seq(Instructions) /\ todo # <<>>
    BY <2>1, ListingTyped
  <2>3. agent' = [pc |-> "reading", todo |-> todo, says |-> "none"]
    BY <2>1 DEF Listing
  <2> QED BY <1>1, <2>2, <2>3 DEF List, Gone
<1>2. CASE Start
  BY <1>2 DEF Start, Gone
<1>3. CASE Unreadable
  BY <1>3 DEF Unreadable, Opens, Gone
<1>4. CASE Handled
  BY <1>4 DEF Handled, Opens, Gone
<1>5. CASE Answered
  <2>1. agent.todo \in Seq(Instructions) /\ agent.todo # <<>>
    BY <1>5 DEF Answered
  <2>2. Tail(agent.todo) \in Seq(Instructions)
    BY <2>1
  <2>3. agent' = Next_(Tail(agent.todo))
    BY <1>5 DEF Answered
  <2>4. /\ agent' \in [pc : {"listing", "reading"}, todo : Seq(Instructions), says : {"none"}]
        /\ agent'.todo = <<>> <=> agent'.pc = "listing"
    BY <2>2, <2>3, NextTyped
  <2>5. answer' \in [Instructions -> {"none", "torn", "result", "error"}]
    BY <1>5 DEF Answered
  <2> QED BY <1>5, <2>4, <2>5 DEF Answered, Gone
<1>6. CASE ViennaCrashes
  BY <1>6, InstructionAssumption DEF ViennaCrashes, Gone, GivenUp
<1>7. CASE AgentCrashes
  BY <1>7, InstructionAssumption DEF AgentCrashes, Listing, Gone
<1> QED BY <1>1, <1>2, <1>3, <1>4, <1>5, <1>6, <1>7 DEF AgentStep

LEMMA StepInv == InstructionInv /\ [Next]_vars => InstructionInv'
<1> SUFFICES ASSUME InstructionInv, [Next]_vars PROVE InstructionInv'
  OBVIOUS
<1>1. CASE \E i \in Instructions : Dispatch(i) \/ CallerStep(i) \/ GiveUp(i) \/ Cleanup(i)
  BY <1>1, CallersKeep
<1>2. CASE AgentStep \/ ViennaCrashes \/ AgentCrashes
  BY <1>2, AgentKeeps
<1>3. CASE UNCHANGED vars
  BY <1>3 DEF vars, InstructionInv, TypeOK, Gone
<1> QED BY <1>1, <1>2, <1>3 DEF Next

(* The inductive invariant holds throughout.                               *)
THEOREM Invariance == Spec => []InstructionInv
BY InitInv, StepInv, PTL DEF Spec

(* The files, the rows and what the agent holds of a listing keep their    *)
(* types, and it stops at the end of its list (instruction-queue.js:126).  *)
THEOREM Types == Spec => []TypeOK
BY Invariance, PTL DEF InstructionInv

-----------------------------------------------------------------------------
(* Handling begins at a whole file.                                        *)
LEMMA BeginsWhole ==
  ASSUME InstructionInv, [Next]_vars, NEW i \in Instructions,
         ~Handling(i), Handling(i)'
  PROVE  instruction[i] = "whole"
<1>1. CASE Start
  BY <1>1 DEF Start, Handling, InstructionInv, TypeOK
<1>2. CASE List
  BY <1>2 DEF List, Listing, Handling
<1>3. CASE Unreadable \/ Handled
  BY <1>3 DEF Unreadable, Handled, Opens, Handling, InstructionInv, TypeOK
<1>4. CASE Answered
  BY <1>4 DEF Answered, Next_, Listing, Handling
<1>5. CASE AgentCrashes
  BY <1>5 DEF AgentCrashes, Listing, Handling
<1>6. CASE UNCHANGED agent
  BY <1>6 DEF Handling
<1>7. ASSUME NEW j \in Instructions, Dispatch(j) \/ CallerStep(j) \/ GiveUp(j) \/ Cleanup(j)
      PROVE  UNCHANGED agent
  BY <1>7 DEF Dispatch, CallerStep, Written, Poll, Withdraw, Clear, GiveUp, Cleanup
<1>8. ViennaCrashes => UNCHANGED agent
  BY DEF ViennaCrashes
<1> QED BY <1>1, <1>2, <1>3, <1>4, <1>5, <1>6, <1>7, <1>8 DEF Next, AgentStep, vars

(* However old the list the agent goes by, it begins nothing for a caller  *)
(* who was answered or has given up (instruction-queue.js:81).             *)
THEOREM NothingLate == Spec => NoLateStart
<1>1. ASSUME InstructionInv, [Next]_vars
      PROVE  [\A i \in Instructions :
                caller[i] \in {"clearing", "answered", "timed_out"}
                  => Handling(i) \/ ~Handling(i)']_vars
  BY <1>1, BeginsWhole DEF InstructionInv, Gone, GivenUp
<1> QED BY <1>1, Invariance, PTL DEF Spec, NoLateStart
=============================================================================

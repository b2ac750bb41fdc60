------------------------ MODULE EndpointInstructions ------------------------
(***************************************************************************)
(* Instructions to the OpenClaw agent: core/openclaw-bridge.js, the        *)
(* dispatch of core/endpoint-manager.js, and the directory of files of     *)
(* core/instruction-queue.js that both processes share.                    *)
(*                                                                         *)
(* Vienna writes an instruction file and polls for the result file of the  *)
(* same name; the agent lists the instructions, handles the first of them  *)
(* and writes their results.  Neither locks anything: writeFileSync        *)
(* empties a file before it fills it, and the other process may look in    *)
(* between.  What one process does without a wait is still several steps   *)
(* here, one for each access to a file that the other can tell apart.      *)
(*                                                                         *)
(* The agent never takes an instruction away: it handles what it finds     *)
(* until the caller removes it.  Left out: errors of the disk and of the   *)
(* database, the health of endpoints (recorded, and looked at by nobody),  *)
(* the agent's stopping.                                                   *)
(***************************************************************************)
EXTENDS Integers, Sequences, FiniteSets

CONSTANTS
  Instructions,   \* the instruction_ids, in the order of their file names
  MaxConcurrent,  \* how many files of a listing the agent takes
  MaxCrashes      \* how often a process may crash

ASSUME InstructionAssumption ==
  /\ Instructions \subseteq Nat /\ IsFiniteSet(Instructions)
  /\ MaxConcurrent \in Nat \ {0}
  /\ MaxCrashes \in Nat

VARIABLES
  caller,       \* dispatchInstruction for each instruction
  row,          \* status in endpoint_instructions
  instruction,  \* the instruction file
  answer,       \* the result file
  agent,        \* processInstructions
  crashes       \* how often a process has crashed

vars == <<caller, row, instruction, answer, agent, crashes>>

(* Where a dispatch that has not ended waits or accesses a file.           *)
Awaiting == {"writing", "polling", "withdrawing", "clearing"}

Callers == Awaiting \cup {"unsent", "answered", "timed_out", "misread", "lost"}

Listing == [pc |-> "listing", todo |-> <<>>, says |-> "none"]

Init ==
  /\ caller = [i \in Instructions |-> "unsent"]
  /\ row = [i \in Instructions |-> "none"]
  /\ instruction = [i \in Instructions |-> "none"]
  /\ answer = [i \in Instructions |-> "none"]
  /\ agent = Listing
  /\ crashes = 0
-----------------------------------------------------------------------------
(***************************************************************************)
(* Vienna.                                                                 *)
(***************************************************************************)
Moves(i, to) == caller' = [caller EXCEPT ![i] = to]

Records(i, status) == row' = [row EXCEPT ![i] = status]

Withdrawn(i) == instruction' = [instruction EXCEPT ![i] = "none"]

(* The instruction is recorded and its file is opened.                     *)
Dispatch(i) ==
  /\ caller[i] = "unsent"
  /\ Records(i, "pending")
  /\ instruction' = [instruction EXCEPT ![i] = "torn"]
  /\ Moves(i, "writing")
  /\ UNCHANGED <<answer, agent, crashes>>

Written(i) ==
  /\ caller[i] = "writing"
  /\ instruction' = [instruction EXCEPT ![i] = "whole"]
  /\ Moves(i, "polling")
  /\ UNCHANGED <<row, answer, agent, crashes>>

(* A result file is found.  A half-written one does not parse: the caller  *)
(* is told of a failure and both files stay.                               *)
Poll(i) ==
  /\ caller[i] = "polling"
  /\ \/ answer[i] \in {"result", "error"} /\ Moves(i, "withdrawing") /\ UNCHANGED row
     \/ answer[i] = "torn" /\ Moves(i, "misread") /\ Records(i, "failure")
  /\ UNCHANGED <<instruction, answer, agent, crashes>>

(* Mutant: only the result file is removed.                                *)
WithdrawNothing(i) ==
  /\ caller[i] = "withdrawing"
  /\ Moves(i, "clearing")
  /\ UNCHANGED <<row, instruction, answer, agent, crashes>>

Withdraw(i) ==
  /\ caller[i] = "withdrawing"
  /\ Withdrawn(i)
  /\ Moves(i, "clearing")
  /\ UNCHANGED <<row, answer, agent, crashes>>

(* Whatever the answer says, it is recorded as a success.                  *)
Clear(i) ==
  /\ caller[i] = "clearing"
  /\ answer' = [answer EXCEPT ![i] = "none"]
  /\ Records(i, "success")
  /\ Moves(i, "answered")
  /\ UNCHANGED <<instruction, agent, crashes>>

(* Mutant: the file of an instruction that timed out is left to the agent. *)
GiveUpOnly(i) ==
  /\ caller[i] = "polling"
  /\ Records(i, "failure")
  /\ Moves(i, "timed_out")
  /\ UNCHANGED <<instruction, answer, agent, crashes>>

(* The time is over when the caller wakes, whether or not a result has     *)
(* come since its last poll.                                               *)
GiveUp(i) ==
  /\ caller[i] = "polling"
  /\ Withdrawn(i)
  /\ Records(i, "failure")
  /\ Moves(i, "timed_out")
  /\ UNCHANGED <<answer, agent, crashes>>

(* The files and the rows stay as they are.                                *)
ViennaCrashes ==
  /\ crashes < MaxCrashes /\ crashes' = crashes + 1
  /\ caller' = [i \in Instructions |-> IF caller[i] \in Awaiting THEN "lost" ELSE caller[i]]
  /\ UNCHANGED <<row, instruction, answer, agent>>

(* cleanup, by whoever calls it, removes the files of dispatches that have *)
(* long ended; the result is the younger of two files.                     *)
Cleanup(i) ==
  /\ caller[i] \notin Awaiting
  /\ instruction[i] # "none" \/ answer[i] # "none"
  /\ Withdrawn(i)
  /\ \E left \in {"none", answer[i]} : answer' = [answer EXCEPT ![i] = left]
  /\ UNCHANGED <<caller, row, agent, crashes>>
-----------------------------------------------------------------------------
(***************************************************************************)
(* The agent.                                                              *)
(***************************************************************************)
Files == {i \in Instructions : instruction[i] # "none"}

(* The first files of the directory, in its order.                         *)
IsListing(todo) ==
  /\ Len(todo) = IF Cardinality(Files) < MaxConcurrent THEN Cardinality(Files) ELSE MaxConcurrent
  /\ \A k \in DOMAIN todo :
       todo[k] \in Files /\ Cardinality({i \in Files : i < todo[k]}) = k - 1

Listings == UNION {[1..n -> Files] : n \in 1..MaxConcurrent}

List ==
  /\ agent.pc = "listing" /\ Files # {}
  /\ \E todo \in Listings :
       IsListing(todo) /\ agent' = [Listing EXCEPT !.pc = "reading", !.todo = todo]
  /\ UNCHANGED <<caller, row, instruction, answer, crashes>>

(* An instruction that can be read is handled, though the list may be old; *)
(* handling begins with the reading.                                       *)
Start ==
  LET i == Head(agent.todo) IN
  /\ agent.pc = "reading"
  /\ instruction[i] = "whole"
  /\ agent' = [agent EXCEPT !.pc = "handling"]
  /\ UNCHANGED <<caller, row, instruction, answer, crashes>>

(* The result file is opened.                                              *)
Opens(i, says) ==
  /\ answer' = [answer EXCEPT ![i] = "torn"]
  /\ agent' = [agent EXCEPT !.pc = "writing", !.says = says]
  /\ UNCHANGED <<caller, row, instruction, crashes>>

(* One that is half-written, or gone by now, gets an error for a result.   *)
Unreadable ==
  /\ agent.pc = "reading"
  /\ instruction[Head(agent.todo)] # "whole"
  /\ Opens(Head(agent.todo), "error")

(* The handler returns, or throws.                                         *)
Handled ==
  /\ agent.pc = "handling"
  /\ \E says \in {"result", "error"} : Opens(Head(agent.todo), says)

(* Mutant: the end of the list is noticed one file late.                   *)
NextWithoutEnd(todo) == [Listing EXCEPT !.pc = "reading", !.todo = todo]

Next_(todo) ==
  IF todo = <<>> THEN Listing ELSE [Listing EXCEPT !.pc = "reading", !.todo = todo]

(* A file that was removed meanwhile stays so.                             *)
Answered ==
  LET i == Head(agent.todo) IN
  /\ agent.pc = "writing"
  /\ answer' = [answer EXCEPT ![i] = IF @ = "none" THEN @ ELSE agent.says]
  /\ agent' = Next_(Tail(agent.todo))
  /\ UNCHANGED <<caller, row, instruction, crashes>>

AgentCrashes ==
  /\ crashes < MaxCrashes /\ crashes' = crashes + 1
  /\ agent' = Listing
  /\ UNCHANGED <<caller, row, instruction, answer>>
-----------------------------------------------------------------------------
AgentStep == List \/ Start \/ Unreadable \/ Handled \/ Answered

CallerStep(i) == Written(i) \/ Poll(i) \/ Withdraw(i) \/ Clear(i)

Next ==
  \/ \E i \in Instructions : Dispatch(i) \/ CallerStep(i) \/ GiveUp(i) \/ Cleanup(i)
  \/ AgentStep
  \/ ViennaCrashes \/ AgentCrashes

Spec == Init /\ [][Next]_vars

(* Both processes run, callers poll and handlers end.  Nothing is assumed  *)
(* of cleanup, which no code calls, nor of the callers' patience.          *)
Fairness == WF_vars(AgentStep) /\ \A i \in Instructions : WF_vars(CallerStep(i))

FairSpec == Spec /\ Fairness
-----------------------------------------------------------------------------
TypeOK ==
  /\ caller \in [Instructions -> Callers]
  /\ row \in [Instructions -> {"none", "pending", "success", "failure"}]
  /\ instruction \in [Instructions -> {"none", "torn", "whole"}]
  /\ answer \in [Instructions -> {"none", "torn", "result", "error"}]
  /\ agent \in [pc : {"listing", "reading", "handling", "writing"},
                todo : Seq(Instructions), says : {"none", "result", "error"}]
  /\ agent.todo = <<>> <=> agent.pc = "listing"
  /\ crashes \in 0..MaxCrashes

Handling(i) == agent.pc = "handling" /\ Head(agent.todo) = i

(* Whatever old list the agent goes by, it starts nothing for a caller who *)
(* has been answered, or has reported that the instruction timed out       *)
(* (instruction-queue.js:81).                                              *)
NoLateStart ==
  [][\A i \in Instructions :
       caller[i] \in {"clearing", "answered", "timed_out"} => Handling(i) \/ ~Handling(i)']_vars

(* Instructions that nobody awaits any more and nobody has removed, since  *)
(* their process died or met a half-written result.                        *)
Abandoned == {i \in Files : caller[i] \in {"lost", "misread"}}

(* An instruction is handled while it is awaited, however late it comes in *)
(* the order of the directory, unless as many abandoned ones come before   *)
(* it as the agent takes of a listing (instruction-queue.js:117).  There   *)
(* are finitely many instructions, so none is overtaken for ever.          *)
Served ==
  \A i \in Instructions :
    caller[i] = "polling" ~>
      \/ caller[i] # "polling" \/ Handling(i)
      \/ Cardinality({j \in Abandoned : j < i}) >= MaxConcurrent
=============================================================================

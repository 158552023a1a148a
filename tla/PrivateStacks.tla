--------------------------- MODULE PrivateStacks ---------------------------
(***************************************************************************)
(* What the VM's one evaluation stack is meant to be to the functions that *)
(* run on it: an operand stack of its own for each of them, which nobody   *)
(* else touches.  A call takes its arguments off the caller's stack and    *)
(* starts on an empty one, a return puts one value on the caller's, and a  *)
(* handler that returns leaves nothing behind.  One that throws may leave  *)
(* operands in the machine; no function ever sees them, and nothing takes  *)
(* them away.                                                              *)
(***************************************************************************)
EXTENDS Naturals, SequencesExt

VARIABLES
  stacks,   \* the operand stack of each function that runs, the handler's first
  left      \* what handlers have left behind by throwing

privateStacksVars == <<stacks, left>>

PrivateStacksInit == stacks = <<>> /\ left = <<>>

Current == Last(stacks)

\* The stacks of the callers are as they were.
CallersKept == Front(stacks') = Front(stacks)

-----------------------------------------------------------------------------
Begin == stacks = <<>> /\ stacks' = << <<>> >> /\ UNCHANGED left

\* An instruction works on the running function's stack.
Work ==
  /\ stacks # <<>>
  /\ Len(stacks') = Len(stacks) /\ CallersKept
  /\ UNCHANGED left

CallFunction ==
  /\ stacks # <<>>
  /\ \E n \in 0..Len(Current) :
       stacks' = Append([stacks EXCEPT ![Len(stacks)] = SubSeq(@, 1, n)], <<>>)
  /\ UNCHANGED left

Return ==
  /\ Len(stacks) > 1
  /\ Len(stacks') = Len(stacks) - 1
  /\ LET caller == Last(Front(stacks)) IN
     Front(stacks') = Front(Front(stacks)) /\ Front(Last(stacks')) = caller
  /\ UNCHANGED left

\* The handler returns.
Finish == Len(stacks) = 1 /\ stacks' = <<>> /\ UNCHANGED left

Throw == stacks # <<>> /\ stacks' = <<>> /\ IsPrefix(left, left')

PrivateStacksNext == Begin \/ Work \/ CallFunction \/ Return \/ Finish \/ Throw

PrivateStacksSpec == PrivateStacksInit /\ [][PrivateStacksNext]_privateStacksVars
=============================================================================

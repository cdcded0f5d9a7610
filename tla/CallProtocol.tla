---------------------------- MODULE CallProtocol ----------------------------
(***************************************************************************)
(* What calling a foreign function from PHP promises, whatever memory it   *)
(* takes.  The calls under way are nested, because a foreign function may  *)
(* call back into PHP and PHP may call a foreign function from there.  A   *)
(* call runs its foreign function at most once, and only when its          *)
(* arguments and its pre-conditions are good; the caller's variables are   *)
(* written only when the post-conditions hold as well; and a call that     *)
(* does not get that far throws.                                           *)
(***************************************************************************)
EXTENDS Naturals, Sequences

CONSTANT MaxDepth   \* how deep calls are nested, a natural number

VARIABLES
  stages,   \* the calls under way, the innermost last
  thrown    \* an exception is on its way through PHP

vars == <<stages, thrown>>

Stage == {"asked", "running", "callback", "judged", "good", "done", "bad"}

Init == stages = <<>> /\ thrown = FALSE

Innermost(stage) == stages # <<>> /\ stages[Len(stages)] = stage
InPHP == stages = <<>> \/ Innermost("callback")
Turn(from, to) ==
  /\ Innermost(from)
  /\ stages' = [stages EXCEPT ![Len(stages)] = to]

Ask ==
  /\ InPHP /\ ~thrown /\ Len(stages) < MaxDepth
  /\ stages' = Append(stages, "asked") /\ UNCHANGED thrown

Refuse == Turn("asked", "bad") /\ thrown' = TRUE
Run == Turn("asked", "running") /\ UNCHANGED thrown

(* PHP is not entered with an exception on its way.                        *)
CallBack == Turn("running", "callback") /\ ~thrown /\ UNCHANGED thrown
Answer == Turn("callback", "running") /\ thrown' \in {thrown, TRUE}
Catch == InPHP /\ thrown /\ thrown' = FALSE /\ UNCHANGED stages

Finish == Turn("running", "judged") /\ UNCHANGED thrown
Condemn == Turn("judged", "bad") /\ thrown' = TRUE
Approve == Turn("judged", "good") /\ UNCHANGED thrown
Write == Turn("good", "done") /\ UNCHANGED thrown

Leave ==
  /\ Innermost("done") \/ (Innermost("bad") /\ thrown)
  /\ stages' = SubSeq(stages, 1, Len(stages) - 1) /\ UNCHANGED thrown

Next ==
  \/ Ask \/ Refuse \/ Run \/ CallBack \/ Answer \/ Catch
  \/ Finish \/ Condemn \/ Approve \/ Write \/ Leave

Spec == Init /\ [][Next]_vars

(* The calls under way and their stages.                                   *)
TypeOK == stages \in Seq(Stage) /\ Len(stages) <= MaxDepth /\ thrown \in BOOLEAN

=============================================================================

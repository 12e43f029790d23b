----------------------------- MODULE AtMostOnce -----------------------------
(***************************************************************************)
(* What an Idempotency-Key promises (common/decorators/                    *)
(* idempotent.decorator.ts): what a client means to do once is done at     *)
(* most once however often it is sent, and a client told of success was    *)
(* told the truth.                                                         *)
(***************************************************************************)
EXTENDS Naturals

CONSTANT Intents   \* what clients mean to do

VARIABLES
  performed,   \* how often the effects of an intent were committed
  told         \* the intents whose clients have an answer of success

Init ==
  /\ performed = [i \in Intents |-> 0]
  /\ told = {}

Perform(i) ==
  /\ performed[i] = 0
  /\ performed' = [performed EXCEPT ![i] = 1]
  /\ UNCHANGED told

Tell(i) ==
  /\ performed[i] = 1
  /\ told' = told \cup {i}
  /\ UNCHANGED performed

Next == \E i \in Intents : Perform(i) \/ Tell(i)

Spec == Init /\ [][Next]_<<performed, told>>
=============================================================================

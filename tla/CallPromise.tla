----------------------------- MODULE CallPromise -----------------------------
(***************************************************************************)
(* What a caller of a handler that changes something at an exchange may    *)
(* count on, whatever is lost on the way: the call acts at most once; who  *)
(* is told it did, is told the truth; and who is told it did not, may send *)
(* the request again, because it never will. Nothing is promised to a      *)
(* caller who is told neither.                                             *)
(***************************************************************************)
EXTENDS Naturals

CONSTANT Calls

VARIABLES acts,  \* per call: how often it acted at the exchange
          told   \* per call: what its caller was told

vars == <<acts, told>>

Told == {"nothing", "done", "not done", "unsure"}

Init == /\ acts = [c \in Calls |-> 0]
        /\ told = [c \in Calls |-> "nothing"]

\* What may become of one call in a step. It acts, unless it has acted or its
\* caller was told that it did not.
Act(c) == acts[c] = 0 /\ acts'[c] = 1

\* Its caller is told, once.
Tell(c) == told[c] = "nothing" /\ told'[c] \in Told

\* Either, both or neither, and what was told is and stays true.
Step(c) ==
    /\ Act(c) \/ acts'[c] = acts[c]
    /\ Tell(c) \/ told'[c] = told[c]
    /\ told'[c] = "done" => acts'[c] = 1
    /\ told'[c] = "not done" => acts'[c] = 0

\* A step may be one of several calls, as when the process ends.
Next == /\ acts' \in [Calls -> 0..1] /\ told' \in [Calls -> Told]
        /\ \A c \in Calls : Step(c)

Spec == Init /\ [][Next]_vars

=============================================================================

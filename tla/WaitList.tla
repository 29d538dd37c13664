------------------------------- MODULE WaitList -------------------------------
(***************************************************************************)
(* What a list of packets that wait for an answer (asynwait.h:20-24,       *)
(* feiqengine.h:79) promises about each text: it comes to one end and that *)
(* end is final.  An answer ends the wait, or the timeout does, whichever  *)
(* is first; only a wait that timed out is reported to the user, and once. *)
(* Two ends are weaker than the promise: "swept" is the end of a text that *)
(* an answer to another one took off the list, and "lost" the end of a     *)
(* report that nobody gets, since the address is unknown or the queue is   *)
(* stopped.                                                                *)
(***************************************************************************)
CONSTANT Msgs

VARIABLE fate               \* of each text

Fates == {"unsent", "waiting", "answered", "swept", "due", "reported", "lost", "told"}

Are(v) == {m \in Msgs : fate[m] = v}

\* The texts S come to v, the others stay.
Become(S, v) == [m \in Msgs |-> IF m \in S THEN v ELSE fate[m]]

Init == fate = [m \in Msgs |-> "unsent"]

Wait(m) == /\ m \in Are("unsent")
           /\ fate' = Become({m}, "waiting")

\* The answer to m, whose own wait may be over, and the texts it sweeps away.
Answer(m) == \E S \in SUBSET (Are("waiting") \ {m}) :
               fate' = [n \in Msgs |-> IF n \in S THEN "swept"
                                       ELSE IF n = m /\ fate[m] = "waiting" THEN "answered"
                                       ELSE fate[n]]

Expire == \E S \in SUBSET Are("waiting") : fate' = Become(S, "due")

Report(m) == /\ m \in Are("due")
             /\ fate' = Become({m}, "reported")

Tell(m) == /\ m \in Are("reported")
           /\ fate' = Become({m}, "told")

Lose == \E S \in SUBSET (Are("due") \cup Are("reported")) : fate' = Become(S, "lost")

Next == \/ \E m \in Msgs : Wait(m) \/ Answer(m) \/ Report(m) \/ Tell(m)
        \/ Expire \/ Lose

Spec == Init /\ [][Next]_fate
=============================================================================

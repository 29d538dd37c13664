---------------------------- MODULE PostProcessMC ----------------------------
(***************************************************************************)
(* Small values for PostProcess: a network of 64 by 64, frames that leave  *)
(* bars above, at the sides and nowhere, and four cells: three of the      *)
(* first tensor in a row, whose boxes overlap their neighbours enough but  *)
(* not the next but one, and one of the second tensor.                     *)
(***************************************************************************)
EXTENDS PostProcess

SomeSizes == {<<96, 54>>, <<20, 64>>, <<7, 50>>, <<64, 64>>}
SmallModel == <<64, 64>>
SomeCells == << [t |-> 1, a |-> 1, i |-> 2, j |-> 2],
                [t |-> 1, a |-> 1, i |-> 2, j |-> 3],
                [t |-> 1, a |-> 1, i |-> 2, j |-> 4],
                [t |-> 2, a |-> 1, i |-> 1, j |-> 1] >>
\* Confidences at and above the threshold, two classes; the third output is not confident.
SomeOutputs == [x : {-2}, y : {-2}, w : {-1}, h : {-1}, conf : {-2, -1},
                probs : {<<-1, -1>>, <<-2, 0>>, <<-2, -2>>}]
SomeZps == <<-3, -3, -3>>
SomeDens == <<2, 1, 2>>
SomeAnchors == << << <<10, 13>> >>, << <<30, 61>> >>, << <<116, 90>> >> >>
Quarter == <<1, 4>>
NineTwentieths == <<9, 20>>
=============================================================================

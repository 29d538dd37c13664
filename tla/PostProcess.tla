----------------------------- MODULE PostProcess -----------------------------
(***************************************************************************)
(* From a frame to the boxes drawn on it: the geometry of preprocessing    *)
(* (src/npu/RgaPreprocessor.cpp: computeLetterbox) and what postprocess.cpp *)
(* makes of the network's output: decoding, sorting, non-maximum           *)
(* suppression and the way back to the frame's coordinates.                *)
(*                                                                         *)
(* The network is external: its output is any choice of values for a few   *)
(* cells of the grids, the other cells are not confident.  Floats are      *)
(* exact: a tensor's scale is one over Dens[t], and lengths are integers   *)
(* in units of which Unit make one pixel of the model.  The loops over     *)
(* cells and boxes, which change arrays in place, are gone through step by *)
(* step.                                                                   *)
(***************************************************************************)
EXTENDS Integers, Sequences, SequencesExt, FiniteSetsExt

CONSTANTS FrameSizes,       \* set of <<width, height>>
          ModelSize,        \* <<width, height>> of the network's input
          Cells,            \* cells that may be confident, in the order of the scan
          Outputs,          \* what the network may say in one of them
          Zps, Dens,        \* zero point and inverse scale of each tensor
          Common,           \* a multiple of Dens
          Anchors,          \* kAnchor0 to kAnchor2, a <<width, height>> per anchor
          ConfThreshold, NmsThreshold,      \* BOX_THRESH, NMS_THRESH: <<num, den>>
          MaxResults                        \* OBJ_NUMB_MAX_SIZE

Int8 == -128..127
Sizes == (Nat \ {0}) \X (Nat \ {0})

ASSUME PostProcessAssumption ==
  /\ FrameSizes \subseteq Sizes /\ ModelSize \in Sizes
  /\ Cells \in Seq([t : 1..3, a : 1..3, i : Nat, j : Nat])
  /\ \A k \in DOMAIN Cells : Anchors[Cells[k].t][Cells[k].a] \in Sizes
  /\ \A o \in Outputs : /\ {o.x, o.y, o.w, o.h, o.conf} \subseteq Int8
                        /\ o.probs \in Seq(Int8) \ {<<>>}
  /\ Common \in Nat \ {0}
  /\ ConfThreshold \in Sizes /\ NmsThreshold \in Sizes /\ MaxResults \in Nat \ {0}
  /\ \A t \in 1..3 : Dens[t] \in Nat \ {0} /\ Common % Dens[t] = 0 /\ Zps[t] \in Int8

VARIABLES stage,        \* the step of the calculation
          frame,        \* size of the frame
          letterbox,    \* LetterboxTransform, one record per axis
          output,       \* the confident cells: Outputs by cell
          boxes,        \* filter_boxes, object_probs and class_ids as decoded
          ranked,       \* object_probs and index_array
          calls,        \* <<left, right>> of the calls of the sort to come, the next one first
          part,         \* parameters and variables of the call being made
          gone,         \* positions of ranked with index_array[i] = -1
          classes,      \* classes that are still to be suppressed
          pos,          \* i of the loop being run
          results       \* group

sortVars == <<calls, part>>
nmsVars == <<gone, classes>>
vars == <<stage, frame, letterbox, output, boxes, ranked, sortVars, nmsVars, pos, results>>
-----------------------------------------------------------------------------
(* The letterbox, per axis: scale, padding and size of the content. *)

Less(p, q) == p[1] * q[2] < q[1] * p[2]
Rounded(p) == (2 * p[1] + p[2]) \div (2 * p[2])     \* std::round of a positive number

Scale(size) == LET sw == <<ModelSize[1], size[1]>>
                   sh == <<ModelSize[2], size[2]>>
               IN  IF Less(sh, sw) THEN sh ELSE sw

\* computeLetterbox (378-404): only the left padding is aligned.
ComputeLetterbox(size) ==
  LET scale == Scale(size)
      content(a) == Min({Max({1, Rounded(<<size[a] * scale[1], scale[2]>>)}), ModelSize[a]})
      raw(a) == (ModelSize[a] - content(a)) \div 2
  IN  << [scale |-> scale, content |-> content(1), pad |-> (raw(1) \div 16) * 16],
         [scale |-> scale, content |-> content(2), pad |-> raw(2)] >>

\* YoloV5Runner::infer (363-367) stretches the frame.
Stretched(size) == [a \in 1..2 |-> [scale |-> <<ModelSize[a], size[a]>>, content |-> ModelSize[a], pad |-> 0]]

(* Where the frame's coordinate u comes to lie: the content is resized and copied to
   the padding (processWithCpu 165-197, processWithRga 199-242).  In units of which
   frame[a] make one pixel of the model. *)
Placed(u, a) == letterbox[a].pad * frame[a] + u * letterbox[a].content

\* clamp_int (29-31) and convertCoord (293-307) of v, of which unit make one pixel of the
\* model: the transform is always valid.
PadForgotten(v, unit, a) == v                           \* slip: no padding
Unpadded(v, unit, a) == v - letterbox[a].pad * unit
Scaled(v, unit, a) == LET s == letterbox[a].scale
                      IN  (Unpadded(v, unit, a) * s[2]) \div (unit * s[1])
ConvertCoord(v, unit, a) == Max({0, Min({Scaled(v, unit, a), frame[a]})})
-----------------------------------------------------------------------------
(* Decoding: process_tensor (127-188). *)

Truncated(n, d) == IF n >= 0 THEN n \div d ELSE -((-n) \div d)
\* quantize_to_affine (118-121)
Quantized(t) == Max({-128, Min({127, Truncated(ConfThreshold[1] * Dens[t] + Zps[t] * ConfThreshold[2],
                                               ConfThreshold[2])})})
Dequantized(t, v) == v - Zps[t]                         \* in units of 1/Dens[t]

\* The first of the most probable classes (161-168).
BestClass(probs) == CHOOSE k \in DOMAIN probs : \A l \in DOMAIN probs :
                      probs[l] < probs[k] \/ (probs[l] = probs[k] /\ k <= l)

Stride == <<8, 16, 32>>
Unit == 2 * Common * Common
Decoded(c, o) ==
  LET ratio == Common \div Dens[c.t]
      centre(v, at) == Stride[c.t] * (4 * Dequantized(c.t, v) * Common * ratio
                                      - Common * Common + 2 * at * Common * Common)
      extent(v, a) == 8 * Dequantized(c.t, v) * Dequantized(c.t, v) * ratio * ratio * Anchors[c.t][c.a][a]
      best == BestClass(o.probs)
  IN  [left |-> centre(o.x, c.j) - extent(o.w, 1) \div 2, width |-> extent(o.w, 1),
       top |-> centre(o.y, c.i) - extent(o.h, 2) \div 2, height |-> extent(o.h, 2),
       class |-> best,
       score |-> Dequantized(c.t, o.probs[best]) * Dequantized(c.t, o.conf) * ratio * ratio]

\* The confidence may equal the threshold, the class has to be above it (147, 171).
Confident(c, o) == /\ o.conf >= Quantized(c.t)
                   /\ o.probs[BestClass(o.probs)] > Quantized(c.t)
-----------------------------------------------------------------------------
(* Suppression: calculate_overlap (33-47) and non_max_suppression (49-83). *)

\* Of two intervals with both ends in them: hence one pixel more.
Shared(lo1, len1, lo2, len2) ==
  Max({0, Min({lo1 + len1, lo2 + len2}) - Max({lo1, lo2}) + Unit})
Area(b) == (b.width + Unit) * (b.height + Unit)
Overlap(b, c) == LET inter == Shared(b.left, b.width, c.left, c.width)
                              * Shared(b.top, b.height, c.top, c.height)
                 IN  inter * NmsThreshold[2] > (Area(b) + Area(c) - inter) * NmsThreshold[1]

Ranks == DOMAIN ranked
BoxAt(i) == boxes[ranked[i].index]
Overlapping(i, j) == Overlap(BoxAt(i), BoxAt(j))

\* class_ids[i] (56, 62): of the box decoded as number i, not of the one ranked there.
SlotClass(i) == boxes[i].class

ActsAlways(i, out) == TRUE                              \* slip: order[i] == -1 is not asked
Acts(i, out) == i \notin out
SuppressedBy(out, i, cls) ==
  IF Acts(i, out) /\ SlotClass(i) = cls
  THEN out \cup {j \in Ranks : j > i /\ SlotClass(j) = cls /\ Overlapping(i, j)}
  ELSE out
-----------------------------------------------------------------------------
Entry == [score : Int, index : Nat]
NoEntry == [score |-> 0, index |-> 0]

Init == /\ stage = "preprocess" /\ frame \in FrameSizes
        /\ letterbox = Stretched(frame)
        /\ output \in UNION {[chosen -> Outputs] : chosen \in SUBSET (DOMAIN Cells)}
        /\ boxes = <<>> /\ ranked = <<>> /\ results = <<>>
        /\ calls = <<>> /\ part = [left |-> 0, right |-> 0, low |-> 0, high |-> 0, key |-> NoEntry]
        /\ gone = {} /\ classes = {} /\ pos = 1

\* processBgr, processNv12 with and without the RGA; or infer, without either.
Preprocess == /\ stage = "preprocess"
              /\ letterbox' \in {ComputeLetterbox(frame), Stretched(frame)}
              /\ stage' = "decode"
              /\ UNCHANGED <<frame, output, boxes, ranked, sortVars, nmsVars, pos, results>>

\* One cell of process_tensor.
Scan == /\ stage = "decode" /\ pos <= Len(Cells)
        /\ boxes' = IF pos \in DOMAIN output /\ Confident(Cells[pos], output[pos])
                    THEN Append(boxes, Decoded(Cells[pos], output[pos]))
                    ELSE boxes
        /\ pos' = pos + 1
        /\ UNCHANGED <<stage, frame, letterbox, output, ranked, sortVars, nmsVars, results>>

\* 266-277
Ready == /\ stage = "decode" /\ pos > Len(Cells)
         /\ IF boxes = <<>>
            THEN stage' = "done" /\ UNCHANGED <<ranked, calls>>
            ELSE /\ ranked' = [n \in DOMAIN boxes |-> [score |-> boxes[n].score, index |-> n]]
                 /\ calls' = << <<1, Len(boxes)>> >>
                 /\ stage' = "sort"
         /\ UNCHANGED <<frame, letterbox, output, boxes, part, nmsVars, pos, results>>

(* quick_sort_indices_inverse (85-112), on scores and indices together: the place of the
   key is free and wanders between low and high. *)
Call == /\ stage = "sort" /\ calls # <<>>
        /\ LET left == Head(calls)[1]
               right == Head(calls)[2]
           IN  IF left < right
               THEN /\ part' = [left |-> left, right |-> right, low |-> left, high |-> right,
                                key |-> ranked[left]]
                    /\ stage' = "down"
               ELSE UNCHANGED <<stage, part>>
        /\ calls' = Tail(calls)
        /\ UNCHANGED <<frame, letterbox, output, boxes, ranked, nmsVars, pos, results>>

ScoreOnly(to, from) == [ranked EXCEPT ![to].score = ranked[from].score]    \* slip: the index stays
Moved(to, from) == [ranked EXCEPT ![to] = ranked[from]]

Sorting == UNCHANGED <<frame, letterbox, output, boxes, calls, nmsVars, pos, results>>

\* 95-99
Down == /\ stage = "down" /\ part.low < part.high
        /\ \E h \in part.low..part.high :
             /\ \A k \in (h + 1)..part.high : ranked[k].score <= part.key.score
             /\ h = part.low \/ ranked[h].score > part.key.score
             /\ ranked' = Moved(part.low, h)
             /\ part' = [part EXCEPT !.high = h]
        /\ stage' = "up"
        /\ Sorting

\* 100-104
Up == /\ stage = "up"
      /\ \E l \in part.low..part.high :
           /\ \A k \in part.low..(l - 1) : ranked[k].score >= part.key.score
           /\ l = part.high \/ ranked[l].score < part.key.score
           /\ ranked' = Moved(part.high, l)
           /\ part' = [part EXCEPT !.low = l]
      /\ stage' = "down"
      /\ Sorting

\* 106-109
Place == /\ stage = "down" /\ part.low >= part.high
         /\ ranked' = [ranked EXCEPT ![part.low] = part.key]
         /\ calls' = << <<part.left, part.low - 1>>, <<part.low + 1, part.right>> >> \o calls
         /\ stage' = "sort"
         /\ UNCHANGED <<frame, letterbox, output, boxes, part, nmsVars, pos, results>>

\* 279
Sorted == /\ stage = "sort" /\ calls = <<>>
          /\ classes' = {boxes[n].class : n \in DOMAIN boxes}
          /\ pos' = 1
          /\ stage' = "suppress"
          /\ UNCHANGED <<frame, letterbox, output, boxes, ranked, sortVars, gone, results>>

\* One i of non_max_suppression, for the least class left: class_set is in ascending order.
Suppress == /\ stage = "suppress" /\ pos <= Len(ranked)
            /\ gone' = SuppressedBy(gone, pos, Min(classes))
            /\ pos' = pos + 1
            /\ UNCHANGED <<stage, frame, letterbox, output, boxes, ranked, sortVars, classes, results>>

\* 280-282
NextClass == /\ stage = "suppress" /\ pos > Len(ranked)
             /\ classes' = classes \ {Min(classes)}
             /\ pos' = 1
             /\ stage' = IF classes' = {} THEN "collect" ELSE "suppress"
             /\ UNCHANGED <<frame, letterbox, output, boxes, ranked, sortVars, gone, results>>

\* 309-329
Result(i) == LET b == BoxAt(i)
             IN  [class |-> b.class, prop |-> ranked[i].score,
                  left |-> ConvertCoord(b.left, Unit, 1), right |-> ConvertCoord(b.left + b.width, Unit, 1),
                  top |-> ConvertCoord(b.top, Unit, 2), bottom |-> ConvertCoord(b.top + b.height, Unit, 2)]
Collect == /\ stage = "collect" /\ pos <= Len(ranked)
           /\ results' = IF pos \in gone \/ Len(results) >= MaxResults
                         THEN results
                         ELSE Append(results, Result(pos))
           /\ pos' = pos + 1
           /\ UNCHANGED <<stage, frame, letterbox, output, boxes, ranked, sortVars, nmsVars>>

\* 331-332
Return == /\ stage = "collect" /\ pos > Len(ranked)
          /\ stage' = "done"
          /\ UNCHANGED <<frame, letterbox, output, boxes, ranked, sortVars, nmsVars, pos, results>>

Next == \/ Preprocess \/ Scan \/ Ready
        \/ Call \/ Down \/ Up \/ Place \/ Sorted
        \/ Suppress \/ NextClass
        \/ Collect \/ Return

Spec == Init /\ [][Next]_vars
-----------------------------------------------------------------------------
(* What each array holds; the boxes drawn lie in the frame. *)
Box == [class : Nat, score : Int, left : Int, width : Int, top : Int, height : Int]
Drawn == [class : Nat, prop : Int, left : 0..frame[1], right : 0..frame[1],
          top : 0..frame[2], bottom : 0..frame[2]]
TypeOK ==
  /\ stage \in {"preprocess", "decode", "sort", "down", "up", "suppress", "collect", "done"}
  /\ frame \in FrameSizes
  /\ letterbox \in [1..2 -> [scale : Sizes, content : Nat, pad : Nat]]
  /\ DOMAIN output \subseteq DOMAIN Cells /\ \A k \in DOMAIN output : output[k] \in Outputs
  /\ boxes \in Seq(Box) /\ ranked \in Seq(Entry) /\ results \in Seq(Drawn)
  /\ calls \in Seq(Nat \X Nat)
  /\ part \in [left : Nat, right : Nat, low : Nat, high : Nat, key : Entry]
  /\ gone \subseteq Ranks /\ classes \subseteq Nat /\ pos \in Nat \ {0}

(* Once the sort is done the boxes are ranked by falling score, each once and with the
   score it was decoded with, though scores, boxes and indices are separate arrays of
   which only two are sorted; and the results are of boxes that stay, the best first: one
   that stays and is left out found the results full of better ones. *)
Among(i) == \E k \in DOMAIN results : results[k] = Result(i)
EachWithItsScore ==
  /\ stage \in {"suppress", "collect", "done"} =>
       /\ {ranked[i].index : i \in Ranks} = DOMAIN boxes
       /\ \A i \in Ranks : ranked[i].score = BoxAt(i).score
       /\ \A i, j \in Ranks : i < j => ranked[i].score >= ranked[j].score
  /\ \A k \in DOMAIN results : \E i \in Ranks \ gone : results[k] = Result(i)
  /\ stage = "done" =>
       \A i \in Ranks \ gone : \/ Among(i)
                               \/ /\ Len(results) = MaxResults
                                  /\ \A k \in DOMAIN results : results[k].prop >= ranked[i].score

(* What suppression computes, said without its order: a box goes exactly if a better
   ranked one that stays overlaps it.  "Of its class" is decided by the positions,
   so boxes of different classes suppress each other and boxes of one class stay
   together whenever the sort moved them (line 56). *)
GoesForOneThatStays ==
  stage \in {"collect", "done"} =>
    \A j \in Ranks : j \in gone <=> \E i \in Ranks : /\ i < j /\ i \notin gone
                                                     /\ SlotClass(i) = SlotClass(j)
                                                     /\ Overlapping(i, j)

(* The content lies in the model's input, and each coordinate of the frame comes back
   from there within half a pixel of the model and one of the frame, for any shape
   of frame: with bars above, bars at the sides (moved by the alignment), or stretched. *)
Distance(a, b) == Max({a - b, b - a})
MapsBack ==
  stage = "decode" =>
    \A a \in 1..2 : LET l == letterbox[a] IN
      /\ l.pad >= 0 /\ l.pad + l.content <= ModelSize[a]
      /\ \A u \in 0..frame[a] :
           2 * l.scale[1] * (Distance(ConvertCoord(Placed(u, a), frame[a], a), u) - 1) <= l.scale[2]
=============================================================================

---------------------------- MODULE EventChannel ----------------------------
(***************************************************************************)
(* What the event queue of the protocol engine promises the threads that   *)
(* post into it and the one that opens and closes it: every event is       *)
(* delivered at most once and in posting order.  None is taken unless the  *)
(* channel is open; closing discards the backlog once and is complete only *)
(* when the event already taken has been delivered, so a closed channel    *)
(* delivers nothing.  What is posted after the backlog was discarded waits *)
(* for the next opening.  An event taken before anyone listens is dropped. *)
(***************************************************************************)
EXTENDS Naturals, Sequences

CONSTANT MaxPosted      \* bound: how many events are posted

VARIABLES state,        \* "closed", "open", "closing", "emptied"
          posted,       \* events posted so far; they are numbered 1, 2, ...
          pending,      \* the events posted and not yet taken or lost
          taken,        \* the event that is with the handler, 0 for none
          delivered,    \* the events the handler was called with
          attached      \* a handler is installed

vars == <<state, posted, pending, taken, delivered, attached>>

Init == /\ state = "closed"
        /\ posted = 0 /\ pending = <<>> /\ taken = 0 /\ delivered = <<>>
        /\ attached = FALSE

Becomes(s, t) == state = s /\ state' = t

Open == /\ Becomes("closed", "open")
        /\ UNCHANGED <<posted, pending, taken, delivered, attached>>

Close == /\ Becomes("open", "closing")
         /\ UNCHANGED <<posted, pending, taken, delivered, attached>>

Discard == /\ Becomes("closing", "emptied")
           /\ pending' = <<>>
           /\ UNCHANGED <<posted, taken, delivered, attached>>

Closed == /\ Becomes("emptied", "closed")
          /\ taken = 0
          /\ UNCHANGED <<posted, pending, taken, delivered, attached>>

Attach == /\ attached' = TRUE
          /\ UNCHANGED <<state, posted, pending, taken, delivered>>

Post == /\ posted < MaxPosted
        /\ posted' = posted + 1
        /\ pending' = Append(pending, posted + 1)
        /\ UNCHANGED <<state, taken, delivered, attached>>

Take == /\ state = "open" /\ taken = 0 /\ pending # <<>>
        /\ taken' = Head(pending)
        /\ pending' = Tail(pending)
        /\ UNCHANGED <<state, posted, delivered, attached>>

\* Unless nobody listens yet: then it is forgotten.
Deliver == /\ taken # 0
           /\ taken' = 0
           /\ delivered' = IF attached THEN Append(delivered, taken) ELSE delivered
           /\ UNCHANGED <<state, posted, pending, attached>>

Next == Open \/ Close \/ Discard \/ Closed \/ Attach \/ Post \/ Take \/ Deliver

Spec == Init /\ [][Next]_vars
=============================================================================

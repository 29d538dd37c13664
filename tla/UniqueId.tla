------------------------------ MODULE UniqueId ------------------------------
(***************************************************************************)
(* feiqlib/uniqueid.cpp: the packet numbers.  FeiqCommu::pack takes one    *)
(* for every datagram, from whichever thread packs it: the user interface  *)
(* (send), the receiving thread (its replies) and the detection thread.    *)
(* The counter is atomic, get is not: it increments (line 11), maybe wraps *)
(* (12-13) and then reads the counter AGAIN to return it (15).             *)
(***************************************************************************)
EXTENDS Naturals

CONSTANTS Threads,
          MaxId,        \* ULONG_LONG_MAX
          MaxCalls      \* bound: how many numbers are asked for

ASSUME UniqueIdAssumption == MaxId \in Nat /\ MaxId > 1 /\ MaxCalls \in Nat

VARIABLES mId,          \* UniqueId::mId
          pc,           \* where each thread stands: "out", "wrap?", "return"
          id,           \* each thread's local id
          calls,        \* how many calls began
          last,         \* the number each thread got last, 0 for none
          issued,       \* numbers given out since the counter last wrapped
          before,       \* what was issued when the thread's call began
          twice         \* numbers given out again though already issued

vars == <<mId, pc, id, calls, last, issued, before, twice>>

Init == /\ mId = 0 /\ calls = 0
        /\ pc = [t \in Threads |-> "out"]
        /\ id = [t \in Threads |-> 0] /\ last = [t \in Threads |-> 0]
        /\ issued = {} /\ before = [t \in Threads |-> {}] /\ twice = {}

\* ++mId, an unsigned 64-bit increment (11).
Unincremented == mId                                \* slip: a plain read
Incremented == (mId + 1) % (MaxId + 1)
Increment(t) == /\ pc[t] = "out"
                /\ calls < MaxCalls
                /\ calls' = calls + 1
                /\ mId' = Incremented
                /\ id' = [id EXCEPT ![t] = mId']
                /\ pc' = [pc EXCEPT ![t] = "wrap?"]
                /\ before' = [before EXCEPT ![t] = issued]
                /\ UNCHANGED <<last, issued, twice>>

\* Start again at 1 when the largest number was reached (12-13).
Full(n) == n >= MaxId
Wrap(t) == /\ pc[t] = "wrap?"
           /\ IF Full(id[t])
              THEN mId' = 1 /\ issued' = {} /\ before' = [u \in Threads |-> {}]
              ELSE UNCHANGED <<mId, issued, before>>
           /\ pc' = [pc EXCEPT ![t] = "return"]
           /\ UNCHANGED <<id, calls, last, twice>>

\* return mId (15): not id.
Return(t) == /\ pc[t] = "return"
             /\ pc' = [pc EXCEPT ![t] = "out"]
             /\ last' = [last EXCEPT ![t] = mId]
             /\ twice' = twice \cup ({mId} \cap issued)
             /\ issued' = issued \cup {mId}
             /\ UNCHANGED <<mId, id, calls, before>>

Next == \E t \in Threads : Increment(t) \/ Wrap(t) \/ Return(t)

Spec == Init /\ [][Next]_vars
-----------------------------------------------------------------------------
TypeOK == /\ mId \in 0..MaxId /\ calls \in 0..MaxCalls
          /\ pc \in [Threads -> {"out", "wrap?", "return"}]
          /\ id \in [Threads -> 0..MaxId] /\ last \in [Threads -> 0..MaxId]
          /\ issued \subseteq 0..MaxId /\ twice \subseteq 0..MaxId
          /\ before \in [Threads -> SUBSET (0..MaxId)]

(* A number is given twice only to calls that overlap: what was given out before
   a call began is not what the call returns (until the counter wraps, after
   2^64 calls). *)
NeverReissued ==
  [][\A t \in Threads : pc[t] = "return" /\ pc'[t] = "out" => last'[t] \notin before[t]]_vars

(* With one caller the numbers are those the comment of the class promises:
   greater than 0, less than the largest, also across the wrap. *)
InRange == \A n \in issued : 0 < n /\ n < MaxId

(* "返回大于0小于MAX_ULONG的数，多线程安全，自动归0" (uniqueid.h:9): the class is said to be
   thread safe, so no two calls get the same number before the counter wraps. *)
Distinct == twice = {}
=============================================================================

----------------------------- MODULE ChatProofs -----------------------------
(***************************************************************************)
(* Proofs about Chat for any peers, any number of signals and whatever the *)
(* user begins.                                                            *)
(***************************************************************************)
EXTENDS Chat, FiniteSetTheorems, SequenceTheorems, WellFoundedInduction, TLAPS

(* What is in a sequence. *)
Of(s) == {s[k] : k \in DOMAIN s}

(* What the variables hold. *)
Contents == [type : {"text", "file"}, number : Nat]
Signals == [kind : {"on", "off", "notice", "message"}, ip : Ips, contents : Seq(Contents), level : {0}]
Deletions == [kind : {"delete", "tool"}, ip : Nat, contents : {<<>>}, level : Nat]
Items == [do : {"open", "text", "file"}, of : {"message", "notice", "own"}, ip : Ips, number : Nat,
          late : BOOLEAN]
Boxes == [kind : {"question", "notice", "choose"}, ip : Ips, number : Nat, owner : Nat, rest : Seq(Items)]
         \cup [kind : {"group"}, ip : {S \in SUBSET Ips : IsFiniteSet(S)}, number : Nat, owner : Nat, rest : Seq(Items)]
Windows == [ip : Ips, visible : BOOLEAN, gone : BOOLEAN,
            shot : {"none", "timer", "made", "tool", "over"}]
Timers == {"greet", "echo", "thanks", "file"}
Tasks == [peer : Peers, number : Nat]

WindowsTyped == windows \in Seq(Windows) /\ chatOf \in [Ips -> 0..Len(windows)]
QueueTyped == /\ queue \in Seq(Signals \cup Deletions)
              /\ \A k \in DOMAIN queue : queue[k].kind \in {"delete", "tool"} => queue[k].ip \in DOMAIN windows
BoxesTyped == todo \in Seq(Items) /\ prompts \in Seq(Boxes)
RestTyped == /\ users \in SUBSET Ips /\ IsFiniteSet(users)
             /\ timers \in Seq(Timers) /\ tasks \in Seq(Tasks) /\ offers \in [Ips -> Nat]
             /\ mainShown \in BOOLEAN /\ running \in BOOLEAN /\ undefined \in BOOLEAN
             /\ departed \in BOOLEAN
Typed == WindowsTyped /\ QueueTyped /\ BoxesTyped /\ RestTyped

(* A handler that has not been interrupted shows what it still has to append of a
   message in a window it has made sure of, or will yet make sure of. *)
Seen == \A k \in DOMAIN todo :
          todo[k].of = "message" /\ ~todo[k].late /\ todo[k].do # "open" =>
            \/ HasWindow(todo[k].ip)
            \/ \E j \in 1..(k - 1) : todo[j].do = "open" /\ todo[j].ip = todo[k].ip

(* Every file that is spoken of, in a message under way, in what a handler has left or in
   a question, is among the tasks under the peer that offered it. *)
Listed(ts, p, n) == p = TestUser \/ \E k \in DOMAIN ts : ts[k] = [peer |-> p, number |-> n]
Due(ts, items) == \A k \in DOMAIN items : items[k].do = "file" => Listed(ts, items[k].ip, items[k].number)
MessageListed(ts, e) ==
  e.kind = "message" =>
    \A c \in DOMAIN e.contents : e.contents[c].type = "file" => Listed(ts, e.ip, e.contents[c].number)
BoxListed(ts, b) == Due(ts, b.rest) /\ (b.kind = "question" => Listed(ts, b.ip, b.number))
Offered == /\ \A e \in Of(queue) : MessageListed(tasks, e)
           /\ Due(tasks, todo)
           /\ \A b \in Of(prompts) : BoxListed(tasks, b)

(* While no window was closed by others than its user: one that is about to be deleted,
   or was, cannot be seen and has no screenshot under way, nor a tool to be deleted; nor
   can one be seen that has a screenshot under way. *)
Shoots(w) == windows[w].shot \in {"timer", "made", "tool"}
Quiet(w) == ~windows[w].visible /\ ~Shoots(w) /\ ~ToolPending(w)
Alive == ~departed =>
           /\ ~undefined
           /\ \A k \in DOMAIN queue : queue[k].kind = "delete" => queue[k].level = 0
           /\ \A w \in DOMAIN windows : /\ Doomed(w) \/ windows[w].gone => Quiet(w)
                                        /\ Shoots(w) => ~windows[w].visible /\ ~ToolPending(w)

IInv == /\ Typed /\ Seen /\ Offered /\ Alive
        /\ MessagesAreSeen /\ OnlyScreenshotsHide /\ FromTheOfferer
-----------------------------------------------------------------------------
(* The operators on sequences and sets the handlers are built from. *)

(* A sequence without one of its elements has no others. *)
LEMMA Removed ==
  ASSUME NEW T, NEW s \in Seq(T), NEW n \in 1..Len(s)
  PROVE  /\ RemoveAt(s, n) \in Seq(T) /\ Len(RemoveAt(s, n)) = Len(s) - 1
         /\ \A j \in 1..(Len(s) - 1) : \E k \in 1..Len(s) : RemoveAt(s, n)[j] = s[k]
<1> DEFINE a == SubSeq(s, 1, n - 1)
           b == SubSeq(s, n + 1, Len(s))
<1>1. a \in Seq(T) /\ Len(a) = n - 1 /\ \A i \in 1..(n - 1) : a[i] = s[i]
  OBVIOUS
<1>2. b \in Seq(T) /\ Len(b) = Len(s) - n /\ \A i \in 1..(Len(s) - n) : b[i] = s[n + i]
  OBVIOUS
<1>3. RemoveAt(s, n) = a \o b
  BY DEF RemoveAt
<1> HIDE DEF a, b
<1>4. Len(s) \in Nat /\ n \in Nat
  OBVIOUS
<1>5. /\ a \o b \in Seq(T) /\ Len(a \o b) = Len(a) + Len(b)
      /\ \A i \in 1 .. Len(a) + Len(b) : (a \o b)[i] = IF i <= Len(a) THEN a[i] ELSE b[i - Len(a)]
  BY <1>1, <1>2, ConcatProperties
<1>6. ASSUME NEW j \in 1..(Len(s) - 1) PROVE \E k \in 1..Len(s) : (a \o b)[j] = s[k]
  <2>1. CASE j <= n - 1
    <3>1. (a \o b)[j] = s[j]
      BY <1>1, <1>2, <1>4, <1>5, <2>1
    <3>2. QED BY <1>4, <3>1
  <2>2. CASE ~(j <= n - 1)
    <3>1. (a \o b)[j] = b[j - (n - 1)] /\ j - (n - 1) \in 1..(Len(s) - n)
      BY <1>1, <1>2, <1>4, <1>5, <2>2
    <3>2. b[j - (n - 1)] = s[j + 1]
      BY <1>2, <1>4, <3>1
    <3>3. QED BY <1>4, <3>1, <3>2
  <2>3. QED BY <2>1, <2>2
<1>7. QED BY <1>1, <1>2, <1>3, <1>4, <1>5, <1>6

(* The smallest of a set of numbers is one of them, and below the others. *)
LEMMA SmallestOf ==
  ASSUME NEW I \in SUBSET Nat, I # {}
  PROVE  Min(I) \in I /\ \A y \in I : Min(I) <= y
<1> DEFINE R == OpToRel(<, Nat)
<1>1. IsWellFoundedOn(R, Nat)
  BY NatLessThanWellFounded, Zenon
<1>2. \A a, b \in Nat : a < b => <<a, b>> \in R
  BY Zenon DEF OpToRel
<1> HIDE DEF R
<1>3. PICK x \in I : \A y \in I : ~ (<<y, x>> \in R)
  BY <1>1, WFMin, Zenon
<1>4. \A y \in I : ~ (y < x)
  BY <1>2, <1>3, Zenon
<1>5. \A y \in I : x =< y
  BY <1>4
<1>6. QED BY <1>5, Zenon DEF Min

(* A finite set put in some order. *)
LEMMA Ordered ==
  ASSUME NEW S, IsFiniteSet(S)
  PROVE  SetToSeq(S) \in Seq(S)
<1> DEFINE n == Cardinality(S)
<1>1. n \in Nat /\ ExistsBijection(1..n, S)
  BY FS_CardinalityType
<1>2. PICK f \in Bijection(1..n, S) : TRUE
  BY <1>1 DEF ExistsBijection
<1>3. f \in [1..n -> S] /\ IsInjective(f)
  BY <1>2 DEF Bijection, Injection, IsInjective
<1>4. SetToSeq(S) \in [1..n -> S]
  BY <1>3, Zenon DEF SetToSeq
<1>5. QED BY <1>1, <1>4

LEMMA OfAppend ==
  ASSUME NEW T, NEW s \in Seq(T), NEW e \in T
  PROVE  Append(s, e) \in Seq(T) /\ Of(Append(s, e)) = Of(s) \cup {e}
<1>1. /\ Append(s, e) \in Seq(T) /\ Len(Append(s, e)) = Len(s) + 1 /\ Append(s, e)[Len(s) + 1] = e
      /\ \A i \in 1..Len(s) : Append(s, e)[i] = s[i]
  BY AppendProperties
<1>2. Len(s) \in Nat /\ DOMAIN s = 1..Len(s) /\ DOMAIN Append(s, e) = 1..(Len(s) + 1)
  BY <1>1, LenProperties
<1>3. QED BY <1>1, <1>2 DEF Of

LEMMA OfConcat ==
  ASSUME NEW T, NEW s \in Seq(T), NEW r \in Seq(T)
  PROVE  s \o r \in Seq(T) /\ Of(s \o r) = Of(s) \cup Of(r)
<1>1. /\ s \o r \in Seq(T) /\ Len(s \o r) = Len(s) + Len(r)
      /\ \A i \in 1 .. Len(s) + Len(r) : (s \o r)[i] = IF i <= Len(s) THEN s[i] ELSE r[i - Len(s)]
  BY ConcatProperties
<1>2. /\ Len(s) \in Nat /\ DOMAIN s = 1..Len(s) /\ Len(r) \in Nat /\ DOMAIN r = 1..Len(r)
      /\ DOMAIN (s \o r) = 1..(Len(s) + Len(r))
  BY <1>1, LenProperties
<1>3. Of(s \o r) \subseteq Of(s) \cup Of(r)
  <2>1. ASSUME NEW i \in 1..(Len(s) + Len(r)) PROVE (s \o r)[i] \in Of(s) \cup Of(r)
    <3>1. CASE i <= Len(s)
      BY <1>1, <1>2, <3>1 DEF Of
    <3>2. CASE ~(i <= Len(s))
      <4>1. (s \o r)[i] = r[i - Len(s)] /\ i - Len(s) \in 1..Len(r)
        BY <1>1, <1>2, <3>2
      <4>2. QED BY <1>2, <4>1 DEF Of
    <3>3. QED BY <3>1, <3>2
  <2>2. QED BY <1>2, <2>1 DEF Of
<1>4. Of(s) \subseteq Of(s \o r)
  BY <1>1, <1>2 DEF Of
<1>5. Of(r) \subseteq Of(s \o r)
  <2>1. ASSUME NEW i \in 1..Len(r) PROVE r[i] \in Of(s \o r)
    <3>1. i + Len(s) \in 1..(Len(s) + Len(r)) /\ (s \o r)[i + Len(s)] = r[i]
      BY <1>1, <1>2
    <3>2. QED BY <1>2, <3>1 DEF Of
  <2>2. QED BY <1>2, <2>1 DEF Of
<1>6. QED BY <1>1, <1>3, <1>4, <1>5

LEMMA OfTail ==
  ASSUME NEW T, NEW s \in Seq(T), s # <<>>
  PROVE  /\ Head(s) = s[1] /\ s[1] \in T /\ s[1] \in Of(s)
         /\ Tail(s) \in Seq(T) /\ Len(Tail(s)) = Len(s) - 1 /\ Len(s) \in Nat \ {0}
         /\ \A k \in 1..(Len(s) - 1) : Tail(s)[k] = s[k + 1]
         /\ Of(Tail(s)) \subseteq Of(s)
<1>1. /\ Head(s) = s[1] /\ Tail(s) \in Seq(T) /\ Len(Tail(s)) = Len(s) - 1 /\ Len(s) \in Nat \ {0}
      /\ \A k \in 1..(Len(s) - 1) : Tail(s)[k] = s[k + 1]
  BY EmptySeq, HeadTailProperties
<1>2. DOMAIN s = 1..Len(s) /\ DOMAIN Tail(s) = 1..(Len(s) - 1)
  BY <1>1, LenProperties
<1>3. QED BY <1>1, <1>2, ElementOfSeq DEF Of

LEMMA OfOne == ASSUME NEW T, NEW e \in T PROVE <<e>> \in Seq(T) /\ Of(<<e>>) = {e}
BY DEF Of

LEMMA OfTwo == ASSUME NEW T, NEW e \in T, NEW f \in T PROVE <<e, f>> \in Seq(T) /\ Of(<<e, f>>) = {e, f}
<1>1. DOMAIN <<e, f>> = 1..2 /\ <<e, f>>[1] = e /\ <<e, f>>[2] = f
  OBVIOUS
<1>2. QED BY <1>1 DEF Of

LEMMA OfNone == ASSUME NEW T PROVE <<>> \in Seq(T) /\ Of(<<>>) = {}
BY DEF Of

(* The event handled next has its turn, and the others stay. *)
LEMMA NextIsReached ==
  ASSUME QueueTyped, Ready
  PROVE  /\ queue[Next1] \in Of(queue) /\ queue[Next1] \in Signals \cup Deletions
         /\ Reached(queue[Next1])
         /\ Without(Next1) \in Seq(Signals \cup Deletions) /\ Of(Without(Next1)) \subseteq Of(queue)
<1> DEFINE I == {k \in DOMAIN queue : Reached(queue[k])}
<1>1. I \in SUBSET Nat /\ I # {}
  BY DEF QueueTyped, Ready
<1>2. Next1 \in I
  BY <1>1, SmallestOf DEF Next1
<1>3. queue \in Seq(Signals \cup Deletions) /\ Next1 \in 1..Len(queue)
  BY <1>2 DEF QueueTyped
<1>4. /\ RemoveAt(queue, Next1) \in Seq(Signals \cup Deletions)
      /\ Len(RemoveAt(queue, Next1)) = Len(queue) - 1
      /\ \A j \in 1..(Len(queue) - 1) : \E k \in 1..Len(queue) : RemoveAt(queue, Next1)[j] = queue[k]
  <2> HIDE DEF Next1
  <2>1. QED BY <1>3, Removed
<1>5. DOMAIN queue = 1..Len(queue)
  BY <1>3
<1>6. DOMAIN Without(Next1) = 1..(Len(queue) - 1)
  BY <1>4, LenProperties DEF Without
<1>7. queue[Next1] \in Signals \cup Deletions
  BY <1>3, ElementOfSeq
<1>8. QED BY <1>2, <1>4, <1>5, <1>6, <1>7 DEF Without, Of
-----------------------------------------------------------------------------
(* Types.  First the windows. *)

LEMMA MadeStep ==
  ASSUME WindowsTyped, NEW p \in Ips, Made(p)
  PROVE  /\ WindowsTyped' /\ Len(windows') = Len(windows) + 1 /\ Len(windows) \in Nat
         /\ windows'[Len(windows) + 1] = NewWindow(p) /\ chatOf' = [chatOf EXCEPT ![p] = Len(windows) + 1]
         /\ \A w \in 1..Len(windows) : windows'[w] = windows[w]
<1>1. NewWindow(p) \in Windows
  BY DEF NewWindow, Windows
<1>2. /\ windows' \in Seq(Windows) /\ Len(windows') = Len(windows) + 1 /\ Len(windows) \in Nat
      /\ windows'[Len(windows) + 1] = NewWindow(p) /\ \A w \in 1..Len(windows) : windows'[w] = windows[w]
  BY <1>1, AppendProperties DEF WindowsTyped, Made
<1>3. chatOf' \in [Ips -> 0..(Len(windows) + 1)]
  BY <1>2 DEF WindowsTyped, Made
<1>4. QED BY <1>2, <1>3 DEF WindowsTyped, Made

(* A change of one window that is one still. *)
LEMMA StillWindow ==
  ASSUME NEW r \in Windows, NEW v \in BOOLEAN, NEW x \in {"none", "timer", "made", "tool", "over"}
  PROVE  /\ [r EXCEPT !.visible = v] \in Windows /\ [r EXCEPT !.shot = x] \in Windows
         /\ [r EXCEPT !.visible = v, !.shot = x] \in Windows
         /\ [r EXCEPT !.gone = TRUE, !.visible = v] \in Windows
BY DEF Windows

LEMMA ChangedStep ==
  ASSUME WindowsTyped, NEW w \in DOMAIN windows, NEW r \in Windows,
         windows' = [windows EXCEPT ![w] = r], UNCHANGED chatOf
  PROVE  WindowsTyped' /\ DOMAIN windows' = DOMAIN windows
<1>1. windows' \in Seq(Windows) /\ Len(windows') = Len(windows)
  BY DEF WindowsTyped
<1>2. QED BY <1>1 DEF WindowsTyped

LEMMA WindowAt ==
  ASSUME WindowsTyped, NEW w \in DOMAIN windows
  PROVE  windows[w] \in Windows
<1>1. DOMAIN windows = 1..Len(windows) /\ windows \in Seq(Windows)
  BY LenProperties DEF WindowsTyped
<1>2. QED BY <1>1, ElementOfSeq

LEMMA TextStep ==
  ASSUME WindowsTyped, NEW i \in Items, AppendTextToChat(i)
  PROVE  WindowsTyped' /\ DOMAIN windows \subseteq DOMAIN windows'
<1>1. i.ip \in Ips
  BY DEF Items
<1>2. CASE Made(i.ip)
  BY <1>1, <1>2, MadeStep DEF WindowsTyped
<1>3. CASE UNCHANGED <<windows, chatOf>>
  BY <1>3 DEF WindowsTyped
<1>4. QED BY <1>2, <1>3 DEF AppendTextToChat

LEMMA OpenStep ==
  ASSUME WindowsTyped, NEW p \in Ips, OpenChatWindow(p)
  PROVE  WindowsTyped' /\ DOMAIN windows \subseteq DOMAIN windows'
<1>1. CASE Made(p)
  BY <1>1, MadeStep DEF WindowsTyped
<1>2. CASE UNCHANGED <<windows, chatOf>>
  BY <1>2 DEF WindowsTyped
<1>3. QED BY <1>1, <1>2 DEF OpenChatWindow

LEMMA WindowsStep ==
  ASSUME Typed, [Next]_vars
  PROVE  WindowsTyped' /\ DOMAIN windows \subseteq DOMAIN windows'
<1> USE DEF Typed
<1> DEFINE G == WindowsTyped' /\ DOMAIN windows \subseteq DOMAIN windows'
<1>1. CASE UNCHANGED <<windows, chatOf>>
  BY <1>1 DEF WindowsTyped
<1>2. CASE DoOpen \/ DoText \/ DoFile
  <2>1. Head(todo) \in Items
    BY <1>2, OfTail DEF BoxesTyped, DoOpen, DoText, DoFile
  <2>2. Head(todo).ip \in Ips
    BY <2>1 DEF Items
  <2>3. QED BY <1>2, <2>1, <2>2, TextStep, OpenStep DEF DoOpen, DoText, DoFile
<1>3. CASE HandleOffline
  <2>1. queue[Next1].ip \in Ips
    BY <1>3, NextIsReached DEF HandleOffline, Signals, Deletions
  <2>2. CASE chatOf[queue[Next1].ip] = NoWindow
    BY <1>3, <2>2 DEF HandleOffline, WindowsTyped
  <2>3. CASE chatOf[queue[Next1].ip] # NoWindow
    <3> DEFINE w == chatOf[queue[Next1].ip]
    <3>1. w \in DOMAIN windows
      BY <2>1, <2>3 DEF WindowsTyped, NoWindow
    <3>2. [windows[w] EXCEPT !.visible = FALSE] \in Windows
      BY <3>1, WindowAt, StillWindow
    <3>3. windows' = [windows EXCEPT ![w] = [windows[w] EXCEPT !.visible = FALSE]] /\ chatOf' = chatOf
      BY <1>3, <2>3 DEF HandleOffline, Hidden
    <3>4. QED BY <3>1, <3>2, <3>3, ChangedStep
  <2>4. QED BY <2>2, <2>3
<1>4. CASE HandleDelete
  <2> DEFINE w == queue[Next1].ip
  <2>1. w \in DOMAIN windows
    BY <1>4, NextIsReached DEF HandleDelete, QueueTyped, Of
  <2>2. windows' = [windows EXCEPT ![w] = [windows[w] EXCEPT !.gone = TRUE, !.visible = FALSE]]
    BY <1>4, <2>1 DEF HandleDelete, WindowsTyped
  <2>3. [windows[w] EXCEPT !.gone = TRUE, !.visible = FALSE] \in Windows
    BY <2>1, WindowAt, StillWindow
  <2>4. windows' \in Seq(Windows) /\ Len(windows') = Len(windows) /\ DOMAIN windows' = DOMAIN windows
    BY <2>1, <2>2, <2>3 DEF WindowsTyped
  <2>5. chatOf' \in [Ips -> 0..Len(windows)]
    <3>1. chatOf' = [p \in Ips |-> IF chatOf[p] = w THEN NoWindow ELSE chatOf[p]]
      BY <1>4 DEF HandleDelete
    <3>2. QED BY <3>1 DEF WindowsTyped, NoWindow
  <2>6. QED BY <2>4, <2>5 DEF WindowsTyped
<1>5. ASSUME NEW p \in Ips, OpenUser(p) PROVE G
  BY <1>5, OpenStep DEF OpenUser
<1>6. ASSUME NEW w \in DOMAIN windows, CloseWindow(w) \/ ClickScreenshot(w) \/ Taken(w) \/ Abandoned(w)
                                        \/ ShotTimer(w)
      PROVE  G
  <2>1. /\ [windows[w] EXCEPT !.visible = FALSE] \in Windows
        /\ [windows[w] EXCEPT !.visible = FALSE, !.shot = "timer"] \in Windows
        /\ [windows[w] EXCEPT !.visible = TRUE, !.shot = "none"] \in Windows
        /\ \A x \in {"over", "made", "tool"} : [windows[w] EXCEPT !.shot = x] \in Windows
    BY WindowAt, StillWindow
  <2>2. PICK r \in Windows : windows' = [windows EXCEPT ![w] = r]
    <3>1. CASE CloseWindow(w)
      BY <2>1, <3>1 DEF CloseWindow, Hidden
    <3>2. CASE ClickScreenshot(w)
      BY <2>1, <3>2 DEF ClickScreenshot, WindowsTyped
    <3>3. CASE Taken(w)
      BY <2>1, <3>3 DEF Taken, WindowsTyped
    <3>4. CASE Abandoned(w)
      BY <2>1, <3>4 DEF Abandoned, Shot
    <3>5. CASE ShotTimer(w)
      BY <2>1, <3>5 DEF ShotTimer, Shot
    <3>6. QED BY <1>6, <3>1, <3>2, <3>3, <3>4, <3>5
  <2>3. chatOf' = chatOf
    BY <1>6 DEF CloseWindow, ClickScreenshot, Taken, Abandoned, ShotTimer
  <2>4. QED BY <2>2, <2>3, ChangedStep
<1>7. CASE CloseMain
  <2>1. windows' = [w \in DOMAIN windows |-> [windows[w] EXCEPT !.visible = @ /\ chatOf[windows[w].ip] # w]]
    BY <1>7 DEF CloseMain
  <2>2. \A w \in DOMAIN windows : [windows[w] EXCEPT !.visible = @ /\ chatOf[windows[w].ip] # w] \in Windows
    <3>1. SUFFICES ASSUME NEW w \in DOMAIN windows
                   PROVE  [windows[w] EXCEPT !.visible = @ /\ chatOf[windows[w].ip] # w] \in Windows
      OBVIOUS
    <3>2. windows[w] \in Windows
      BY WindowAt
    <3>3. (windows[w].visible /\ chatOf[windows[w].ip] # w) \in BOOLEAN
      OBVIOUS
    <3>4. QED BY <3>2, <3>3, StillWindow
  <2>3. windows' \in Seq(Windows) /\ Len(windows') = Len(windows)
    BY <2>1, <2>2 DEF WindowsTyped
  <2>4. chatOf' = chatOf
    BY <1>7 DEF CloseMain
  <2>5. QED BY <2>3, <2>4 DEF WindowsTyped
<1>8. CASE ToolDeleted
  <2> DEFINE w == queue[Next1].ip
  <2>1. w \in DOMAIN windows
    BY <1>8, NextIsReached DEF ToolDeleted, QueueTyped, Of
  <2>2. windows' = [windows EXCEPT ![w] = [windows[w] EXCEPT !.visible = ~windows[w].gone]] /\ chatOf' = chatOf
    BY <1>8 DEF ToolDeleted
  <2>3. [windows[w] EXCEPT !.visible = ~windows[w].gone] \in Windows
    <3>1. (~windows[w].gone) \in BOOLEAN
      OBVIOUS
    <3>2. QED BY <2>1, <3>1, WindowAt, StillWindow
  <2>4. QED BY <2>1, <2>2, <2>3, ChangedStep
<1>9. CASE EngineStep
  BY <1>1, <1>9 DEF EngineStep, FellowUpdated, Noticed, TextReceived, FileReceived, Arrives, shots
<1>10. CASE HandleOnline \/ HandleMessage \/ HandleNotice \/ \E k \in DOMAIN timers : Fire(k)
  BY <1>1, <1>10 DEF HandleOnline, HandleMessage, HandleNotice, Fire, shots
<1>11. CASE OpenGroup \/ AcceptDownload \/ AcceptTestFile \/ Dismiss \/ GroupSend \/ ChooseFile
            \/ \E w \in DOMAIN windows : SendText(w) \/ SendFile(w)
  BY <1>1, <1>11 DEF OpenGroup, AcceptDownload, AcceptTestFile, Dismiss, GroupSend, ChooseFile, SendText,
                     SendFile, shots
<1>12. CASE UNCHANGED vars
  BY <1>1, <1>12 DEF vars, shots
<1>13. QED
  BY <1>2, <1>3, <1>4, <1>5, <1>6, <1>7, <1>8, <1>9, <1>10, <1>11, <1>12 DEF Next, UserStep, LoopStep
-----------------------------------------------------------------------------
(* Then what is neither a window, a queue nor a box.  Tasks are only added, each under the
   peer and the number of the file that is spoken of in the same step. *)

LEMMA RestStep ==
  ASSUME Typed, [Next]_vars
  PROVE  /\ RestTyped'
         /\ tasks' = tasks \/ \E p \in Peers : FileReceived(p)
<1> USE DEF Typed
<1> DEFINE Plain == UNCHANGED <<tasks, offers>>
           Booleans == /\ mainShown' \in BOOLEAN /\ running' \in BOOLEAN /\ undefined' \in BOOLEAN
                       /\ departed' \in BOOLEAN
           UsersOK == users' \in SUBSET Ips /\ IsFiniteSet(users')
           G == RestTyped' /\ (tasks' = tasks \/ \E p \in Peers : FileReceived(p))
<1>1. ASSUME Plain, UsersOK, Booleans, timers' \in Seq(Timers) PROVE G
  BY <1>1 DEF RestTyped
<1>2. UNCHANGED <<mainShown, running, undefined, departed>> => Booleans
  BY DEF RestTyped
<1>3. UNCHANGED users => UsersOK
  BY DEF RestTyped
<1>4. UNCHANGED timers => timers' \in Seq(Timers)
  BY DEF RestTyped
<1>5. \A S : Echoes(S) \in Seq(Timers)
  BY DEF Echoes, RestTyped, Timers
<1>6. timers \o <<"thanks", "file">> \in Seq(Timers)
  BY DEF RestTyped, Timers
<1>7. CASE EngineStep
  <2>1. ASSUME NEW p \in Peers, FileReceived(p) PROVE G
    <3>1. offers[p] + 1 \in Nat /\ offers' \in [Ips -> Nat]
      BY <2>1 DEF FileReceived, RestTyped, Ips
    <3>2. tasks' \in Seq(Tasks)
      <4>1. [peer |-> p, number |-> offers[p] + 1] \in Tasks
        BY <3>1 DEF Tasks
      <4>2. QED BY <2>1, <4>1 DEF FileReceived, RestTyped
    <3>3. UNCHANGED <<users, timers, mainShown, running, undefined, departed>>
      BY <2>1 DEF FileReceived, Arrives, shots
    <3>4. QED BY <1>2, <1>3, <1>4, <2>1, <3>1, <3>2, <3>3 DEF RestTyped
  <2>2. ASSUME NEW p \in Peers,
               (\E kind \in {"on", "off"} : FellowUpdated(p, kind)) \/ Noticed(p) \/ TextReceived(p)
        PROVE  G
    BY <1>1, <1>2, <1>3, <1>4, <2>2 DEF FellowUpdated, Noticed, TextReceived, Arrives, shots
  <2>3. QED BY <1>7, <2>1, <2>2 DEF EngineStep
<1>8. CASE HandleOnline
  <2>1. queue[Next1].ip \in Ips
    BY <1>8, NextIsReached DEF HandleOnline, Signals, Deletions
  <2>2. UsersOK
    BY <1>8, <2>1, FS_AddElement DEF HandleOnline, RestTyped
  <2>3. QED BY <1>1, <1>2, <1>4, <1>8, <2>2 DEF HandleOnline, shots, files
<1>9. CASE HandleOffline
  <2>1. UsersOK
    BY <1>9, FS_RemoveElement DEF HandleOffline, RestTyped
  <2>2. Booleans
    BY <1>9 DEF HandleOffline, RestTyped
  <2>3. QED BY <1>1, <1>4, <1>9, <2>1, <2>2 DEF HandleOffline, files
<1>10. CASE DoOpen \/ DoText \/ DoFile \/ HandleMessage \/ HandleNotice \/ HandleDelete \/ ToolDeleted
  <2>1. Booleans
    BY <1>2, <1>10 DEF DoOpen, DoText, DoFile, HandleMessage, HandleNotice, HandleDelete, ToolDeleted, shots,
                       RestTyped
  <2>2. UNCHANGED <<tasks, offers, users, timers>>
    BY <1>10 DEF DoOpen, DoText, DoFile, HandleMessage, HandleNotice, HandleDelete, ToolDeleted, files
  <2>3. QED BY <1>1, <1>3, <1>4, <2>1, <2>2
<1>11. CASE AcceptDownload \/ AcceptTestFile \/ Dismiss \/ OpenGroup \/ GroupSend \/ ChooseFile
  <2>1. UNCHANGED <<tasks, offers, users, mainShown, running, undefined, departed>>
    BY <1>11 DEF AcceptDownload, AcceptTestFile, Dismiss, OpenGroup, GroupSend, ChooseFile, shots, files
  <2>2. timers' \in Seq(Timers)
    BY <1>4, <1>5, <1>6, <1>11 DEF AcceptDownload, AcceptTestFile, Dismiss, OpenGroup, GroupSend, ChooseFile,
                                   FilesSent
  <2>3. QED BY <1>1, <1>2, <1>3, <2>1, <2>2
<1>12. ASSUME NEW w \in DOMAIN windows, CloseWindow(w) \/ SendText(w) \/ SendFile(w) \/ ClickScreenshot(w)
                                        \/ Taken(w) \/ Abandoned(w) \/ ShotTimer(w)
       PROVE  G
  <2>1. UNCHANGED <<tasks, offers, users, running, departed>>
    BY <1>12 DEF CloseWindow, SendText, SendFile, ClickScreenshot, Taken, Abandoned, ShotTimer, shots, files
  <2>2. mainShown' \in BOOLEAN /\ undefined' \in BOOLEAN
    BY <1>12 DEF CloseWindow, SendText, SendFile, ClickScreenshot, Taken, Abandoned, ShotTimer, shots, ShowsMain,
                 RestTyped
  <2>3. timers' \in Seq(Timers)
    <3>1. CASE CloseWindow(w) \/ SendFile(w) \/ ClickScreenshot(w) \/ Abandoned(w) \/ ShotTimer(w)
      BY <1>4, <3>1 DEF CloseWindow, SendFile, ClickScreenshot, Abandoned, ShotTimer
    <3>2. CASE SendText(w)
      BY <1>4, <1>5, <3>2 DEF SendText
    <3>3. CASE Taken(w)
      <4>1. FilesSent(windows[w].ip, Append(queue, Later("tool", w)), <<>>)
        BY <3>3 DEF Taken
      <4>2. \A p, q, b : FilesSent(p, q, b) => timers' = timers \/ timers' = timers \o <<"thanks", "file">>
        BY DEF FilesSent
      <4>3. QED BY <1>4, <1>6, <4>1, <4>2
    <3>4. QED BY <1>12, <3>1, <3>2, <3>3
  <2>4. Booleans
    BY <2>1, <2>2 DEF RestTyped
  <2>5. QED BY <1>1, <1>3, <2>1, <2>3, <2>4
<1>13. CASE CloseMain \/ \E p \in Ips : OpenUser(p)
  <2>1. UNCHANGED <<tasks, offers, users, timers, undefined>>
    BY <1>13 DEF CloseMain, OpenUser, files
  <2>2. Booleans
    BY <1>13 DEF CloseMain, OpenUser, RestTyped
  <2>3. QED BY <1>1, <1>3, <1>4, <2>1, <2>2
<1>14. ASSUME NEW k \in DOMAIN timers, Fire(k) PROVE G
  <2>1. timers' \in Seq(Timers)
    BY <1>14, Removed DEF Fire, RestTyped
  <2>2. offers' \in [Ips -> Nat]
    BY <1>14 DEF Fire, RestTyped
  <2>3. UNCHANGED <<tasks, users, mainShown, running, undefined, departed>>
    BY <1>14 DEF Fire, shots
  <2>4. QED BY <1>2, <1>3, <2>1, <2>2, <2>3 DEF RestTyped
<1>15. CASE UNCHANGED vars
  BY <1>1, <1>2, <1>3, <1>4, <1>15 DEF vars, shots, files
<1>16. QED
  BY <1>7, <1>8, <1>9, <1>10, <1>11, <1>12, <1>13, <1>14, <1>15 DEF Next, UserStep, LoopStep

(* What was among the tasks stays there. *)
LEMMA TasksStay ==
  ASSUME Typed, [Next]_vars
  PROVE  /\ \A k \in DOMAIN tasks : k \in DOMAIN tasks' /\ tasks'[k] = tasks[k]
         /\ \A p, n : Listed(tasks, p, n) => Listed(tasks', p, n)
<1>1. \A k \in DOMAIN tasks : k \in DOMAIN tasks' /\ tasks'[k] = tasks[k]
  <2>1. tasks \in Seq(Tasks) /\ tasks' \in Seq(Tasks)
    BY RestStep DEF Typed, RestTyped
  <2>2. ASSUME NEW p \in Peers, FileReceived(p) PROVE tasks' = Append(tasks, tasks'[Len(tasks) + 1])
    BY <2>1, <2>2 DEF FileReceived
  <2>3. CASE tasks' = tasks
    BY <2>3
  <2>4. ASSUME NEW t, tasks' = Append(tasks, t)
        PROVE  \A k \in DOMAIN tasks : k \in DOMAIN tasks' /\ tasks'[k] = tasks[k]
    BY <2>1, <2>4
  <2>5. QED BY RestStep, <2>2, <2>3, <2>4
<1>2. QED BY <1>1 DEF Listed
-----------------------------------------------------------------------------
(* The queue.  What a step posts is a signal, of a message whose files are among the tasks,
   or a deletion: of a window, which others than its user close, or its user while
   nothing is open, or of a screenshot's tool. *)
Posts(e) == \/ e \in Signals /\ MessageListed(tasks', e)
            \/ /\ e \in Deletions /\ e.ip \in DOMAIN windows
               /\ \/ e.kind = "delete" /\ (departed' \/ (e.level = 0 /\ CloseWindow(e.ip)))
                  \/ e.kind = "tool" /\ Taken(e.ip)

LEMMA SignalsArePosted ==
  ASSUME NEW p \in Ips
  PROVE  /\ \A kind \in {"on", "off", "notice"} : Posts(Signal(kind, p))
         /\ Posts(Message(p, <<Text>>))
         /\ \A n \in Nat : Listed(tasks', p, n) => Posts(Message(p, <<File(n), Text>>)) /\ Posts(Message(p, <<File(n)>>))
<1>1. ASSUME NEW kind \in {"on", "off", "notice"} PROVE Posts(Signal(kind, p))
  <2>1. Signal(kind, p) \in Signals
    BY DEF Signal, Signals
  <2>2. MessageListed(tasks', Signal(kind, p))
    BY DEF MessageListed, Signal
  <2>3. QED BY <2>1, <2>2 DEF Posts
<1>2. /\ Text \in Contents /\ Text.type = "text"
      /\ \A n \in Nat : File(n) \in Contents /\ File(n).number = n
  BY DEF Text, File, Contents
<1>3. ASSUME NEW c \in Seq(Contents) PROVE Message(p, c) \in Signals
  BY DEF Message, Signals
<1>4. Posts(Message(p, <<Text>>))
  <2>1. <<Text>> \in Seq(Contents)
    BY <1>2, OfOne
  <2>2. MessageListed(tasks', Message(p, <<Text>>))
    BY <1>2 DEF MessageListed, Message
  <2>3. QED BY <1>3, <2>1, <2>2 DEF Posts
<1>5. ASSUME NEW n \in Nat, Listed(tasks', p, n)
      PROVE  Posts(Message(p, <<File(n), Text>>)) /\ Posts(Message(p, <<File(n)>>))
  <2>1. <<File(n), Text>> \in Seq(Contents) /\ <<File(n)>> \in Seq(Contents)
    BY <1>2, OfOne, OfTwo
  <2>2. MessageListed(tasks', Message(p, <<File(n), Text>>)) /\ MessageListed(tasks', Message(p, <<File(n)>>))
    BY <1>2, <1>5 DEF MessageListed, Message
  <2>3. QED BY <1>3, <2>1, <2>2 DEF Posts
<1>6. QED BY <1>1, <1>4, <1>5

(* The deletion of a window is added once. *)
LEMMA ClosedPosts ==
  ASSUME BoxesTyped, NEW q \in Seq(Signals \cup Deletions), NEW w \in DOMAIN windows, w \in Nat
  PROVE  /\ Closed(q, w) \in Seq(Signals \cup Deletions)
         /\ Deletion(w) \in Deletions /\ Deletion(w).ip = w /\ Deletion(w).kind = "delete"
         /\ Deletion(w).level = Len(prompts)
         /\ Of(Closed(q, w)) \subseteq Of(q) \cup {Deletion(w)}
<1>1. Len(prompts) \in Nat
  BY LenProperties DEF BoxesTyped
<1>2. /\ Deletion(w) \in Deletions /\ Deletion(w).ip = w /\ Deletion(w).kind = "delete"
      /\ Deletion(w).level = Len(prompts)
  BY <1>1 DEF Deletion, Later, Deletions
<1>3. Deletion(w) \in Signals \cup Deletions
  BY <1>2
<1>4. QED BY <1>2, <1>3, OfAppend DEF Closed

LEMMA QueueStep ==
  ASSUME Typed, [Next]_vars
  PROVE  /\ queue' \in Seq(Signals \cup Deletions)
         /\ \A e \in Of(queue') : e \in Of(queue) \/ Posts(e)
<1> USE DEF Typed
<1> DEFINE Events == Signals \cup Deletions
           OK(q) == q \in Seq(Events) /\ \A e \in Of(q) : e \in Of(queue) \/ Posts(e)
<1> SUFFICES OK(queue')
  OBVIOUS
<1>1. OK(queue)
  BY DEF QueueTyped
<1>2. ASSUME NEW q, OK(q), NEW e \in Events, Posts(e) PROVE OK(Append(q, e))
  BY <1>2, OfAppend
<1>3. Ready => OK(Without(Next1))
  BY NextIsReached
<1>4. TestUser \in Ips /\ \A n : Listed(tasks', TestUser, n)
  BY DEF Ips, Listed
<1>5. \A e : Posts(e) => e \in Events
  BY DEF Posts
<1>6. ASSUME NEW q, OK(q), NEW p, NEW b, FilesSent(p, q, b) PROVE OK(queue')
  <2>1. CASE p = TestUser
    <3>1. queue' = Append(q, Signal("notice", TestUser))
      BY <1>6, <2>1 DEF FilesSent
    <3>2. QED BY <1>2, <1>4, <1>5, <1>6, <3>1, SignalsArePosted
  <2>2. CASE p # TestUser
    BY <1>6, <2>2 DEF FilesSent
  <2>3. QED BY <2>1, <2>2
<1>7. \A w \in DOMAIN windows : w \in Nat
  BY DEF WindowsTyped
<1> HIDE DEF OK, Events
<1>8. CASE EngineStep
  <2>1. ASSUME NEW e, Posts(e), Arrives(e) PROVE OK(queue')
    BY <1>1, <1>2, <1>5, <2>1 DEF Arrives
  <2>2. ASSUME NEW p \in Peers, FileReceived(p) PROVE OK(queue')
    <3>1. PICK n \in Nat : n = offers[p] + 1
      BY DEF RestTyped, Ips
    <3>2. Arrives(Message(p, <<File(n), Text>>)) /\ tasks' = Append(tasks, [peer |-> p, number |-> n])
      BY <2>2, <3>1 DEF FileReceived
    <3>3. Listed(tasks', p, n)
      BY <3>2 DEF Listed, RestTyped
    <3>4. QED BY <2>1, <3>2, <3>3, SignalsArePosted DEF Ips
  <2>3. \A p \in Peers : p \in Ips
    BY DEF Ips
  <2>4. ASSUME NEW p \in Peers,
               (\E kind \in {"on", "off"} : FellowUpdated(p, kind)) \/ Noticed(p) \/ TextReceived(p)
        PROVE  OK(queue')
    BY <2>1, <2>3, <2>4, SignalsArePosted DEF FellowUpdated, Noticed, TextReceived
  <2>5. QED BY <1>8, <2>2, <2>4 DEF EngineStep
<1>9. CASE HandleOnline \/ HandleMessage \/ HandleNotice \/ HandleDelete \/ ToolDeleted
  BY <1>3, <1>9 DEF HandleOnline, HandleMessage, HandleNotice, HandleDelete, ToolDeleted
<1>10. CASE HandleOffline
  <2>1. queue[Next1].ip \in Ips
    BY <1>10, NextIsReached DEF HandleOffline, Signals, Deletions
  <2>2. CASE chatOf[queue[Next1].ip] = NoWindow
    BY <1>3, <1>10, <2>2 DEF HandleOffline
  <2>3. CASE chatOf[queue[Next1].ip] # NoWindow
    <3>1. PICK w : w = chatOf[queue[Next1].ip]
      OBVIOUS
    <3>2. w \in DOMAIN windows
      BY <2>1, <2>3, <3>1 DEF WindowsTyped, NoWindow
    <3>3. queue' = Closed(Without(Next1), w) /\ departed'
      BY <1>10, <2>3, <3>1 DEF HandleOffline
    <3>4. Posts(Deletion(w))
      BY <1>7, <3>2, <3>3, ClosedPosts, NextIsReached, <1>10 DEF Posts, HandleOffline
    <3>5. QED BY <1>2, <1>3, <1>5, <1>10, <3>3, <3>4 DEF Closed, HandleOffline
  <2>4. QED BY <2>2, <2>3
<1>11. CASE CloseMain
  <2> DEFINE S == {w \in {chatOf[p] : p \in Ips} \ {NoWindow} : ~Doomed(w)}
             s == SetToSeq(S)
             r == [k \in DOMAIN s |-> Deletion(s[k])]
  <2>1. S \subseteq DOMAIN windows /\ DOMAIN windows = 1..Len(windows) /\ Len(windows) \in Nat
    BY DEF WindowsTyped, NoWindow
  <2>2. s \in Seq(S)
    <3> HIDE DEF S
    <3>1. IsFiniteSet(1..Len(windows))
      BY <2>1, FS_Interval
    <3>2. IsFiniteSet(S)
      BY <2>1, <3>1, FS_Subset
    <3>3. QED BY <3>2, Ordered
  <2>3. queue' = queue \o r /\ departed'
    BY <1>11 DEF CloseMain
  <2>4. ASSUME NEW k \in DOMAIN s PROVE r[k] \in Deletions /\ Posts(r[k])
    <3>1. s[k] \in DOMAIN windows
      <4> HIDE DEF S, s
      <4>1. QED BY <2>1, <2>2, <2>4, ElementOfSeq, LenProperties
    <3>2. PICK w \in DOMAIN windows : w = s[k]
      BY <3>1
    <3>3. Deletion(w) \in Deletions /\ Deletion(w).ip = w /\ Deletion(w).kind = "delete"
      BY <1>1, <1>7, ClosedPosts DEF OK, Events
    <3>4. r[k] = Deletion(w)
      BY <3>2
    <3>5. QED BY <2>3, <3>3, <3>4 DEF Posts
  <2>5. r \in Seq(Events)
    BY <2>2, <2>4 DEF Events
  <2>6. \A e \in Of(r) : Posts(e)
    BY <2>4 DEF Of
  <2> HIDE DEF r
  <2>7. OK(queue \o r)
    BY <1>1, <2>5, <2>6, OfConcat DEF OK
  <2>8. QED BY <2>3, <2>7
<1>12. ASSUME NEW w \in DOMAIN windows, CloseWindow(w) PROVE OK(queue')
  <2>1. prompts = <<>> /\ queue' = Closed(queue, w)
    BY <1>12 DEF CloseWindow, Usable, UserFree
  <2>2. Deletion(w).level = 0
    BY <1>1, <1>7, <2>1, ClosedPosts DEF OK, Events
  <2>3. Posts(Deletion(w))
    BY <1>1, <1>7, <1>12, <2>2, ClosedPosts DEF Posts, OK, Events
  <2>4. QED BY <1>1, <1>2, <1>5, <2>1, <2>3 DEF Closed
<1>13. ASSUME NEW w \in DOMAIN windows, Taken(w) PROVE OK(queue')
  <2>1. Later("tool", w) \in Deletions /\ Later("tool", w).ip = w /\ Later("tool", w).kind = "tool"
    BY <1>7 DEF Later, Deletions, BoxesTyped
  <2>2. Posts(Later("tool", w))
    BY <1>13, <2>1 DEF Posts
  <2>3. OK(Append(queue, Later("tool", w)))
    BY <1>1, <1>2, <1>5, <2>2
  <2>4. QED BY <1>6, <1>13, <2>3 DEF Taken
<1>14. CASE ChooseFile
  BY <1>1, <1>6, <1>14 DEF ChooseFile
<1>15. CASE AcceptTestFile
  <2>1. CASE UNCHANGED queue
    BY <1>1, <2>1
  <2>2. CASE queue' = queue \o <<Signal("notice", TestUser), Message(TestUser, <<Text>>)>>
    <3> DEFINE r == <<Signal("notice", TestUser), Message(TestUser, <<Text>>)>>
    <3>1. Posts(Signal("notice", TestUser)) /\ Posts(Message(TestUser, <<Text>>))
      BY <1>4, SignalsArePosted
    <3>2. r \in Seq(Events) /\ \A e \in Of(r) : Posts(e)
      BY <1>5, <3>1, OfTwo
    <3>3. queue' = queue \o r
      BY <2>2
    <3> HIDE DEF r
    <3>4. QED BY <1>1, <3>2, <3>3, OfConcat DEF OK
  <2>3. QED BY <1>15, <2>1, <2>2 DEF AcceptTestFile
<1>16. ASSUME NEW k \in DOMAIN timers, Fire(k) PROVE OK(queue')
  <2>1. PICK n \in Nat : n = offers[TestUser] + 1
    BY <1>4 DEF RestTyped
  <2>2. queue' = Append(queue, Message(TestUser, <<File(n)>>)) \/ queue' = Append(queue, Message(TestUser, <<Text>>))
    BY <1>16, <2>1 DEF Fire
  <2>3. Posts(Message(TestUser, <<File(n)>>)) /\ Posts(Message(TestUser, <<Text>>))
    BY <1>4, SignalsArePosted
  <2>4. QED BY <1>1, <1>2, <1>5, <2>2, <2>3
<1>17. CASE UNCHANGED queue
  BY <1>1, <1>17
<1>18. CASE DoOpen \/ DoText \/ DoFile \/ AcceptDownload \/ Dismiss \/ OpenGroup \/ GroupSend
            \/ (\E p \in Ips : OpenUser(p)) \/ UNCHANGED vars
  BY <1>17, <1>18 DEF DoOpen, DoText, DoFile, AcceptDownload, Dismiss, OpenGroup, GroupSend, OpenUser, vars
<1>19. CASE \E w \in DOMAIN windows : \/ SendText(w) \/ SendFile(w) \/ ClickScreenshot(w) \/ Abandoned(w)
                                      \/ ShotTimer(w)
  BY <1>17, <1>19 DEF SendText, SendFile, ClickScreenshot, HidesItself, Abandoned, ShotTimer
<1>20. QED
  BY <1>8, <1>9, <1>10, <1>11, <1>12, <1>13, <1>14, <1>15, <1>16, <1>18, <1>19 DEF Next, UserStep, LoopStep
-----------------------------------------------------------------------------
(* What handlers have left to do, and the boxes.  The types, and that every file spoken of
   is among the tasks. *)

LEMMA ItemsAre ==
  ASSUME NEW p \in Ips
  PROVE  /\ \A what \in {"open", "text", "file"} : \A of \in {"message", "notice", "own"} : \A n \in Nat :
              Do(what, of, p, n) \in Items
         /\ Notice(p) \in Seq(Items) /\ \A ts : Due(ts, Notice(p))
<1>1. \A what \in {"open", "text", "file"} : \A of \in {"message", "notice", "own"} : \A n \in Nat :
        Do(what, of, p, n) \in Items
  BY DEF Do, Items
<1>2. Notice(p) \in Seq(Items)
  BY <1>1, OfOne DEF Notice
<1>3. ASSUME NEW ts PROVE Due(ts, Notice(p))
  BY DEF Due, Notice, Do
<1>4. QED BY <1>1, <1>2, <1>3

LEMMA MessageItemsAre ==
  ASSUME NEW e \in Signals, e.kind = "message", NEW ts, MessageListed(ts, e)
  PROVE  LET items == MessageItems(e.ip, e.contents)
         IN  /\ items \in Seq(Items) /\ Due(ts, items)
             /\ items # <<>> /\ items[1] = Do("open", "message", e.ip, 0)
             /\ \A k \in 1..Len(items) : items[k].ip = e.ip
<1> DEFINE c == e.contents
           first == Do("open", "message", e.ip, 0)
           others == [k \in DOMAIN c |-> Do(c[k].type, "message", e.ip, c[k].number)]
<1>1. e.ip \in Ips /\ c \in Seq(Contents)
  BY DEF Signals
<1>2. first \in Items /\ first.ip = e.ip /\ first.do = "open"
  BY <1>1, ItemsAre DEF Do
<1>3. ASSUME NEW k \in DOMAIN c
      PROVE  /\ others[k] \in Items /\ others[k].ip = e.ip
             /\ others[k].do = "file" => Listed(ts, others[k].ip, others[k].number)
  <2>1. c[k] \in Contents
    BY <1>1, <1>3, LenProperties, ElementOfSeq
  <2>2. c[k].type \in {"text", "file"} /\ c[k].number \in Nat
    BY <2>1 DEF Contents
  <2>3. others[k] \in Items
    BY <1>1, <2>2, ItemsAre
  <2>4. others[k].ip = e.ip /\ others[k].do = c[k].type /\ others[k].number = c[k].number
    BY DEF Do
  <2>5. QED BY <2>3, <2>4 DEF MessageListed
<1>4. others \in Seq(Items) /\ Len(others) = Len(c) /\ Len(c) \in Nat /\ DOMAIN c = 1..Len(c)
  <2>1. DOMAIN c = 1..Len(c) /\ Len(c) \in Nat
    BY <1>1, LenProperties
  <2>2. others = [k \in DOMAIN c |-> others[k]]
    OBVIOUS
  <2> HIDE DEF c, others, first
  <2>3. others \in [1..Len(c) -> Items]
    BY <1>3, <2>1, <2>2
  <2>4. QED BY <2>1, <2>3
<1> HIDE DEF c, others, first
<1>5. <<first>> \in Seq(Items) /\ Len(<<first>>) = 1 /\ <<first>>[1] = first
  <2>1. <<first>> \in Seq(Items)
    BY <1>2, OfOne
  <2>2. QED BY <2>1
<1>6. /\ <<first>> \o others \in Seq(Items) /\ Len(<<first>> \o others) = 1 + Len(c)
      /\ \A i \in 1 .. 1 + Len(c) :
           (<<first>> \o others)[i] = IF i <= 1 THEN <<first>>[i] ELSE others[i - 1]
  BY <1>4, <1>5, ConcatProperties
<1>7. ASSUME NEW i \in 1..(1 + Len(c))
      PROVE  \/ i = 1 /\ (<<first>> \o others)[i] = first
             \/ \E k \in DOMAIN c : (<<first>> \o others)[i] = others[k]
  <2>1. CASE i = 1
    BY <1>4, <1>5, <1>6, <2>1
  <2>2. CASE i # 1
    <3>1. (<<first>> \o others)[i] = others[i - 1] /\ i - 1 \in 1..Len(c)
      BY <1>4, <1>6, <2>2
    <3>2. QED BY <1>4, <3>1
  <2>3. QED BY <2>1, <2>2
<1>8. MessageItems(e.ip, e.contents) = <<first>> \o others
  BY DEF MessageItems, c, others, first
<1>9. DOMAIN (<<first>> \o others) = 1..(1 + Len(c))
  BY <1>6, LenProperties
<1>10. (<<first>> \o others)[1] = first /\ <<first>> \o others # <<>>
  <2>1. 1 \in 1..(1 + Len(c))
    BY <1>4
  <2>2. QED BY <1>4, <1>5, <1>6, <2>1
<1>11. Due(ts, <<first>> \o others)
  BY <1>2, <1>3, <1>7, <1>9 DEF Due
<1>12. \A k \in 1..(1 + Len(c)) : (<<first>> \o others)[k].ip = e.ip
  BY <1>2, <1>3, <1>7
<1>13. first = Do("open", "message", e.ip, 0)
  BY DEF first
<1>14. QED BY <1>6, <1>8, <1>10, <1>11, <1>12, <1>13

LEMMA GroupItemsAre ==
  ASSUME NEW S \in SUBSET Ips, IsFiniteSet(S), NEW ts
  PROVE  /\ GroupItems(S) \in Seq(Items) /\ Due(ts, GroupItems(S))
         /\ \A k \in DOMAIN GroupItems(S) : GroupItems(S)[k].of = "own"
<1> DEFINE to == SetToSeq(S)
           item(k) == Do(IF k % 2 = 1 THEN "open" ELSE "text", "own", to[(k + 1) \div 2], 0)
<1>1. to \in Seq(S)
  BY Ordered
<1>2. GroupItems(S) = [k \in 1..(2 * Len(to)) |-> item(k)]
  BY DEF GroupItems
<1> HIDE DEF to
<1>3. Len(to) \in Nat
  BY <1>1, LenProperties
<1>4. ASSUME NEW k \in 1..(2 * Len(to)) PROVE item(k) \in Items /\ item(k).of = "own" /\ item(k).do # "file"
  <2>1. (k + 1) \div 2 \in 1..Len(to)
    BY <1>3
  <2>2. to[(k + 1) \div 2] \in Ips
    BY <1>1, <2>1, ElementOfSeq
  <2>3. QED BY <2>2, ItemsAre DEF Do
<1> HIDE DEF item
<1>5. QED BY <1>2, <1>3, <1>4 DEF Due

LEMMA BoxesStep ==
  ASSUME Typed, Offered, [Next]_vars
  PROVE  /\ todo' \in Seq(Items) /\ prompts' \in Seq(Boxes)
         /\ Due(tasks', todo') /\ \A b \in Of(prompts') : BoxListed(tasks', b)
<1> USE DEF Typed
<1> DEFINE Good(items) == items \in Seq(Items) /\ Due(tasks', items)
           Fine(bs) == bs \in Seq(Boxes) /\ \A b \in Of(bs) : BoxListed(tasks', b)
<1> SUFFICES Good(todo') /\ Fine(prompts')
  OBVIOUS
<1>1. \A p, n : Listed(tasks, p, n) => Listed(tasks', p, n)
  BY TasksStay
<1>2. \A items : Due(tasks, items) => Due(tasks', items)
  BY <1>1 DEF Due
<1>3. Good(todo) /\ Fine(prompts)
  <2>1. Good(todo)
    BY <1>2 DEF Offered, BoxesTyped
  <2>2. \A b : BoxListed(tasks, b) => BoxListed(tasks', b)
    BY <1>1, <1>2 DEF BoxListed
  <2>3. Fine(prompts)
    BY <2>2 DEF Offered, BoxesTyped
  <2>4. QED BY <2>1, <2>3
<1>4. Good(<<>>)
  BY OfNone DEF Due
<1>5. todo # <<>> => /\ Head(todo) \in Items /\ Good(Tail(todo))
                     /\ Head(todo).do = "file" => Listed(tasks', Head(todo).ip, Head(todo).number)
  <2>1. SUFFICES ASSUME todo # <<>>
                 PROVE  /\ Head(todo) \in Items /\ Good(Tail(todo))
                        /\ Head(todo).do = "file" => Listed(tasks', Head(todo).ip, Head(todo).number)
    OBVIOUS
  <2>2. /\ Head(todo) = todo[1] /\ todo[1] \in Items /\ Len(todo) \in Nat \ {0}
        /\ Tail(todo) \in Seq(Items) /\ Len(Tail(todo)) = Len(todo) - 1
        /\ \A k \in 1..(Len(todo) - 1) : Tail(todo)[k] = todo[k + 1]
    BY <1>3, <2>1, OfTail
  <2>3. DOMAIN todo = 1..Len(todo) /\ DOMAIN Tail(todo) = 1..(Len(todo) - 1)
    BY <1>3, <2>2, LenProperties
  <2>4. Due(tasks', Tail(todo))
    BY <1>3, <2>2, <2>3 DEF Due
  <2>5. QED BY <1>3, <2>2, <2>3, <2>4 DEF Due
<1>6. prompts # <<>> => /\ prompts[1] \in Boxes /\ BoxListed(tasks', prompts[1])
                        /\ Fine(Tail(prompts)) /\ Good(prompts[1].rest)
  <2>1. SUFFICES ASSUME prompts # <<>>
                 PROVE  /\ prompts[1] \in Boxes /\ BoxListed(tasks', prompts[1])
                        /\ Fine(Tail(prompts)) /\ Good(prompts[1].rest)
    OBVIOUS
  <2>2. /\ prompts[1] \in Boxes /\ prompts[1] \in Of(prompts)
        /\ Tail(prompts) \in Seq(Boxes) /\ Of(Tail(prompts)) \subseteq Of(prompts)
    BY <1>3, <2>1, OfTail
  <2>3. prompts[1].rest \in Seq(Items)
    BY <2>2 DEF Boxes
  <2>4. QED BY <1>3, <2>2, <2>3 DEF BoxListed
<1>7. ASSUME NEW bs, Fine(bs), NEW b \in Boxes, BoxListed(tasks', b) PROVE Fine(<<b>> \o bs) /\ Fine(<<b>>)
  <2>1. <<b>> \in Seq(Boxes) /\ Of(<<b>>) = {b}
    BY <1>7, OfOne
  <2>2. <<b>> \o bs \in Seq(Boxes) /\ Of(<<b>> \o bs) = {b} \cup Of(bs)
    <3> DEFINE one == <<b>>
    <3>1. one \in Seq(Boxes) /\ bs \in Seq(Boxes) /\ Of(one) = {b}
      BY <1>7, <2>1
    <3> HIDE DEF one
    <3>2. one \o bs \in Seq(Boxes) /\ Of(one \o bs) = Of(one) \cup Of(bs)
      BY <3>1, OfConcat
    <3>3. QED BY <3>1, <3>2 DEF one
  <2>3. QED BY <1>7, <2>1, <2>2
<1>8. Fine(<<>>)
  BY OfNone
<1>9. ASSUME NEW w \in Nat, NEW rest, Good(rest)
      PROVE  Told(w, rest) \in Boxes /\ BoxListed(tasks', Told(w, rest))
  BY <1>9 DEF Told, Box, Boxes, BoxListed, Ips
<1>10. ASSUME NEW bs, Fine(bs), NEW p, NEW q, FilesSent(p, q, bs) PROVE Fine(prompts')
  <2>1. NoWindow \in Nat
    BY DEF NoWindow
  <2>2. Fine(<<Told(NoWindow, <<>>)>> \o bs)
    BY <1>4, <1>7, <1>9, <1>10, <2>1
  <2>3. QED BY <1>10, <2>2 DEF FilesSent
<1> HIDE DEF Good, Fine
<1>11. ASSUME prompts # <<>>, Returns PROVE Good(todo') /\ Fine(prompts')
  <2> DEFINE rest == prompts[1].rest
             late == [k \in DOMAIN rest |-> [rest[k] EXCEPT !.late = TRUE]]
  <2>1. rest \in Seq(Items) /\ Due(tasks', rest)
    BY <1>6, <1>11 DEF Good
  <2>2. todo' = late /\ prompts' = Tail(prompts)
    BY <1>11 DEF Returns, Resumed
  <2>3. Len(rest) \in Nat /\ DOMAIN rest = 1..Len(rest)
    BY <2>1, LenProperties
  <2> HIDE DEF rest
  <2>4. \A i \in Items : [i EXCEPT !.late = TRUE] \in Items
    BY DEF Items
  <2>5. \A k \in DOMAIN rest : rest[k] \in Items
    BY <2>1, <2>3, ElementOfSeq
  <2>6. \A k \in DOMAIN rest : /\ late[k] \in Items
                               /\ late[k] = [rest[k] EXCEPT !.late = TRUE]
    BY <2>4, <2>5
  <2>7. \A i \in Items : LET l == [i EXCEPT !.late = TRUE]
                         IN  l.do = i.do /\ l.ip = i.ip /\ l.number = i.number
    BY DEF Items
  <2>8. Due(tasks', late)
    BY <2>1, <2>5, <2>6, <2>7 DEF Due
  <2>9. late \in Seq(Items)
    BY <2>3, <2>6
  <2>10. QED BY <1>6, <1>11, <2>2, <2>8, <2>9 DEF Good
<1>12. CASE DoOpen \/ DoText
  BY <1>3, <1>5, <1>12 DEF DoOpen, DoText
<1>13. CASE DoFile
  <2> DEFINE i == Head(todo)
             b == Box("question", i.ip, i.number, NoWindow, Tail(todo))
  <2>1. i \in Items /\ Good(Tail(todo)) /\ Listed(tasks', i.ip, i.number)
    BY <1>5, <1>13 DEF DoFile
  <2>2. i.ip \in Ips /\ i.number \in Nat
    BY <2>1 DEF Items
  <2>3. b \in Boxes /\ BoxListed(tasks', b)
    BY <2>1, <2>2 DEF Box, Boxes, BoxListed, NoWindow, Good
  <2>4. prompts' = <<b>> \o prompts /\ todo' = <<>>
    BY <1>13 DEF DoFile
  <2> HIDE DEF b, i
  <2>5. QED BY <1>3, <1>4, <1>7, <2>3, <2>4
<1>14. CASE HandleMessage
  <2>1. PICK e \in Signals : e = queue[Next1] /\ e \in Of(queue) /\ e.kind = "message"
    BY <1>14, NextIsReached DEF HandleMessage, Signals, Deletions
  <2>2. MessageListed(tasks', e)
    BY <1>1, <2>1 DEF Offered, MessageListed
  <2>3. todo' = MessageItems(e.ip, e.contents) /\ prompts' = prompts
    BY <1>14, <2>1 DEF HandleMessage
  <2>4. QED BY <1>3, <2>1, <2>2, <2>3, MessageItemsAre DEF Good
<1>15. CASE HandleNotice
  <2>1. PICK p \in Ips : p = queue[Next1].ip
    BY <1>15, NextIsReached DEF HandleNotice, Signals, Deletions
  <2>2. todo' = Notice(p) /\ prompts' = prompts
    BY <1>15, <2>1 DEF HandleNotice
  <2>3. QED BY <1>3, <2>1, <2>2, ItemsAre DEF Good
<1>16. CASE AcceptDownload \/ AcceptTestFile \/ Dismiss
  <2>1. prompts # <<>>
    BY <1>16 DEF AcceptDownload, AcceptTestFile, Dismiss
  <2>2. CASE Returns
    BY <1>11, <2>1, <2>2
  <2>3. CASE prompts' = <<Told(NoWindow, prompts[1].rest)>> \o Tail(prompts) /\ UNCHANGED todo
    <3>1. Told(NoWindow, prompts[1].rest) \in Boxes /\ BoxListed(tasks', Told(NoWindow, prompts[1].rest))
      BY <1>6, <1>9, <2>1 DEF NoWindow
    <3>2. QED BY <1>3, <1>6, <1>7, <2>1, <2>3, <3>1
  <2>4. QED BY <1>16, <2>2, <2>3 DEF AcceptDownload, AcceptTestFile, Dismiss
<1>17. CASE OpenGroup
  <2>1. GroupBox \in Boxes /\ BoxListed(tasks', GroupBox)
    <3>1. GroupBox = [kind |-> "group", ip |-> users, number |-> 0, owner |-> 0, rest |-> <<>>]
      BY DEF GroupBox, Box, NoWindow
    <3>2. QED BY <1>4, <3>1 DEF Boxes, BoxListed, RestTyped, Good
  <2>2. prompts' = <<GroupBox>> /\ todo' = todo
    BY <1>17 DEF OpenGroup
  <2>3. QED BY <1>3, <1>7, <1>8, <2>1, <2>2
<1>18. CASE GroupSend
  <2>1. prompts[1] \in Boxes /\ prompts[1].kind = "group" /\ Fine(Tail(prompts))
    BY <1>6, <1>18 DEF GroupSend
  <2>2. prompts[1].ip \in SUBSET Ips /\ IsFiniteSet(prompts[1].ip)
    BY <2>1 DEF Boxes
  <2>3. PICK S \in SUBSET prompts[1].ip : todo' = GroupItems(S)
    BY <1>18 DEF GroupSend
  <2>4. S \in SUBSET Ips /\ IsFiniteSet(S)
    BY <2>2, FS_Subset
  <2>5. Good(todo')
    BY <2>3, <2>4, GroupItemsAre DEF Good
  <2>6. prompts' = <<Told(NoWindow, <<>>)>> \o Tail(prompts)
    BY <1>18 DEF GroupSend
  <2>7. NoWindow \in Nat
    BY DEF NoWindow
  <2>8. QED BY <1>4, <1>7, <1>9, <2>1, <2>5, <2>6, <2>7
<1>19. CASE ChooseFile
  BY <1>3, <1>6, <1>10, <1>19 DEF ChooseFile
<1>20. ASSUME NEW w \in DOMAIN windows, SendText(w) \/ SendFile(w) \/ Taken(w)
       PROVE  Good(todo') /\ Fine(prompts')
  <2>1. todo' = todo /\ w \in Nat
    BY <1>20 DEF SendText, SendFile, Taken, WindowsTyped
  <2>2. CASE SendText(w)
    <3>1. Fine(<<Told(w, <<>>)>>)
      BY <1>4, <1>7, <1>8, <1>9, <2>1
    <3>2. QED BY <1>3, <2>1, <2>2, <3>1 DEF SendText
  <2>3. CASE SendFile(w)
    <3> DEFINE b == Box("choose", windows[w].ip, 0, w, <<>>)
    <3>1. windows[w].ip \in Ips
      BY WindowAt DEF Windows
    <3>2. b \in Boxes /\ BoxListed(tasks', b)
      BY <1>4, <2>1, <3>1 DEF Box, Boxes, BoxListed, Good
    <3>3. prompts' = <<b>>
      BY <2>3 DEF SendFile
    <3> HIDE DEF b
    <3>4. QED BY <1>3, <1>7, <1>8, <2>1, <3>2, <3>3
  <2>4. CASE Taken(w)
    BY <1>3, <1>8, <1>10, <2>1, <2>4 DEF Taken
  <2>5. QED BY <1>20, <2>2, <2>3, <2>4
<1>21. CASE UNCHANGED <<todo, prompts>>
  BY <1>3, <1>21
<1>22. CASE EngineStep
  BY <1>21, <1>22 DEF EngineStep, FellowUpdated, Noticed, TextReceived, FileReceived, Arrives
<1>23. CASE HandleOnline \/ HandleOffline \/ HandleDelete \/ ToolDeleted \/ CloseMain
            \/ (\E p \in Ips : OpenUser(p)) \/ (\E k \in DOMAIN timers : Fire(k)) \/ UNCHANGED vars
  BY <1>21, <1>23 DEF HandleOnline, HandleOffline, HandleDelete, ToolDeleted, CloseMain, OpenUser, Fire, vars
<1>24. CASE \E w \in DOMAIN windows : CloseWindow(w) \/ ClickScreenshot(w) \/ Abandoned(w) \/ ShotTimer(w)
  BY <1>21, <1>24 DEF CloseWindow, ClickScreenshot, Abandoned, ShotTimer
<1>25. QED
  BY <1>12, <1>13, <1>14, <1>15, <1>16, <1>17, <1>18, <1>19, <1>20, <1>22, <1>23, <1>24
     DEF Next, UserStep, LoopStep

(* All of them together. *)
LEMMA TypesStep ==
  ASSUME Typed, Offered, [Next]_vars
  PROVE  Typed' /\ Offered'
<1>1. WindowsTyped' /\ RestTyped'
  BY WindowsStep, RestStep
<1>2. BoxesTyped' /\ Due(tasks', todo') /\ \A b \in Of(prompts') : BoxListed(tasks', b)
  BY BoxesStep DEF BoxesTyped
<1>3. queue' \in Seq(Signals \cup Deletions)
  BY QueueStep
<1>4. ASSUME NEW e \in Of(queue')
      PROVE  /\ MessageListed(tasks', e)
             /\ e.kind \in {"delete", "tool"} => e.ip \in DOMAIN windows'
  <2>1. DOMAIN windows \subseteq DOMAIN windows'
    BY WindowsStep
  <2>2. CASE e \in Of(queue)
    <3>1. MessageListed(tasks, e) => MessageListed(tasks', e)
      BY TasksStay DEF MessageListed
    <3>2. e.kind \in {"delete", "tool"} => e.ip \in DOMAIN windows
      BY <2>2 DEF Typed, QueueTyped, Of
    <3>3. QED BY <2>1, <2>2, <3>1, <3>2 DEF Offered
  <2>3. CASE Posts(e)
    <3>1. CASE e \in Signals /\ MessageListed(tasks', e)
      BY <3>1 DEF Signals
    <3>2. CASE e \in Deletions /\ e.ip \in DOMAIN windows
      BY <2>1, <3>2 DEF Deletions, MessageListed
    <3>3. QED BY <2>3, <3>1, <3>2 DEF Posts
  <2>4. QED BY <1>4, <2>2, <2>3, QueueStep
<1>5. QueueTyped'
  BY <1>3, <1>4 DEF QueueTyped, Of
<1>6. Offered'
  BY <1>2, <1>4 DEF Offered
<1>7. QED BY <1>1, <1>2, <1>5, <1>6 DEF Typed
-----------------------------------------------------------------------------
(* What a step does to a window that is there. *)
LEMMA WindowStep ==
  ASSUME Typed, [Next]_vars, NEW w \in DOMAIN windows
  PROVE  \/ windows'[w] = windows[w]
         \/ /\ departed' \/ CloseWindow(w)
            /\ windows'[w] = [windows[w] EXCEPT !.visible = FALSE]
         \/ /\ HandleDelete /\ queue[Next1].ip = w
            /\ windows'[w] = [windows[w] EXCEPT !.gone = TRUE, !.visible = FALSE]
         \/ ClickScreenshot(w) /\ windows'[w] = [windows[w] EXCEPT !.visible = FALSE, !.shot = "timer"]
         \/ ShotTimer(w) /\ \E s \in {"made", "tool"} : windows'[w] = [windows[w] EXCEPT !.shot = s]
         \/ Taken(w) /\ windows'[w] = [windows[w] EXCEPT !.visible = TRUE, !.shot = "none"]
         \/ Abandoned(w) /\ windows'[w] = [windows[w] EXCEPT !.shot = "over"]
         \/ /\ ToolDeleted /\ queue[Next1].ip = w
            /\ windows'[w] = [windows[w] EXCEPT !.visible = ~windows[w].gone]
<1> USE DEF Typed
<1>1. CASE UNCHANGED windows
  BY <1>1
<1>2. ASSUME NEW p \in Ips, OpenChatWindow(p) \/ Made(p) PROVE windows'[w] = windows[w]
  BY <1>2, MadeStep DEF OpenChatWindow, WindowsTyped
<1>3. CASE DoOpen \/ DoText \/ DoFile
  <2>1. Head(todo).ip \in Ips
    <3>1. todo # <<>> /\ todo \in Seq(Items)
      BY <1>3 DEF BoxesTyped, DoOpen, DoText, DoFile
    <3>2. Head(todo) \in Items
      BY <3>1, OfTail
    <3>3. QED BY <3>2 DEF Items
  <2>2. CASE DoOpen
    BY <1>2, <2>1, <2>2 DEF DoOpen
  <2>3. CASE AppendTextToChat(Head(todo))
    BY <1>1, <1>2, <2>1, <2>3 DEF AppendTextToChat
  <2>4. QED BY <1>3, <2>2, <2>3 DEF DoText, DoFile
<1>4. CASE HandleOffline
  <2>1. CASE UNCHANGED windows
    BY <1>1, <2>1
  <2>2. CASE departed' = TRUE /\ windows' = Hidden(chatOf[queue[Next1].ip])
    <3>1. PICK v : v = chatOf[queue[Next1].ip]
      OBVIOUS
    <3>2. windows' = [windows EXCEPT ![v] = [windows[v] EXCEPT !.visible = FALSE]]
      BY <2>2, <3>1 DEF Hidden
    <3>3. windows'[w] = windows[w] \/ windows'[w] = [windows[w] EXCEPT !.visible = FALSE]
      BY <3>2 DEF WindowsTyped
    <3>4. QED BY <2>2, <3>3
  <2>3. QED BY <1>4, <2>1, <2>2 DEF HandleOffline
<1>5. CASE HandleDelete
  <2>1. PICK v : v = queue[Next1].ip
    OBVIOUS
  <2>2. windows' = [windows EXCEPT ![v].gone = TRUE, ![v].visible = FALSE]
    BY <1>5, <2>1 DEF HandleDelete
  <2>3. v \in DOMAIN windows /\ windows \in Seq(Windows)
    BY <1>5, <2>1, NextIsReached DEF HandleDelete, QueueTyped, WindowsTyped, Of
  <2>4. windows' = [windows EXCEPT ![v] = [windows[v] EXCEPT !.gone = TRUE, !.visible = FALSE]]
    BY <2>2, <2>3
  <2>5. QED BY <1>5, <2>1, <2>3, <2>4
<1>6. ASSUME NEW p \in Ips, OpenUser(p) PROVE windows'[w] = windows[w]
  BY <1>2, <1>6 DEF OpenUser
<1>7. CASE CloseMain
  <2>1. departed' /\ windows'[w] = [windows[w] EXCEPT !.visible = @ /\ chatOf[windows[w].ip] # w]
    BY <1>7 DEF CloseMain
  <2>2. \A r \in Windows : [r EXCEPT !.visible = @ /\ chatOf[r.ip] # w] \in {r, [r EXCEPT !.visible = FALSE]}
    BY DEF Windows
  <2>3. QED BY <2>1, <2>2, WindowAt
<1>8. CASE ToolDeleted
  BY <1>8 DEF ToolDeleted
<1>9. ASSUME NEW v \in DOMAIN windows, CloseWindow(v) \/ ClickScreenshot(v) PROVE
         \/ windows'[w] = windows[w]
         \/ CloseWindow(w) /\ windows'[w] = [windows[w] EXCEPT !.visible = FALSE]
         \/ ClickScreenshot(w) /\ windows'[w] = [windows[w] EXCEPT !.visible = FALSE, !.shot = "timer"]
  <2>1. CASE CloseWindow(v)
    <3>1. windows' = [windows EXCEPT ![v] = [windows[v] EXCEPT !.visible = FALSE]]
      BY <2>1 DEF CloseWindow, Hidden
    <3>2. QED BY <2>1, <3>1
  <2>2. CASE ClickScreenshot(v)
    <3>1. windows' = [windows EXCEPT ![v] = [windows[v] EXCEPT !.visible = FALSE, !.shot = "timer"]]
      BY <2>2 DEF ClickScreenshot, WindowsTyped
    <3>2. QED BY <2>2, <3>1
  <2>3. QED BY <1>9, <2>1, <2>2
<1>10. ASSUME NEW v \in DOMAIN windows, ShotTimer(v) \/ Taken(v) \/ Abandoned(v) PROVE
         \/ windows'[w] = windows[w]
         \/ ShotTimer(w) /\ \E s \in {"made", "tool"} : windows'[w] = [windows[w] EXCEPT !.shot = s]
         \/ Taken(w) /\ windows'[w] = [windows[w] EXCEPT !.visible = TRUE, !.shot = "none"]
         \/ Abandoned(w) /\ windows'[w] = [windows[w] EXCEPT !.shot = "over"]
  <2>1. CASE ShotTimer(v)
    <3>1. PICK s \in {"made", "tool"} : windows' = [windows EXCEPT ![v] = [windows[v] EXCEPT !.shot = s]]
      BY <2>1 DEF ShotTimer, Shot
    <3>2. QED BY <2>1, <3>1
  <2>2. CASE Taken(v)
    <3>1. windows' = [windows EXCEPT ![v] = [windows[v] EXCEPT !.visible = TRUE, !.shot = "none"]]
      BY <2>2 DEF Taken, WindowsTyped
    <3>2. QED BY <2>2, <3>1
  <2>3. CASE Abandoned(v)
    BY <2>3 DEF Abandoned, Shot
  <2>4. QED BY <1>10, <2>1, <2>2, <2>3
<1>11. CASE EngineStep
  BY <1>1, <1>11 DEF EngineStep, FellowUpdated, Noticed, TextReceived, FileReceived, Arrives, shots
<1>12. CASE HandleOnline \/ HandleMessage \/ HandleNotice \/ \E k \in DOMAIN timers : Fire(k)
  BY <1>1, <1>12 DEF HandleOnline, HandleMessage, HandleNotice, Fire, shots
<1>13. CASE OpenGroup \/ AcceptDownload \/ AcceptTestFile \/ Dismiss \/ GroupSend \/ ChooseFile
            \/ \E v \in DOMAIN windows : SendText(v) \/ SendFile(v)
  BY <1>1, <1>13 DEF OpenGroup, AcceptDownload, AcceptTestFile, Dismiss, GroupSend, ChooseFile, SendText,
                     SendFile, shots
<1>14. CASE UNCHANGED vars
  BY <1>1, <1>14 DEF vars, shots
<1>15. QED
  BY <1>3, <1>4, <1>5, <1>6, <1>7, <1>8, <1>9, <1>10, <1>11, <1>12, <1>13, <1>14 DEF Next, UserStep, LoopStep
(* The same, field by field. *)
Becomes(w, visible, gone, shot) ==
  windows'[w].visible = visible /\ windows'[w].gone = gone /\ windows'[w].shot = shot

LEMMA WindowBecomes ==
  ASSUME Typed, [Next]_vars, NEW w \in DOMAIN windows
  PROVE  \/ Becomes(w, windows[w].visible, windows[w].gone, windows[w].shot)
         \/ (departed' \/ CloseWindow(w)) /\ Becomes(w, FALSE, windows[w].gone, windows[w].shot)
         \/ HandleDelete /\ queue[Next1].ip = w /\ Becomes(w, FALSE, TRUE, windows[w].shot)
         \/ ClickScreenshot(w) /\ Becomes(w, FALSE, windows[w].gone, "timer")
         \/ /\ ShotTimer(w)
            /\ \E s \in {"made", "tool"} : Becomes(w, windows[w].visible, windows[w].gone, s)
         \/ Taken(w) /\ Becomes(w, TRUE, windows[w].gone, "none")
         \/ Abandoned(w) /\ Becomes(w, windows[w].visible, windows[w].gone, "over")
         \/ ToolDeleted /\ queue[Next1].ip = w /\ Becomes(w, ~windows[w].gone, windows[w].gone, windows[w].shot)
<1>1. PICK r \in Windows : r = windows[w]
  BY WindowAt DEF Typed
<1>2. ASSUME NEW v
      PROVE  windows'[w] = [r EXCEPT !.visible = v] => Becomes(w, v, r.gone, r.shot)
  BY DEF Windows, Becomes
<1>3. windows'[w] = [r EXCEPT !.gone = TRUE, !.visible = FALSE] => Becomes(w, FALSE, TRUE, r.shot)
  BY DEF Windows, Becomes
<1>4. ASSUME NEW s
      PROVE  /\ windows'[w] = [r EXCEPT !.shot = s] => Becomes(w, r.visible, r.gone, s)
             /\ \A v : windows'[w] = [r EXCEPT !.visible = v, !.shot = s] => Becomes(w, v, r.gone, s)
  BY DEF Windows, Becomes
<1>5. windows'[w] = r => Becomes(w, r.visible, r.gone, r.shot)
  BY DEF Becomes
<1>6. QED BY <1>1, <1>2, <1>3, <1>4, <1>5, WindowStep
-----------------------------------------------------------------------------
(* Texts.  A window that can be seen stays so while a handler runs through its items, and one
   is there once it was opened. *)
LEMMA HasWindowStays ==
  ASSUME WindowsTyped, NEW i \in Items,
         OpenChatWindow(i.ip) \/ AppendTextToChat(i)
  PROVE  /\ \A q \in Ips : HasWindow(q) => HasWindow(q)'
         /\ OpenChatWindow(i.ip) => HasWindow(i.ip)'
<1> DEFINE p == i.ip
<1>1. p \in Ips
  BY DEF Items
<1>2. CASE UNCHANGED <<windows, chatOf>> /\ (OpenChatWindow(p) => HasWindow(p))
  BY <1>2 DEF HasWindow
<1>3. CASE Made(p)
  <2>1. /\ Len(windows) \in Nat /\ windows'[Len(windows) + 1] = NewWindow(p)
        /\ chatOf' = [chatOf EXCEPT ![p] = Len(windows) + 1]
        /\ \A w \in 1..Len(windows) : windows'[w] = windows[w]
    BY <1>1, <1>3, MadeStep
  <2>2. chatOf \in [Ips -> 0..Len(windows)]
    BY DEF WindowsTyped
  <2>3. ASSUME NEW q \in Ips, HasWindow(q) \/ q = p PROVE HasWindow(q)'
    <3>1. CASE q = p
      <4>1. chatOf'[q] = Len(windows) + 1 /\ chatOf'[q] # NoWindow
        BY <1>1, <2>1, <2>2, <3>1 DEF NoWindow
      <4>2. windows'[chatOf'[q]].visible
        BY <2>1, <4>1 DEF NewWindow
      <4>3. QED BY <4>1, <4>2 DEF HasWindow
    <3>2. CASE q # p /\ HasWindow(q)
      <4>1. chatOf'[q] = chatOf[q] /\ chatOf[q] \in 1..Len(windows)
        BY <2>1, <2>2, <3>2 DEF HasWindow, NoWindow
      <4>2. QED BY <2>1, <3>2, <4>1 DEF HasWindow
    <3>3. QED BY <2>3, <3>1, <3>2
  <2>4. QED BY <1>1, <2>3
<1>4. CASE OpenChatWindow(p)
  BY <1>2, <1>3, <1>4 DEF OpenChatWindow
<1>5. CASE AppendTextToChat(i) /\ ~OpenChatWindow(p)
  <2>1. Made(p) \/ UNCHANGED <<windows, chatOf>>
    BY <1>5 DEF AppendTextToChat
  <2>2. QED BY <1>2, <1>3, <1>5, <2>1
<1>6. QED BY <1>4, <1>5

LEMMA SeenStep ==
  ASSUME Typed, Seen, [Next]_vars
  PROVE  Seen'
<1> USE DEF Typed
<1> DEFINE Free(i) == ~(i.of = "message" /\ ~i.late /\ i.do # "open")
<1>1. ASSUME \A k \in DOMAIN todo' : Free(todo'[k]) PROVE Seen'
  BY <1>1 DEF Seen
<1>2. ASSUME todo' = <<>> PROVE Seen'
  BY <1>2 DEF Seen
<1>3. CASE DoOpen \/ DoText
  <2>1. todo # <<>> /\ todo' = Tail(todo) /\ todo \in Seq(Items)
    BY <1>3 DEF DoOpen, DoText, BoxesTyped
  <2>2. /\ Head(todo) = todo[1] /\ todo[1] \in Items /\ Len(todo) \in Nat \ {0}
        /\ Tail(todo) \in Seq(Items) /\ Len(Tail(todo)) = Len(todo) - 1
        /\ \A k \in 1..(Len(todo) - 1) : Tail(todo)[k] = todo[k + 1]
    BY <2>1, OfTail
  <2>3. DOMAIN todo = 1..Len(todo) /\ DOMAIN Tail(todo) = 1..(Len(todo) - 1)
    BY <2>1, <2>2, LenProperties
  <2>4. PICK i \in Items : i = todo[1]
    BY <2>2
  <2>5. /\ \A q \in Ips : HasWindow(q) => HasWindow(q)'
        /\ i.do = "open" => HasWindow(i.ip)'
    <3>1. OpenChatWindow(i.ip) \/ AppendTextToChat(i)
      BY <1>3, <2>2, <2>4 DEF DoOpen, DoText
    <3>2. i.do = "open" => OpenChatWindow(i.ip)
      BY <1>3, <2>2, <2>4 DEF DoOpen, DoText
    <3>3. QED BY <3>1, <3>2, HasWindowStays
  <2>6. ASSUME NEW k \in 1..(Len(todo) - 1), ~Free(todo[k + 1]), NEW q, q = todo[k + 1].ip
        PROVE  HasWindow(q)' \/ \E j \in 1..(k - 1) : todo[j + 1].do = "open" /\ todo[j + 1].ip = q
    <3>1. k + 1 \in DOMAIN todo
      BY <2>2, <2>3
    <3>2. q \in Ips
      <4>1. todo[k + 1] \in Items
        BY <2>1, <2>3, <3>1, ElementOfSeq
      <4>2. QED BY <2>6, <4>1 DEF Items
    <3>3. ASSUME NEW j \in 1..k, todo[j].do = "open", todo[j].ip = q
          PROVE  HasWindow(q)' \/ \E l \in 1..(k - 1) : todo[l + 1].do = "open" /\ todo[l + 1].ip = q
      <4>1. CASE j = 1
        <5>1. i.do = "open" /\ i.ip = q
          BY <2>4, <3>3, <4>1
        <5>2. QED BY <2>5, <5>1, Zenon
      <4>2. CASE j # 1
        <5>1. j - 1 \in 1..(k - 1) /\ (j - 1) + 1 = j
          BY <4>2
        <5>2. QED BY <3>3, <5>1
      <4>3. QED BY <4>1, <4>2
    <3>4. (k + 1) - 1 = k
      OBVIOUS
    <3>5. HasWindow(q) \/ \E j \in 1..k : todo[j].do = "open" /\ todo[j].ip = q
      BY <2>6, <3>1, <3>4 DEF Seen
    <3>6. QED BY <2>5, <3>2, <3>3, <3>5
  <2>7. \A k \in 1..(Len(todo) - 1) : \A j \in 1..(k - 1) : todo'[j] = todo[j + 1]
    BY <2>1, <2>2
  <2>8. ASSUME NEW k \in 1..(Len(todo) - 1), ~Free(todo'[k])
        PROVE  \/ chatOf'[todo'[k].ip] # NoWindow /\ windows'[chatOf'[todo'[k].ip]].visible
               \/ \E j \in 1..(k - 1) : todo'[j].do = "open" /\ todo'[j].ip = todo'[k].ip
    <3>1. PICK q : q = todo[k + 1].ip
      OBVIOUS
    <3>2. todo'[k] = todo[k + 1]
      BY <2>1, <2>2
    <3>3. HasWindow(q)' \/ \E j \in 1..(k - 1) : todo[j + 1].do = "open" /\ todo[j + 1].ip = q
      BY <2>6, <2>8, <3>1, <3>2
    <3>4. QED BY <2>7, <3>1, <3>2, <3>3 DEF HasWindow
  <2>9. DOMAIN todo' = 1..(Len(todo) - 1)
    BY <2>1, <2>3
  <2>10. QED BY <2>8, <2>9 DEF Seen, HasWindow
<1>4. CASE DoFile
  BY <1>2, <1>4 DEF DoFile
<1>5. CASE HandleMessage
  <2>1. PICK e \in Signals : e = queue[Next1] /\ e.kind = "message"
    BY <1>5, NextIsReached DEF HandleMessage, Signals, Deletions
  <2>2. todo' = MessageItems(e.ip, e.contents)
    BY <1>5, <2>1 DEF HandleMessage
  <2>3. \E ts : MessageListed(ts, e)
    <3>1. PICK ts : ts = [c \in DOMAIN e.contents |-> [peer |-> e.ip, number |-> e.contents[c].number]]
      OBVIOUS
    <3>2. MessageListed(ts, e)
      BY <3>1 DEF MessageListed, Listed
    <3>3. QED BY <3>2
  <2>4. /\ todo' \in Seq(Items) /\ todo'[1] = Do("open", "message", e.ip, 0)
        /\ \A k \in 1..Len(todo') : todo'[k].ip = e.ip
    BY <2>1, <2>2, <2>3, MessageItemsAre
  <2>5. DOMAIN todo' = 1..Len(todo') /\ Len(todo') \in Nat
    BY <2>4, LenProperties
  <2>6. todo'[1].do = "open" /\ todo'[1].ip = e.ip
    BY <2>4 DEF Do
  <2>7. ASSUME NEW k \in DOMAIN todo'
        PROVE  Free(todo'[k]) \/ \E j \in 1..(k - 1) : todo'[j].do = "open" /\ todo'[j].ip = todo'[k].ip
    <3>1. CASE k = 1
      BY <2>6, <3>1
    <3>2. CASE k # 1
      <4>1. 1 \in 1..(k - 1)
        BY <2>5, <3>2
      <4>2. QED BY <2>4, <2>5, <2>6, <4>1
    <3>3. QED BY <3>1, <3>2
  <2>8. QED BY <2>7 DEF Seen
<1>6. CASE HandleNotice
  <2>1. \A k \in DOMAIN todo' : Free(todo'[k])
    BY <1>6 DEF HandleNotice, Notice, Do
  <2>2. QED BY <1>1, <2>1
<1>7. CASE UNCHANGED todo /\ InLoop
  BY <1>2, <1>7 DEF InLoop
<1>8. ASSUME Returns, InLoop, prompts # <<>> PROVE Seen'
  <2>1. todo' = [k \in DOMAIN prompts[1].rest |-> [prompts[1].rest[k] EXCEPT !.late = TRUE]]
    BY <1>8 DEF Returns, Resumed
  <2>2. prompts[1].rest \in Seq(Items)
    <3>1. prompts[1] \in Boxes
      BY <1>8, OfTail DEF BoxesTyped
    <3>2. QED BY <3>1 DEF Boxes
  <2>3. \A k \in DOMAIN prompts[1].rest : prompts[1].rest[k] \in Items
    BY <2>2, LenProperties, ElementOfSeq
  <2>4. \A i \in Items : [i EXCEPT !.late = TRUE].late
    BY DEF Items
  <2>5. \A k \in DOMAIN todo' : Free(todo'[k])
    BY <2>1, <2>3, <2>4
  <2>6. QED BY <1>1, <2>5
<1>9. CASE AcceptDownload \/ AcceptTestFile \/ Dismiss
  BY <1>7, <1>8, <1>9 DEF AcceptDownload, AcceptTestFile, Dismiss
<1>10. CASE GroupSend
  <2>1. prompts[1] \in Boxes /\ prompts[1].kind = "group"
    BY <1>10, OfTail DEF GroupSend, BoxesTyped
  <2>2. prompts[1].ip \in SUBSET Ips /\ IsFiniteSet(prompts[1].ip)
    BY <2>1 DEF Boxes
  <2>3. PICK S \in SUBSET prompts[1].ip : todo' = GroupItems(S)
    BY <1>10 DEF GroupSend
  <2>4. S \in SUBSET Ips /\ IsFiniteSet(S)
    BY <2>2, FS_Subset
  <2>5. \A k \in DOMAIN todo' : todo'[k].of = "own"
    BY <2>3, <2>4, GroupItemsAre
  <2>6. QED BY <1>1, <2>5
<1>11. CASE UNCHANGED <<todo, windows, chatOf>>
  BY <1>11 DEF Seen, HasWindow
<1>12. CASE EngineStep \/ UNCHANGED vars
  BY <1>11, <1>12 DEF EngineStep, FellowUpdated, Noticed, TextReceived, FileReceived, Arrives, shots, vars
<1>13. CASE HandleOnline \/ HandleOffline \/ HandleDelete \/ ToolDeleted \/ \E k \in DOMAIN timers : Fire(k)
  BY <1>7, <1>13 DEF HandleOnline, HandleOffline, HandleDelete, ToolDeleted, Fire, Ready
<1>14. CASE OpenGroup \/ CloseMain \/ ChooseFile \/ \E p \in Ips : OpenUser(p)
  BY <1>7, <1>14 DEF OpenGroup, CloseMain, ChooseFile, OpenUser, UserFree
<1>15. CASE \E w \in DOMAIN windows : \/ CloseWindow(w) \/ SendText(w) \/ SendFile(w) \/ ClickScreenshot(w)
                                      \/ Taken(w) \/ Abandoned(w) \/ ShotTimer(w)
  BY <1>7, <1>15 DEF CloseWindow, SendText, SendFile, ClickScreenshot, Taken, Abandoned, ShotTimer, Usable, UserFree
<1>16. QED
  BY <1>3, <1>4, <1>5, <1>6, <1>9, <1>10, <1>12, <1>13, <1>14, <1>15 DEF Next, UserStep, LoopStep

LEMMA MessagesStep ==
  ASSUME Typed, Seen, MessagesAreSeen, [Next]_vars
  PROVE  MessagesAreSeen'
<1>1. CASE UNCHANGED lost
  BY <1>1 DEF MessagesAreSeen
<1>2. CASE DoText \/ DoFile
  <2>1. /\ todo # <<>> /\ todo \in Seq(Items) /\ AppendTextToChat(Head(todo)) /\ Head(todo).do # "open"
    BY <1>2 DEF DoText, DoFile, Typed, BoxesTyped
  <2>2. PICK i \in Items : i = Head(todo) /\ i = todo[1]
    BY <2>1, OfTail
  <2>3. i.of = "message" /\ ~i.late => HasWindow(i.ip)
    <3>1. 1 \in DOMAIN todo
      BY <2>1, OfTail, LenProperties
    <3>2. 1..(1 - 1) = {}
      OBVIOUS
    <3>3. QED BY <2>1, <2>2, <3>1, <3>2 DEF Seen
  <2>4. AppendTextToChat(i)
    BY <2>1, <2>2
  <2>5. lost' = lost \/ lost' = lost \cup {Loss(i)}
    BY <2>4 DEF AppendTextToChat
  <2>6. Loss(i).of = "message" => Loss(i).late \/ Loss(i).reshown
    BY <2>3 DEF Loss, HasWindow
  <2>7. QED BY <2>5, <2>6 DEF MessagesAreSeen
<1>3. CASE EngineStep \/ UNCHANGED vars
  BY <1>1, <1>3 DEF EngineStep, FellowUpdated, Noticed, TextReceived, FileReceived, Arrives, vars
<1>4. CASE DoOpen \/ HandleOnline \/ HandleOffline \/ HandleMessage \/ HandleNotice \/ HandleDelete \/ ToolDeleted
           \/ \E k \in DOMAIN timers : Fire(k)
  BY <1>1, <1>4 DEF DoOpen, HandleOnline, HandleOffline, HandleMessage, HandleNotice, HandleDelete, ToolDeleted, Fire
<1>5. CASE OpenGroup \/ CloseMain \/ AcceptDownload \/ AcceptTestFile \/ Dismiss \/ GroupSend \/ ChooseFile
           \/ \E p \in Ips : OpenUser(p)
  BY <1>1, <1>5 DEF OpenGroup, CloseMain, AcceptDownload, AcceptTestFile, Dismiss, GroupSend, ChooseFile, OpenUser
<1>6. CASE \E w \in DOMAIN windows : \/ CloseWindow(w) \/ SendText(w) \/ SendFile(w) \/ ClickScreenshot(w)
                                     \/ Taken(w) \/ Abandoned(w) \/ ShotTimer(w)
  BY <1>1, <1>6 DEF CloseWindow, SendText, SendFile, ClickScreenshot, Taken, Abandoned, ShotTimer
<1>7. QED BY <1>2, <1>3, <1>4, <1>5, <1>6 DEF Next, UserStep, LoopStep
-----------------------------------------------------------------------------
(* Screenshots. *)

(* A screenshot that was begun ends only when its picture is taken. *)
LEMMA ShootingStays ==
  ASSUME Typed, [Next]_vars, Shooting
  PROVE  Shooting' \/ \E w \in DOMAIN windows : Taken(w)
<1>1. PICK w \in DOMAIN windows : windows[w].shot # "none"
  BY DEF Shooting
<1>2. windows[w] \in Windows /\ w \in DOMAIN windows'
  BY WindowAt, WindowsStep DEF Typed
<1>3. windows'[w].shot # "none" \/ Taken(w)
  BY <1>1, WindowBecomes DEF Becomes
<1>4. QED BY <1>2, <1>3 DEF Shooting

LEMMA HiddenStep ==
  ASSUME Typed, OnlyScreenshotsHide, [Next]_vars
  PROVE  OnlyScreenshotsHide'
<1>1. CASE mainShown' = TRUE
  BY <1>1 DEF OnlyScreenshotsHide
<1>2. CASE \E w \in DOMAIN windows : Taken(w)
  BY <1>1, <1>2 DEF Taken, ShowsMain
<1>3. CASE UNCHANGED <<mainShown, running>>
  <2>1. SUFFICES ASSUME running, ~mainShown PROVE Shooting'
    BY <1>3 DEF OnlyScreenshotsHide
  <2>2. QED BY <1>2, <1>3, <2>1, ShootingStays DEF OnlyScreenshotsHide
<1>4. CASE CloseMain
  BY <1>4 DEF CloseMain, OnlyScreenshotsHide
<1>5. CASE ToolDeleted
  BY <1>1, <1>5 DEF ToolDeleted
<1>6. ASSUME NEW w \in DOMAIN windows, ClickScreenshot(w) PROVE OnlyScreenshotsHide'
  <2>1. windows[w] \in Windows /\ w \in DOMAIN windows'
    BY WindowAt, WindowsStep DEF Typed
  <2>2. windows' = [windows EXCEPT ![w] = [windows[w] EXCEPT !.visible = FALSE, !.shot = "timer"]]
    BY <1>6 DEF ClickScreenshot, Typed, WindowsTyped
  <2>3. \A r \in Windows : [r EXCEPT !.visible = FALSE, !.shot = "timer"].shot = "timer"
    BY DEF Windows
  <2>4. windows'[w].shot = "timer"
    BY <2>1, <2>2, <2>3
  <2>5. QED BY <2>1, <2>4 DEF Shooting, OnlyScreenshotsHide
<1>7. CASE EngineStep \/ UNCHANGED vars
  BY <1>3, <1>7 DEF EngineStep, FellowUpdated, Noticed, TextReceived, FileReceived, Arrives, vars, shots
<1>8. CASE DoOpen \/ DoText \/ DoFile \/ HandleOnline \/ HandleOffline \/ HandleMessage \/ HandleNotice \/ HandleDelete
           \/ \E k \in DOMAIN timers : Fire(k)
  BY <1>3, <1>8 DEF DoOpen, DoText, DoFile, HandleOnline, HandleOffline, HandleMessage, HandleNotice, HandleDelete,
                    Fire, shots
<1>9. CASE OpenGroup \/ AcceptDownload \/ AcceptTestFile \/ Dismiss \/ GroupSend \/ ChooseFile
           \/ \E p \in Ips : OpenUser(p)
  BY <1>3, <1>9 DEF OpenGroup, AcceptDownload, AcceptTestFile, Dismiss, GroupSend, ChooseFile, OpenUser, shots
<1>10. CASE \E w \in DOMAIN windows : CloseWindow(w) \/ SendText(w) \/ SendFile(w) \/ Abandoned(w) \/ ShotTimer(w)
  BY <1>3, <1>10 DEF CloseWindow, SendText, SendFile, Abandoned, ShotTimer, shots
<1>11. QED
  BY <1>2, <1>4, <1>5, <1>6, <1>7, <1>8, <1>9, <1>10 DEF Next, UserStep, LoopStep
-----------------------------------------------------------------------------
(* Downloads.  The task that is found is the first with the number asked for. *)
LEMMA OffererStep ==
  ASSUME Typed, Offered, FromTheOfferer, [Next]_vars
  PROVE  FromTheOfferer'
<1> DEFINE Earlier(s, ts) == \E j, k \in DOMAIN ts : /\ j < k /\ ts[j].number = ts[k].number
                                                     /\ ts[j].peer = s.peer
                                                     /\ ts[k] = [peer |-> s.ip, number |-> s.number]
<1>1. ASSUME NEW s, Earlier(s, tasks) PROVE Earlier(s, tasks')
  BY <1>1, TasksStay
<1>2. CASE UNCHANGED started
  BY <1>1, <1>2 DEF FromTheOfferer
<1>3. CASE AcceptDownload
  <2>1. UNCHANGED tasks
    BY <1>3 DEF AcceptDownload
  <2>2. PICK p, n : p = prompts[1].ip /\ n = prompts[1].number
    OBVIOUS
  <2>3. p # TestUser /\ \E k \in DOMAIN tasks : tasks[k] = [peer |-> p, number |-> n]
    <3>1. prompts[1] \in Of(prompts) /\ prompts[1].kind = "question" /\ prompts[1].ip # TestUser
      BY <1>3, OfTail DEF AcceptDownload, Typed, BoxesTyped
    <3>2. BoxListed(tasks, prompts[1])
      BY <3>1 DEF Offered
    <3>3. QED BY <2>2, <3>1, <3>2 DEF BoxListed, Listed
  <2>4. PICK k \in DOMAIN tasks : tasks[k] = [peer |-> p, number |-> n]
    BY <2>3
  <2>5. PICK j : j = Min(Matches(p, n))
    OBVIOUS
  <2>6. j \in Matches(p, n) /\ j <= k
    <3>1. Matches(p, n) \in SUBSET Nat /\ k \in Matches(p, n)
      BY <2>4 DEF Matches, Typed, RestTyped
    <3>2. QED BY <2>5, <3>1, SmallestOf
  <2>7. j \in DOMAIN tasks /\ tasks[j].number = n
    BY <2>6 DEF Matches
  <2>8. PICK s : s = [ip |-> p, number |-> n, peer |-> tasks[j].peer]
    OBVIOUS
  <2>9. started' = started \/ started' = started \cup {s}
    BY <1>3, <2>2, <2>5, <2>8 DEF AcceptDownload, Task
  <2>10. s.peer # s.ip => Earlier(s, tasks)
    <3>1. ASSUME s.peer # s.ip PROVE j < k
      <4>1. j # k
        BY <2>4, <2>8, <3>1
      <4>2. j \in Nat /\ k \in Nat
        BY <2>7, <2>4 DEF Typed, RestTyped
      <4>3. QED BY <2>6, <4>1, <4>2
    <3>2. QED BY <2>4, <2>7, <2>8, <3>1
  <2>11. QED BY <2>1, <2>9, <2>10 DEF FromTheOfferer
<1>4. CASE EngineStep \/ UNCHANGED vars
  BY <1>2, <1>4 DEF EngineStep, FellowUpdated, Noticed, TextReceived, FileReceived, Arrives, vars, files
<1>5. CASE DoOpen \/ DoText \/ DoFile \/ HandleOnline \/ HandleOffline \/ HandleMessage \/ HandleNotice
           \/ HandleDelete \/ ToolDeleted \/ \E k \in DOMAIN timers : Fire(k)
  BY <1>2, <1>5 DEF DoOpen, DoText, DoFile, HandleOnline, HandleOffline, HandleMessage, HandleNotice, HandleDelete,
                    ToolDeleted, Fire, files
<1>6. CASE OpenGroup \/ CloseMain \/ AcceptTestFile \/ Dismiss \/ GroupSend \/ ChooseFile
           \/ \E p \in Ips : OpenUser(p)
  BY <1>2, <1>6 DEF OpenGroup, CloseMain, AcceptTestFile, Dismiss, GroupSend, ChooseFile, OpenUser, files
<1>7. CASE \E w \in DOMAIN windows : \/ CloseWindow(w) \/ SendText(w) \/ SendFile(w) \/ ClickScreenshot(w)
                                     \/ Taken(w) \/ Abandoned(w) \/ ShotTimer(w)
  BY <1>2, <1>7 DEF CloseWindow, SendText, SendFile, ClickScreenshot, Taken, Abandoned, ShotTimer, files
<1>8. QED BY <1>3, <1>4, <1>5, <1>6, <1>7 DEF Next, UserStep, LoopStep
-----------------------------------------------------------------------------
(* Deleted windows.  What is posted, for a window that was there or for a new one. *)
LEMMA PostedFor ==
  ASSUME Typed, [Next]_vars, ~departed', NEW w
  PROVE  /\ Doomed(w)' => Doomed(w) \/ CloseWindow(w)
         /\ ToolPending(w)' => ToolPending(w) \/ Taken(w)
         /\ Doomed(w) \/ ToolPending(w) => w \in DOMAIN windows
<1>1. ASSUME NEW k \in DOMAIN queue', queue'[k].ip = w
      PROVE  /\ queue'[k].kind = "delete" => Doomed(w) \/ CloseWindow(w)
             /\ queue'[k].kind = "tool" => ToolPending(w) \/ Taken(w)
  <2>1. PICK e : e = queue'[k]
    OBVIOUS
  <2>2. e \in Of(queue) \/ Posts(e)
    BY <2>1, QueueStep DEF Of
  <2>3. CASE e \in Of(queue)
    BY <1>1, <2>1, <2>3 DEF Of, Doomed, ToolPending
  <2>4. CASE Posts(e)
    <3>1. e \in Signals => e.kind \notin {"delete", "tool"}
      BY DEF Signals
    <3>2. QED BY <1>1, <2>1, <2>4, <3>1 DEF Posts
  <2>5. QED BY <2>2, <2>3, <2>4
<1>2. QED BY <1>1 DEF Doomed, ToolPending, Typed, QueueTyped

LEMMA DepartedStays == [Next]_vars /\ departed => departed'
<1>1. SUFFICES ASSUME [Next]_vars, departed PROVE departed'
  OBVIOUS
<1>2. CASE UNCHANGED departed
  BY <1>1, <1>2
<1>3. CASE HandleOffline \/ CloseMain
  BY <1>1, <1>3 DEF HandleOffline, CloseMain
<1>4. CASE EngineStep \/ UNCHANGED vars
  BY <1>2, <1>4 DEF EngineStep, FellowUpdated, Noticed, TextReceived, FileReceived, Arrives, vars, shots
<1>5. CASE DoOpen \/ DoText \/ DoFile \/ HandleOnline \/ HandleMessage \/ HandleNotice \/ HandleDelete
           \/ ToolDeleted \/ \E k \in DOMAIN timers : Fire(k)
  BY <1>2, <1>5 DEF DoOpen, DoText, DoFile, HandleOnline, HandleMessage, HandleNotice, HandleDelete,
                    ToolDeleted, Fire, shots
<1>6. CASE OpenGroup \/ AcceptDownload \/ AcceptTestFile \/ Dismiss \/ GroupSend \/ ChooseFile
           \/ \E p \in Ips : OpenUser(p)
  BY <1>2, <1>6 DEF OpenGroup, AcceptDownload, AcceptTestFile, Dismiss, GroupSend, ChooseFile, OpenUser, shots
<1>7. CASE \E w \in DOMAIN windows : \/ CloseWindow(w) \/ SendText(w) \/ SendFile(w) \/ ClickScreenshot(w)
                                     \/ Taken(w) \/ Abandoned(w) \/ ShotTimer(w)
  BY <1>2, <1>7 DEF CloseWindow, SendText, SendFile, ClickScreenshot, Taken, Abandoned, ShotTimer, shots
<1>8. QED BY <1>1, <1>3, <1>4, <1>5, <1>6, <1>7 DEF Next, UserStep, LoopStep

(* Nothing is used that was deleted. *)
LEMMA UndefinedStep ==
  ASSUME Typed, Alive, [Next]_vars, ~departed
  PROVE  ~undefined'
<1>1. ~undefined
  BY DEF Alive
<1>2. CASE UNCHANGED undefined
  BY <1>1, <1>2
<1>3. CASE HandleDelete
  <2>1. PICK e : e = queue[Next1] /\ e \in Of(queue) /\ Reached(e) /\ e.kind = "delete"
    BY <1>3, NextIsReached DEF HandleDelete, Typed
  <2>2. Len(prompts) <= 0
    BY <2>1 DEF Alive, Of, Reached
  <2>3. prompts = <<>>
    BY <2>2, LenProperties, EmptySeq DEF Typed, BoxesTyped
  <2>4. QED BY <1>3, <2>3 DEF HandleDelete
<1>4. ASSUME NEW w \in DOMAIN windows, ShotTimer(w) PROVE ~undefined'
  <2>1. Shoots(w)
    BY <1>4 DEF ShotTimer, Shoots
  <2>2. ~windows[w].gone
    BY <2>1 DEF Alive, Quiet
  <2>3. QED BY <1>1, <1>4, <2>2 DEF ShotTimer
<1>5. CASE ToolDeleted
  <2>1. PICK w : w = queue[Next1].ip
    OBVIOUS
  <2>2. ToolPending(w) /\ w \in DOMAIN windows
    BY <1>5, <2>1, NextIsReached DEF ToolDeleted, ToolPending, Typed, QueueTyped, Of
  <2>3. ~windows[w].gone
    BY <2>2 DEF Alive, Quiet
  <2>4. QED BY <1>1, <1>5, <2>1, <2>3 DEF ToolDeleted
<1>6. CASE EngineStep \/ UNCHANGED vars
  BY <1>2, <1>6 DEF EngineStep, FellowUpdated, Noticed, TextReceived, FileReceived, Arrives, vars, shots
<1>7. CASE DoOpen \/ DoText \/ DoFile \/ HandleOnline \/ HandleOffline \/ HandleMessage \/ HandleNotice
           \/ \E k \in DOMAIN timers : Fire(k)
  BY <1>2, <1>7 DEF DoOpen, DoText, DoFile, HandleOnline, HandleOffline, HandleMessage, HandleNotice, Fire, shots
<1>8. CASE OpenGroup \/ CloseMain \/ AcceptDownload \/ AcceptTestFile \/ Dismiss \/ GroupSend \/ ChooseFile
           \/ \E p \in Ips : OpenUser(p)
  BY <1>2, <1>8 DEF OpenGroup, CloseMain, AcceptDownload, AcceptTestFile, Dismiss, GroupSend, ChooseFile, OpenUser,
                    shots
<1>9. CASE \E w \in DOMAIN windows : CloseWindow(w) \/ SendText(w) \/ SendFile(w) \/ ClickScreenshot(w) \/ Taken(w)
                                     \/ Abandoned(w)
  BY <1>2, <1>9 DEF CloseWindow, SendText, SendFile, ClickScreenshot, Taken, Abandoned, shots
<1>10. QED BY <1>3, <1>4, <1>5, <1>6, <1>7, <1>8, <1>9 DEF Next, UserStep, LoopStep

(* Windows that are made in a step are new in every respect. *)
LEMMA NewWindowsAre ==
  ASSUME Typed, [Next]_vars, NEW w \in DOMAIN windows', w \notin DOMAIN windows
  PROVE  ~windows'[w].gone /\ windows'[w].shot = "none"
<1> USE DEF Typed
<1>1. ASSUME NEW p \in Ips, Made(p) PROVE windows'[w] = NewWindow(p)
  BY <1>1, MadeStep DEF WindowsTyped
<1>2. \A p : ~NewWindow(p).gone /\ NewWindow(p).shot = "none"
  BY DEF NewWindow
<1>3. DOMAIN windows' # DOMAIN windows
  OBVIOUS
<1>4. \E p \in Ips : Made(p)
  <2>1. CASE DoOpen \/ DoText \/ DoFile
    <3>1. todo # <<>> /\ todo \in Seq(Items)
      BY <2>1 DEF BoxesTyped, DoOpen, DoText, DoFile
    <3>2. Head(todo) \in Items
      BY <3>1, OfTail
    <3>3. Head(todo).ip \in Ips
      BY <3>2 DEF Items
    <3>4. windows' # windows
      BY <1>3
    <3>5. CASE DoOpen
      BY <3>3, <3>4, <3>5 DEF DoOpen, OpenChatWindow
    <3>6. CASE AppendTextToChat(Head(todo))
      BY <3>3, <3>4, <3>6 DEF AppendTextToChat
    <3>7. QED BY <2>1, <3>5, <3>6 DEF DoText, DoFile
  <2>2. ASSUME NEW p \in Ips, OpenUser(p) PROVE Made(p)
    BY <1>3, <2>2 DEF OpenUser, OpenChatWindow
  <2>3. CASE UNCHANGED windows
    BY <1>3, <2>3
  <2>4. CASE HandleOffline \/ HandleDelete \/ ToolDeleted \/ CloseMain
    BY <1>3, <2>4 DEF HandleOffline, HandleDelete, ToolDeleted, CloseMain, Hidden
  <2>5. ASSUME NEW v \in DOMAIN windows, \/ CloseWindow(v) \/ ClickScreenshot(v) \/ Taken(v) \/ Abandoned(v)
                                         \/ ShotTimer(v)
        PROVE  FALSE
    BY <1>3, <2>5 DEF CloseWindow, ClickScreenshot, Taken, Abandoned, ShotTimer, Hidden, Shot
  <2>6. CASE EngineStep \/ UNCHANGED vars
    BY <2>3, <2>6 DEF EngineStep, FellowUpdated, Noticed, TextReceived, FileReceived, Arrives, vars, shots
  <2>7. CASE HandleOnline \/ HandleMessage \/ HandleNotice \/ \E k \in DOMAIN timers : Fire(k)
    BY <2>3, <2>7 DEF HandleOnline, HandleMessage, HandleNotice, Fire, shots
  <2>8. CASE OpenGroup \/ AcceptDownload \/ AcceptTestFile \/ Dismiss \/ GroupSend \/ ChooseFile
              \/ \E v \in DOMAIN windows : SendText(v) \/ SendFile(v)
    BY <2>3, <2>8 DEF OpenGroup, AcceptDownload, AcceptTestFile, Dismiss, GroupSend, ChooseFile, SendText,
                       SendFile, shots
  <2>9. QED
    BY <2>1, <2>2, <2>4, <2>5, <2>6, <2>7, <2>8 DEF Next, UserStep, LoopStep
<1>5. QED BY <1>1, <1>2, <1>4

LEMMA AliveStep ==
  ASSUME Typed, Alive, [Next]_vars
  PROVE  Alive'
<1>1. SUFFICES ASSUME ~departed'
               PROVE  /\ ~undefined'
                      /\ \A k \in DOMAIN queue' : queue'[k].kind = "delete" => queue'[k].level = 0
                      /\ \A w \in DOMAIN windows' :
                           /\ Doomed(w)' \/ windows'[w].gone => Quiet(w)'
                           /\ Shoots(w)' => ~windows'[w].visible /\ ~ToolPending(w)'
  BY Zenon DEF Alive
<1>2. ~departed
  BY <1>1, DepartedStays
<1>3. ~undefined'
  BY <1>2, UndefinedStep
<1>4. ASSUME NEW k \in DOMAIN queue', queue'[k].kind = "delete" PROVE queue'[k].level = 0
  <2>1. PICK e : e = queue'[k]
    OBVIOUS
  <2>2. CASE e \in Of(queue)
    BY <1>2, <1>4, <2>1, <2>2 DEF Alive, Of
  <2>3. CASE Posts(e)
    BY <1>1, <1>4, <2>1, <2>3 DEF Posts, Signals
  <2>4. QED BY <2>1, <2>2, <2>3, QueueStep DEF Of
<1>5. ASSUME NEW w \in DOMAIN windows'
      PROVE  /\ Doomed(w)' \/ windows'[w].gone => Quiet(w)'
             /\ Shoots(w)' => ~windows'[w].visible /\ ~ToolPending(w)'
  <2> DEFINE G == /\ Doomed(w)' \/ windows'[w].gone => Quiet(w)'
                  /\ Shoots(w)' => ~windows'[w].visible /\ ~ToolPending(w)'
  <2>1. /\ Doomed(w)' => Doomed(w) \/ CloseWindow(w)
        /\ ToolPending(w)' => ToolPending(w) \/ Taken(w)
        /\ Doomed(w) \/ ToolPending(w) => w \in DOMAIN windows
    BY <1>1, PostedFor
  <2>2. CASE w \notin DOMAIN windows
    <3>1. ~windows'[w].gone /\ windows'[w].shot = "none"
      BY <2>2, NewWindowsAre
    <3>2. ASSUME CloseWindow(w) PROVE FALSE
      BY <2>2, <3>2, WindowsStep DEF CloseWindow, Hidden, Typed
    <3>3. QED BY <2>1, <2>2, <3>1, <3>2 DEF Shoots
  <2>3. CASE w \in DOMAIN windows
    <3>1. /\ Doomed(w) \/ windows[w].gone => ~windows[w].visible /\ ~Shoots(w) /\ ~ToolPending(w)
          /\ Shoots(w) => ~windows[w].visible /\ ~ToolPending(w)
      BY <1>2, <2>3 DEF Alive, Quiet
    <3>2. CloseWindow(w) => /\ windows[w].visible /\ ~ToolPending(w)
                            /\ Becomes(w, FALSE, windows[w].gone, windows[w].shot)
      <4>1. SUFFICES ASSUME CloseWindow(w)
                     PROVE  /\ windows[w].visible /\ ~ToolPending(w)
                            /\ Becomes(w, FALSE, windows[w].gone, windows[w].shot)
        OBVIOUS
      <4>2. windows' = [windows EXCEPT ![w] = [windows[w] EXCEPT !.visible = FALSE]]
        BY <4>1 DEF CloseWindow, Hidden
      <4>3. windows[w] \in Windows
        BY <2>3, WindowAt DEF Typed
      <4>4. QED BY <2>3, <4>1, <4>2, <4>3 DEF CloseWindow, Usable, Becomes, Windows
    <3>3. Taken(w) => /\ windows[w].shot = "tool" /\ Becomes(w, TRUE, windows[w].gone, "none")
      <4>1. SUFFICES ASSUME Taken(w)
                     PROVE  windows[w].shot = "tool" /\ Becomes(w, TRUE, windows[w].gone, "none")
        OBVIOUS
      <4>2. windows[w] \in Windows
        BY <2>3, WindowAt DEF Typed
      <4>3. windows' = [windows EXCEPT ![w] = [windows[w] EXCEPT !.visible = TRUE, !.shot = "none"]]
        BY <2>3, <4>1 DEF Taken, Typed, WindowsTyped
      <4>4. QED BY <2>3, <4>1, <4>2, <4>3 DEF Taken, Becomes, Windows
    <3>4. CASE Becomes(w, windows[w].visible, windows[w].gone, windows[w].shot)
      <4>1. ~CloseWindow(w)
        BY <3>2, <3>4 DEF Becomes
      <4>2. ~Taken(w)
        BY <3>3, <3>4 DEF Becomes
      <4>3. QED BY <2>1, <3>1, <3>4, <4>1, <4>2 DEF Becomes, Quiet, Shoots
    <3>5. CASE CloseWindow(w)
      BY <2>1, <3>1, <3>2, <3>3, <3>5 DEF Becomes, Quiet, Shoots
    <3>6. CASE HandleDelete /\ queue[Next1].ip = w /\ Becomes(w, FALSE, TRUE, windows[w].shot)
      <4>1. Doomed(w)
        BY <3>6, NextIsReached DEF HandleDelete, Doomed, Typed, Of
      <4>2. ~Taken(w)
        BY <3>3, <3>6 DEF Becomes
      <4>3. QED BY <2>1, <3>1, <3>6, <4>1, <4>2 DEF Becomes, Quiet, Shoots
    <3>7. CASE ClickScreenshot(w) /\ Becomes(w, FALSE, windows[w].gone, "timer")
      <4>1. windows[w].visible /\ ~ToolPending(w)
        BY <3>7 DEF ClickScreenshot, Usable
      <4>2. ~Taken(w)
        BY <3>3, <3>7 DEF Becomes
      <4>3. ~CloseWindow(w)
        BY <3>1, <3>2, <3>7, <4>1 DEF Becomes, Shoots
      <4>4. QED BY <2>1, <3>1, <3>7, <4>1, <4>2, <4>3 DEF Becomes, Quiet, Shoots
    <3>8. ASSUME ShotTimer(w), NEW s \in {"made", "tool"}, Becomes(w, windows[w].visible, windows[w].gone, s)
          PROVE  G
      <4>1. Shoots(w)
        BY <3>8 DEF ShotTimer, Shoots
      <4>2. ~CloseWindow(w)
        BY <3>1, <3>2, <4>1
      <4>3. ~Taken(w)
        BY <3>3, <3>8 DEF Becomes
      <4>4. QED BY <2>1, <3>1, <3>8, <4>1, <4>2, <4>3 DEF Becomes, Quiet, Shoots
    <3>9. CASE Taken(w)
      <4>1. Shoots(w)
        BY <3>3, <3>9 DEF Shoots
      <4>2. ~CloseWindow(w)
        BY <3>1, <3>2, <4>1
      <4>3. QED BY <2>1, <3>1, <3>3, <3>9, <4>1, <4>2 DEF Becomes, Quiet, Shoots
    <3>10. CASE Abandoned(w) /\ Becomes(w, windows[w].visible, windows[w].gone, "over")
      <4>1. Shoots(w)
        BY <3>10 DEF Abandoned, Shoots
      <4>2. ~CloseWindow(w)
        BY <3>1, <3>2, <4>1
      <4>3. ~Taken(w)
        BY <3>3, <3>10 DEF Becomes
      <4>4. QED BY <2>1, <3>1, <3>10, <4>1, <4>2, <4>3 DEF Becomes, Quiet, Shoots
    <3>11. CASE ToolDeleted /\ queue[Next1].ip = w /\ Becomes(w, ~windows[w].gone, windows[w].gone, windows[w].shot)
      <4>1. ToolPending(w)
        BY <3>11, NextIsReached DEF ToolDeleted, ToolPending, Typed, Of
      <4>2. ~CloseWindow(w)
        BY <3>2, <4>1
      <4>3. QED BY <2>1, <3>1, <3>11, <4>1, <4>2 DEF Becomes, Quiet, Shoots
    <3>12. QED
      BY <1>1, <2>3, <3>4, <3>5, <3>6, <3>7, <3>8, <3>9, <3>10, <3>11, WindowBecomes
  <2>4. QED BY <2>2, <2>3
<1>6. QED BY <1>3, <1>4, <1>5
-----------------------------------------------------------------------------
LEMMA InitIInv == Init => IInv
<1>1. SUFFICES ASSUME Init PROVE IInv
  OBVIOUS
<1>2. TestUser \in Ips /\ IsFiniteSet({TestUser})
  BY FS_Singleton DEF Ips
<1>3. WindowsTyped /\ QueueTyped /\ BoxesTyped
  BY <1>1 DEF Init, WindowsTyped, QueueTyped, BoxesTyped, NoWindow
<1>4. RestTyped
  <2>1. <<"greet">> \in Seq(Timers)
    BY OfOne DEF Timers
  <2>2. users \in SUBSET Ips /\ IsFiniteSet(users)
    BY <1>1, <1>2 DEF Init
  <2>3. tasks \in Seq(Tasks) /\ timers \in Seq(Timers)
    BY <1>1, <2>1, OfNone DEF Init
  <2>4. QED BY <1>1, <2>2, <2>3 DEF Init, RestTyped
<1>5. Seen /\ Offered /\ Alive
  BY <1>1 DEF Init, Seen, Offered, Alive, Of, Due
<1>6. MessagesAreSeen /\ OnlyScreenshotsHide /\ FromTheOfferer
  BY <1>1 DEF Init, MessagesAreSeen, OnlyScreenshotsHide, FromTheOfferer
<1>7. QED BY <1>3, <1>4, <1>5, <1>6 DEF IInv, Typed

LEMMA Invariance == Spec => []IInv
<1>1. IInv /\ [Next]_vars => IInv'
  BY TypesStep, SeenStep, AliveStep, MessagesStep, HiddenStep, OffererStep DEF IInv
<1>2. QED BY <1>1, InitIInv, PTL DEF Spec

(* The variables hold what they are for, however long the program runs. *)
THEOREM TypeCorrect == Spec => []Typed
<1>1. IInv => Typed
  BY DEF IInv
<1>2. QED BY <1>1, Invariance, PTL

(* What a peer wrote is appended to a window that stays, but for what follows a file. *)
THEOREM TextsReachTheirWindow == Spec => []MessagesAreSeen
<1>1. IInv => MessagesAreSeen
  BY DEF IInv
<1>2. QED BY <1>1, Invariance, PTL

(* Without a screenshot the main window is there. *)
THEOREM MainWindowStays == Spec => []OnlyScreenshotsHide
<1>1. IInv => OnlyScreenshotsHide
  BY DEF IInv
<1>2. QED BY <1>1, Invariance, PTL

(* Nothing a user does alone lets the program use a window it deleted. *)
THEOREM UsersCannotKill == Spec => []UserNeverKills
<1>1. IInv => UserNeverKills
  BY DEF IInv, Alive, UserNeverKills
<1>2. QED BY <1>1, Invariance, PTL

(* Files come from whom they are from, but for numbers that meet. *)
THEOREM FilesComeFromTheirPeer == Spec => []FromTheOfferer
<1>1. IInv => FromTheOfferer
  BY DEF IInv
<1>2. QED BY <1>1, Invariance, PTL
=============================================================================

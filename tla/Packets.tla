------------------------------ MODULE Packets ------------------------------
(***************************************************************************)
(* What is in a datagram: FeiqCommu::pack and the SendProtocol classes on  *)
(* one side, dumpRaw and the chain of RecvProtocol classes on the other    *)
(* (feiqlib/feiqcommu.cpp, feiqengine.cpp), and the request for a file     *)
(* that is made from a datagram.  The numbers come from UniqueId, while    *)
(* other threads pack their replies and announcements.                     *)
(*                                                                         *)
(* A datagram is a sequence of tokens: the separators the parsers look for *)
(* one by one, and words for all that they only pass on.                   *)
(***************************************************************************)
EXTENDS UniqueId, Sequences, SequencesExt

CONSTANTS Ui,           \* the thread that sends messages; the others reply and announce
          MyName,       \* the user's name
          Texts,        \* what the user may write
          Files,        \* name, size and time of the files at hand
          IntMax,       \* INT_MAX, where 2 * IntMax + 1 is UINT_MAX
          RcvSize,      \* MAX_RCV_SIZE: the tokens of a datagram that are read
          EncOut,       \* the words that can be written in GBK, and how
          EncIn,        \* the words that can be read as GBK, and as what
          Numeral       \* how a number is written: one word each

Sep == ":"              \* HLIST_ENTRY_SEPARATOR
Dummy == "dummy"        \* HOSTLIST_DUMMY
Bell == "bell"          \* FILELIST_SEPARATOR
Nul == "nul"

\* What can be typed and what can name a file: tokens, none of them a NUL.
IsString(s) == s \in Seq(ToSet(s)) /\ Nul \notin ToSet(s)

Width == 2 * (IntMax + 1)
Largest == IF MaxId > Width THEN MaxId ELSE Width

ASSUME PacketsAssumption ==
  /\ Ui \in Threads /\ IntMax \in Nat
  /\ DOMAIN Numeral = 0..Largest
  /\ \A n \in 0..Largest : Numeral[n] \notin {Sep, Dummy, Bell, Nul}
  /\ \A m, n \in 0..Largest : Numeral[m] = Numeral[n] => m = n
  /\ IsString(MyName) /\ \A x \in Texts : IsString(x)
  /\ \A x \in Files : IsString(x[1]) /\ x[1] # <<>> /\ x[2] \in Nat /\ x[3] \in Nat

\* The user's name takes less of a datagram than is read of it: the five fields are there.
ASSUME HeaderFits == RcvSize \in Nat /\ RcvSize > Len(MyName) + 9

\* ASCII is the same in both encodings, and what was written in GBK is read as what it was.
ASSUME EncodingAssumption ==
  /\ \A c \in {Sep, Dummy, Bell, Nul} : /\ c \in DOMAIN EncOut /\ EncOut[c] = c
                                        /\ c \in DOMAIN EncIn /\ EncIn[c] = c
  /\ \A w \in DOMAIN EncOut : EncOut[w] \in DOMAIN EncIn /\ EncIn[EncOut[w]] = w

VARIABLES
  mFileId,      \* the ids given to files, by a UniqueId only one thread asks
  packing,      \* the message each thread packs
  unlisted,     \* the file that was sent and is not yet among the tasks
  uploads,      \* files in mFileTasks, with their packet numbers
  wire,         \* datagrams sent: any may be lost, delayed or repeated
  delivered,    \* those that arrived
  shown,        \* what the peer shows of them
  requests,     \* TCP requests the peer has made
  served,       \* and what was found for them
  died          \* whose process an exception ended

ids == vars
sending == <<mFileId, packing, unlisted, uploads, wire>>
peering == <<delivered, shown, requests>>
all == <<ids, sending, peering, served, died>>

NoMessage == [kind |-> "entry"]
NoFile == 0
PInit == /\ Init
         /\ mFileId = 0
         /\ packing = [t \in Threads |-> NoMessage]
         /\ unlisted = NoFile /\ uploads = {} /\ wire = {}
         /\ delivered = {} /\ shown = {} /\ requests = {} /\ served = {} /\ died = "nobody"
-----------------------------------------------------------------------------
(* Numbers as text.  An int holds the remainder by UINT_MAX + 1, and is printed in
   hexadecimal as if it had no sign; stoi throws on what does not fit. *)

AsInt(n) == n % Width
Digits(n) == <<Numeral[n]>>
Number(s) == CHOOSE n \in 0..Largest : Numeral[n] = s[1]
Throws(s) == Number(s) > IntMax
-----------------------------------------------------------------------------
(* Writing. *)

\* Encoding::convert: all of a string, or as it is when a word of it has no equivalent.
Converted(s, enc) == IF ToSet(s) \subseteq DOMAIN enc THEN [k \in DOMAIN s |-> enc[s[k]]] ELSE s

Replaced(s, a, b) == [k \in DOMAIN s |-> IF s[k] = a THEN b ELSE s[k]]
Plainly(s) == s                                         \* slip: the name as it is
Escaped(s) == Replaced(s, Sep, Dummy)                   \* setMyName
PcName == Converted(MyName, EncOut)

\* stringReplace(filename, ":", "::"), from left to right.
Doubling(s) == LET done[k \in 0..Len(s)] ==
                     IF k = 0 THEN <<>> ELSE done[k - 1] \o (IF s[k] = Sep THEN <<Sep, Sep>> ELSE <<s[k]>>)
               IN  done
Doubled(s) == Doubling(s)[Len(s)]

Field(s) == s \o <<Sep>>

\* SendTextContent, SendKnockContent, SendFileContent, SendImOnLine and the like
FileExtra(m) == <<Nul>> \o Field(Digits(m.id)) \o Field(Converted(Doubled(m.name), EncOut))
                        \o Field(Digits(AsInt(m.size))) \o Field(Digits(AsInt(m.time))) \o Field(<<"regular">>) \o <<Bell>>
FormatExtra(f) == IF f = <<>> THEN <<>> ELSE <<"{">> \o Converted(f, EncOut) \o <<"}">>
Extra(m) == CASE m.kind = "text" -> Converted(m.text, EncOut) \o FormatExtra(m.format)
              [] m.kind = "file" -> FileExtra(m)
              [] OTHER -> <<>>

\* pack (157-182)
Pack(n, m) == Field(<<"version">>) \o Field(Digits(n)) \o Field(Escaped(PcName)) \o Field(<<"host">>)
                \o Field(<<m.kind>>) \o Extra(m) \o <<Nul>>
-----------------------------------------------------------------------------
(* Reading. *)

\* recvfrom leaves out what the buffer does not hold.
Received(s) == IF Len(s) <= RcvSize THEN s ELSE SubSeq(s, 1, RcvSize)

\* std::find: the place of the first c, 0 when there is none.
First(s, c, from) == LET at == {k \in from..Len(s) : s[k] = c}
                     IN  IF at = {} THEN 0 ELSE Min(at)
From(s, k) == SubSeq(s, k, Len(s))

\* dumpRaw (216-270): the first five fields, the name still escaped, and what follows.
Ends(s) == LET one == First(s, Sep, 1)
               two == First(s, Sep, one + 1)
               three == First(s, Sep, two + 1)
               four == First(s, Sep, three + 1)
           IN  <<one, two, three, four, First(s, Sep, four + 1)>>
Header(s) == LET e == Ends(s)
             IN  [k \in 1..5 |-> SubSeq(s, IF k = 1 THEN 1 ELSE e[k - 1] + 1, e[k] - 1)]
Rest(s) == From(s, Ends(s)[5] + 1)
Unescaped(s) == Replaced(s, Dummy, Sep)

\* splitAllowSeperator: a doubled separator is one of the value, from left to right.
Reading(values, buf, next) == [values |-> values, buf |-> buf, next |-> next]
Taken(a, s, k) ==
  CASE a.next = "pass" -> Reading(a.values, a.buf, "read")
    [] a.next # "pass" /\ s[k] # Sep -> Reading(a.values, Append(a.buf, s[k]), "read")
    [] a.next # "pass" /\ s[k] = Sep /\ k < Len(s) /\ s[k + 1] = Sep -> Reading(a.values, Append(a.buf, Sep), "pass")
    [] OTHER -> Reading(Append(a.values, a.buf), <<>>, "read")
Splitting(s) == LET after[k \in 0..Len(s)] == IF k = 0 THEN Reading(<<>>, <<>>, "read") ELSE Taken(after[k - 1], s, k)
                IN  after
SplitAllowSeparator(s) == Splitting(s)[Len(s)].values

\* RecvText (270-312): the first { and the first } after it, or at all without a {.
TextOf(raw) == LET open == First(raw, "{", 1)
                   close == First(raw, "}", open + 1)
               IN  IF open # 0 /\ close # 0
                   THEN [kind |-> "text", text |-> SubSeq(raw, 1, open - 1),
                         format |-> SubSeq(raw, open + 1, close - 1)]
                   ELSE [kind |-> "text", text |-> raw, format |-> <<>>]

BeforeNul(s) == IF First(s, Nul, 1) = 0 THEN s ELSE SubSeq(s, 1, First(s, Nul, 1) - 1)
TextsIn(s) == IF BeforeNul(s) = <<>> THEN {} ELSE {TextOf(Converted(BeforeNul(s), EncIn))}

\* RecvFile (314-367): what stands before each bell after the text.
Listing(s) == From(s, First(s, Nul, 1) + 1)
Bells(t) == {k \in DOMAIN t : t[k] = Bell}
Spans(t) == {p \in ({0} \cup Bells(t)) \X Bells(t) : p[1] < p[2] /\ ~\E k \in Bells(t) : p[1] < k /\ k < p[2]}
Entries(s) == {SplitAllowSeparator(SubSeq(Listing(s), p[1] + 1, p[2] - 1)) : p \in Spans(Listing(s))}
Complete(s) == {v \in Entries(s) : Len(v) >= 5}
FilesIn(s) == {[kind |-> "file", id |-> Number(v[1]), name |-> Converted(v[2], EncIn),
                size |-> Number(v[3]), time |-> Number(v[4])] : v \in Complete(s)}

ContentsOf(kind, s) == CASE kind = "text" -> TextsIn(s)
                         [] kind = "file" -> TextsIn(s) \cup FilesIn(s)
                         [] kind = "knock" -> {[kind |-> "knock"]}
                         [] OTHER -> {}

\* onMsg (741-809)
Rejected(c) == c.kind = "text" /\ IsPrefix(<<"/~#>">>, c.text) /\ IsSuffix(<<"<B~">>, c.text)

Throwing(kind, s) == kind = "file" /\ \E v \in Complete(s), k \in {1, 3, 4} : Throws(v[k])

Shown(s) == LET h == Header(s)
            IN  {[number |-> Number(h[2]), from |-> Unescaped(h[3]), content |-> c] :
                   c \in {x \in ContentsOf(h[5][1], Rest(s)) : ~Rejected(x)}}
-----------------------------------------------------------------------------
(* Sending. *)

NewText == {[kind |-> "text", text |-> x, format |-> <<>>] : x \in Texts}
\* createFileContentToSend takes an id before anything is sent (content.h:101).
FileOf(i, x) == [kind |-> "file", id |-> i, name |-> x[1], size |-> x[2], time |-> x[3]]
NewFile == {FileOf(mFileId + 1, x) : x \in Files}
Messages(t) == IF t = Ui THEN NewText \cup NewFile \cup {[kind |-> "knock"]} ELSE {NoMessage}

Ask(t) == /\ Increment(t)
          /\ t = Ui => unlisted = NoFile
          /\ \E m \in Messages(t) : /\ packing' = [packing EXCEPT ![t] = m]
                                   /\ mFileId' = IF m.kind = "file" THEN mFileId + 1 ELSE mFileId
          /\ UNCHANGED <<unlisted, uploads, wire, peering, served, died>>

AskWrap(t) == Wrap(t) /\ UNCHANGED <<sending, peering, served, died>>

Datagram(n, m) == [number |-> n, message |-> m, bytes |-> Pack(n, m)]

\* FeiqEngine::send lists a file after it has sent the datagram (504-533).  What becomes
\* of the datagrams of the other threads is left to Presence and TextDelivery.
Send(t) == /\ Return(t)
           /\ wire' = IF t = Ui THEN wire \cup {Datagram(last'[t], packing[t])} ELSE wire
           /\ IF packing[t].kind = "file"
              THEN unlisted' = packing[t].id /\ UNCHANGED packing
              ELSE packing' = [packing EXCEPT ![t] = NoMessage] /\ UNCHANGED unlisted
           /\ UNCHANGED <<mFileId, uploads, peering, served, died>>

\* sendto fails: the text or the file is not sent, nor listed.
SendFails(t) == /\ Return(t)
                /\ packing' = [packing EXCEPT ![t] = NoMessage]
                /\ UNCHANGED <<mFileId, unlisted, uploads, wire, peering, served, died>>

AddUploadTask == /\ unlisted # NoFile
                 /\ uploads' = uploads \cup {[number |-> last[Ui], file |-> packing[Ui]]}
                 /\ unlisted' = NoFile
                 /\ packing' = [packing EXCEPT ![Ui] = NoMessage]
                 /\ UNCHANGED <<ids, mFileId, wire, peering, served, died>>
-----------------------------------------------------------------------------
(* The peer. *)

Deliver(d) == /\ d \in wire \ delivered
              /\ delivered' = delivered \cup {d}
              /\ LET s == Received(d.bytes)
                 IN  IF Throwing(d.message.kind, Rest(s))
                     THEN died' = "peer" /\ UNCHANGED shown
                     ELSE shown' = shown \cup Shown(s) /\ UNCHANGED died
              /\ UNCHANGED <<ids, sending, requests, served>>

\* requestFileData (73-109): number, id and offset, each an int in hexadecimal.
RequestExtra(number, file) == Field(Digits(AsInt(number))) \o Field(Digits(AsInt(file))) \o Field(Digits(0))
Request(s) == /\ s \in shown /\ s.content.kind = "file"
              /\ requests' = requests \cup {[offer |-> s, extra |-> RequestExtra(s.number, s.content.id)]}
              /\ UNCHANGED <<ids, sending, delivered, shown, served, died>>

\* onTcpClientConnected (184-214) and findTask
OfThisNumberAtMost(u, v) == u.number <= Number(v[1])    \* slip: not this one
Asked(u, v) == u.number = Number(v[1]) /\ u.file.id = Number(v[2])
Found(v) == {u \in uploads : Asked(u, v)}

Serve(r) == /\ r \in requests
            /\ requests' = requests \ {r}
            /\ LET v == SplitAllowSeparator(r.extra)
               IN  IF \E k \in 1..3 : Throws(v[k])
                   THEN died' = "own" /\ UNCHANGED served
                   ELSE /\ served' = served \cup {[offer |-> r.offer, found |-> Found(v), unlisted |-> unlisted]}
                        /\ UNCHANGED died
            /\ UNCHANGED <<ids, sending, delivered, shown>>

PNext == /\ died = "nobody"
         /\ \/ \E t \in Threads : Ask(t) \/ AskWrap(t) \/ Send(t) \/ SendFails(t)
            \/ AddUploadTask
            \/ \E d \in wire : Deliver(d)
            \/ \E s \in shown : Request(s)
            \/ \E r \in requests : Serve(r)

PSpec == PInit /\ [][PNext]_all
-----------------------------------------------------------------------------
(* Messages that are read whole come out as they went in.  Not so a datagram that is
   longer than what is read of it; texts with a { and a } after it, of which the rest is
   lost, as it is taken for the format; names that begin with a separator (the doubling
   cannot be told from the end of the field before) or hold the one of the list; ids, sizes
   and times an int does not hold; and what cannot be written in GBK, so that it is sent as
   it is, and can be read as if it had been.  The name of the sender stays as it was written,
   for dumpRaw does not convert it back (feiqcommu.cpp:256).  Numbers that an int holds as
   negative ones end the program of the peer, and nothing else does. *)
Braces(s) == \E j, k \in DOMAIN s : j < k /\ s[j] = "{" /\ s[k] = "}"
Encodable(s) == ToSet(s) \subseteq DOMAIN EncOut \/ ~(ToSet(s) \subseteq DOMAIN EncIn)
Legible(m) == CASE m.kind = "text" -> ~Braces(m.text) /\ m.text # <<>> /\ ~Rejected(m) /\ Encodable(m.text)
                [] m.kind = "file" -> /\ m.name[1] # Sep /\ Bell \notin ToSet(m.name) /\ Encodable(m.name)
                                      /\ m.id <= IntMax /\ m.size <= IntMax /\ m.time <= IntMax
                [] OTHER -> m.kind = "knock"
TooLarge(m) == m.kind = "file" /\ (m.id > IntMax \/ AsInt(m.size) > IntMax \/ AsInt(m.time) > IntMax)
AsShown(d) == [number |-> d.number, from |-> Unescaped(PcName), content |-> d.message]
Whole(d) == Len(d.bytes) <= RcvSize
ArrivesAsSent ==
  /\ \A d \in delivered : Legible(d.message) /\ Whole(d) => AsShown(d) \in shown
  /\ died = "peer" => \E d \in delivered : TooLarge(d.message)

(* A request is answered with the file of the offer and no other, though other threads
   may have the same number for their packets; with nothing only if it comes before the
   sender has listed the file.  After 2^31 packets a request ends the sender's program.
   (After 2^32 the int of the request is another number, and nothing is found.) *)
ServesWhatWasOffered ==
  /\ \A s \in served : \/ \E u \in s.found : s.found = {u} /\ u.file.id = s.offer.content.id
                       \/ s.found = {} /\ s.unlisted = s.offer.content.id
  /\ died = "own" => mId > IntMax
-----------------------------------------------------------------------------
(* What holds of the parsers, for whatever is sent and wherever it is cut: what is read as
   a file was packed as one, with its numbers; a request is read as it was written; what is
   legible and whole is read as it was; and only numbers that are too large throw. *)
Offers == {FileOf(i, x) : i \in 1..MaxCalls, x \in Files}
Sendable == NewText \cup Offers \cup {[kind |-> "knock"]}
ReadsBack ==
  /\ \A n \in 0..MaxId, m \in Sendable : LET s == Received(Pack(n, m)) IN
       /\ \A o \in Shown(s) : o.content.kind = "file" => m.kind = "file" /\ o.number = n /\ o.content.id = m.id
       /\ Legible(m) /\ Whole(Datagram(n, m)) => AsShown(Datagram(n, m)) \in Shown(s)
       /\ Throwing(m.kind, Rest(s)) => TooLarge(m)
  /\ \A i, j \in 0..(Width - 1) : SplitAllowSeparator(RequestExtra(i, j)) = <<Digits(i), Digits(j), Digits(0)>>
=============================================================================

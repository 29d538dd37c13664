----------------------------- MODULE PacketsMC -----------------------------
(* Texts and names with every separator in each place that matters, a text and a name
   longer than what is read, words that cannot be written in GBK, one of which can be
   read as if it were; file sizes and times an int holds and does not hold, and sizes
   it holds the remainder of. *)
EXTENDS Packets, TLC

LongText == [k \in 1..19 |-> "w"]
LongName == <<"n", "bell", "n", ":", "n", "n", "n">>
SomeTexts == {<<"w">>, <<"w", "{", "w", "}", "w">>, <<"}", "{">>, <<"/~#>", "w", "<B~">>,
              LongText, <<"w", "smiley">>, <<"umlaut">>}
SomeNames == {<<"n">>, <<":", "n">>, <<"n", ":", ":", "n">>, <<"n", "bell", "n">>,
              LongName, <<"smiley", ":">>, <<"umlaut">>}
SomeFiles == (SomeNames \X {1} \X {1}) \cup {<<<<"n">>, 3, 1>>, <<<<"n">>, 7, 1>>, <<<<"n">>, 1, 4>>}
InDecimal == [n \in 0..15 |-> ToString(n)]
NameWithSep == <<"n", ":", "n">>

Ascii == {":", "dummy", "bell", "nul", "{", "}", "/~#>", "<B~"}
ToGbk == [a \in Ascii |-> a] @@ ("w" :> "W" @@ "n" :> "N")
FromGbk == [a \in Ascii |-> a] @@ ("W" :> "w" @@ "N" :> "n" @@ "umlaut" :> "hanzi")
=============================================================================

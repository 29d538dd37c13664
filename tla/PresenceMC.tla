------------------------------ MODULE PresenceMC ------------------------------
(* Presence on small networks: who is there, and shows which MAC. *)
EXTENDS Presence, TLC

CONSTANTS own, p, q, a, b, c

AllMachines == {own, p, q}
AllAddresses == {a, b, c}
Homes == own :> a @@ p :> b @@ q :> c

\* This one and another, each with a MAC of its own; the settings are changed once.
Two == own :> "m1" @@ p :> "m2"

\* This one shows no MAC, so its broadcasts come back to it as from anyone.
Echo == own :> "" @@ p :> "m2"

\* Two others of which getBoundMac reads the loopback interface.
Zero == own :> "m1" @@ p :> ZeroMac @@ q :> ZeroMac

\* The own name holds the separator, so the own broadcasts are not told from others;
\* and either machine may get another address, that of the other one too.
Colon == own :> "m3" @@ p :> "m2"

UsualNetworks == {Two, Echo, Zero, Colon}
ColonNetworks == {Colon}
UsualRestarts == Two :> 1 @@ Echo :> 0 @@ Zero :> 0 @@ Colon :> 0
UsualMoves == Two :> 0 @@ Echo :> 0 @@ Zero :> 0 @@ Colon :> 1

==============================================================================

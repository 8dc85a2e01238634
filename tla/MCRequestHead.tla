--------------------------- MODULE MCRequestHead ---------------------------
(* Constants for model checking RequestHead. *)
EXTENDS RequestHead, TLC

LowerCase   == ("h" :> "h") @@ ("H" :> "h") @@ ("o" :> "o")
TargetHosts == ("url" :> "h") @@ ("URL" :> "H")
HostLists   == {{}, {"h"}, {"o"}}
Version     == <<"v", "3">>

RequestLines == {<<"get", SP, "url", SP, "v1">>, <<SP, "get", SP, SP, "url", SP, "v1", SP>>,
                 <<"get", "url", SP, "v1">>, <<"get", SP, "url", SP, "v1", SP, "w">>,
                 <<"url", SP, "url", SP, "v1">>, <<LF, "get", SP, "url", SP, "v1">>}
OtherTargets == {<<"get", SP, "URL", SP, "v1">>, <<"connect", SP, "url", SP, "v1">>,
                 <<"connect", SP, "URL", SP, "v1">>}
Ends  == {<<LF>>, <<CR, LF>>}

\* What follows the request line.
Texts(n) == BoundedSeq({"w", SP, HOST, CR, LF}, n)

\* Chunks cut anywhere after the request line.
Cut == {r \o e \o t : r \in RequestLines, e \in Ends, t \in Texts(5)}
         \cup {r \o e \o t : r \in OtherTargets, e \in Ends, t \in Texts(2)}

\* One line more, cut between two words.
CutInWords == {r \o e \o <<HOST, SP, "w">> : r \in RequestLines, e \in Ends}

HelloSizes == {0, 2, 3}

\* What comes second: a handshake or not, of any size up to that of three fragments.
SecondChunks ==
  {<<first>> \o SubSeq(<<"b2", "b3", "b4", "b5", "b6", "b7">>, 1, n) :
     first \in {HANDSHAKE, "b1"}, n \in 0 .. 6}
=============================================================================

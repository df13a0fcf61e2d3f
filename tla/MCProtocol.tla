----------------------------- MODULE MCProtocol -----------------------------
EXTENDS Protocol

(* Bytes 0 and 1: the sequence id wraps after three frames.  One client id *)
(* is negative, one is above the largest byte.                             *)
MCClientIDs == {-1, 0, 2}
MCDataStrings == {<<>>, <<1, 1>>}
MCPing == <<1, 1>>
MCContent == {Chain(ClientID, code, scID, data) :
                 ClientID \in MCClientIDs, code \in {0, 1},
                 scID \in 0..MaxSc, data \in MCDataStrings}

(* Ids a frame may carry, the one looked for after the wrap, and one with a *)
(* garbage upper half.                                                      *)
MCReceived == {0, 1, 2, 7}
=============================================================================

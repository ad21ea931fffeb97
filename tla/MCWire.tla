--------------------------------- MODULE MCWire ---------------------------------
(***************************************************************************)
(* An empty line and one that is longer than the payloads of pings and     *)
(* answers, so that it stays in the handler's buffer behind them.          *)
(***************************************************************************)
EXTENDS Wire

MCChars == {"P", "I", "A", "b", "?"}
MCLines == {<<>>, <<"b", "b", "b">>}
=============================================================================

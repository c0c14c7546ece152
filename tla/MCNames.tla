------------------------------- MODULE MCNames -------------------------------
(***************************************************************************)
(* Two letters and their capitals, a digit and the three marks; "sx" is    *)
(* short for the words the go command reserves.                            *)
(***************************************************************************)
EXTENDS Names, TLC

MCUp == ("s" :> "S") @@ ("x" :> "X")
MCReserved == {<<"s", "x">>}
=============================================================================

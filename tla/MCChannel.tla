----------------------------- MODULE MCChannel ------------------------------
(* Two senders, one receiver of each kind.                                 *)
EXTENDS Channel

CONSTANTS s1, s2, r, none, end

MCSenders == {s1, s2}
MCKinds == {"future", "spin", "block"}
=============================================================================

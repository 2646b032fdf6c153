---------------------------- MODULE MCGuestAgent ----------------------------
(* Two connections, so that two handlers can meet, and a clock that can    *)
(* give them the same nanosecond or different ones.                        *)
EXTENDS GuestAgent
=============================================================================

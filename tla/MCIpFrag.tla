------------------------------ MODULE MCIpFrag ------------------------------
(* Model checking of IpFrag: a wire with two datagrams. *)
EXTENDS IpFrag, TLC

\* Two datagrams; the last fragment of the second has an offset of the first.
TwoLayouts == [d \in {"a", "b"} |-> IF d = "a" THEN <<0, 1, 2, 4>> ELSE <<0, 1, 3>>]

\* They come from different sources or have different identifications.
OwnKeys == [d \in {"a", "b"} |-> d]
=============================================================================

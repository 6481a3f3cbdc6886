------------------------------ MODULE SessionMC ------------------------------
(***************************************************************************)
(* Instances of Session for TLC.                                           *)
(***************************************************************************)
EXTENDS Session

\* A gated call alone, three reads (parallel), a read and a write (serial).
MixedBatches == {<<"gated">>, <<"read", "read", "read">>, <<"read", "write">>}

\* One call that waits for an approval first.
GatedBatches == {<<"gated">>}

\* Two reads side by side.
PairBatches == {<<"read", "read">>}

=============================================================================

--------------------------- MODULE MCSsFileStore ---------------------------
(* Instances of SsFileStore for TLC. *)
EXTENDS SsFileStore

TwoNames == {<<"a">>, <<"d", "/", "b">>}
TwoTimes == <<"1", "2">>
=============================================================================

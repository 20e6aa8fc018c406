------------------------------- MODULE MCWire -------------------------------
(* With MAX_MESSAGE_SIZE = 6 and MAX_FIELDS = 3: the shortest message, one with *)
(* a trailing empty field, one with more fields than are kept, one with a       *)
(* delimiter inside a field, lines of five, six and seven bytes.                *)
EXTENDS Wire

Lines == { << <<>> >>,
           << <<"a">>, <<>> >>,
           << <<>>, <<>>, <<>>, <<>> >>,
           << <<"a">>, <<"b", "|">> >>,
           << <<"a", "b">>, <<"a">> >>,
           << <<"a", "b">>, <<"b", "a">> >>,
           << <<"a", "b">>, <<"b", "a", "b">> >> }
=============================================================================

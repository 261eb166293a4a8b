------------------------------ MODULE MCChatStream ------------------------------
(* Text that ends in blanks, that holds the placeholder, and long enough for *)
(* a tick to take two letters.                                               *)
EXTENDS ChatStream

MCChunks == {<<"executing">>, <<"a", "a", "a", "a", "space">>}
=================================================================================

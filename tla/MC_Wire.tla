------------------------------- MODULE MC_Wire -------------------------------
(* The real lengths of the messages, and short files and lists. *)
EXTENDS Wire

TypedNames == {<<"text", "a", 1>>, <<"text", "b", NameLen - 1>>, <<"text", "c", NameLen>>}
=============================================================================

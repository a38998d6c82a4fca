------------------------------ MODULE MCList ------------------------------
(* Two lists and four entries: entries move between lists, and lists of    *)
(* none, one and several entries are changed at both ends and inside.      *)
EXTENDS List
MCHeads == {"ready", "blocked"}
MCEntries == {"e1", "e2", "e3", "e4"}
===========================================================================

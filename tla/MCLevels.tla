-------------------------------- MODULE MCLevels -------------------------------
(* Small instances of Levels. *)
EXTENDS Levels

CONSTANTS c0, c1, c2, c3

Puts     == {"put"}
PutDel   == {"put", "del"}
OnlyTTL  == {"ttl"}
PutTTL   == {"put", "ttl"}
NoKeys   == {}
FirstKey == {1}
==============================================================================

---- MODULE MCPgwClient ----
EXTENDS PgwClient

(* Of an odd number of digits, as generate_imsi's 15 are; two of them      *)
(* differ in the order of digits only.                                     *)
MCImsi == {<<0, 1, 2>>, <<1, 0, 2>>, <<0, 1, 3>>}
MCBlacklist == {<<1, 0, 2>>}
====

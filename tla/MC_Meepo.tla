------------------------------ MODULE MC_Meepo ------------------------------
(***************************************************************************)
(* Meepo for users without sites, with one page and with two pages of them.*)
(***************************************************************************)
EXTENDS Meepo

CONSTANTS s1, s2, s3

MCSite == {s1, s2, s3}

Nobody == <<<<>>>>
Small == <<<<s1, s2>>>>
Large == <<<<s1, s2, s3>>>>
TwoPages == <<<<s1, s2>>, <<s3>>>>

AllAccounts == {Nobody, Small, Large, TwoPages}
=============================================================================

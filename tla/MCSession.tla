----------------------------- MODULE MCSession -----------------------------
(* Two phones, one of which may have two links at once, and one name to   *)
(* type, <<1>>: the second to enter under it is <<1, 2>>.                  *)
EXTENDS Session, TLC

CONSTANTS mine, yours

MCPhones == {mine, yours}
MCNames == {<<1>>}
MCLinks == {<<mine, 1>>, <<mine, 2>>, <<yours, 1>>}
=============================================================================

----------------------------- MODULE MCCleartext -----------------------------
(***************************************************************************)
(* Cleartext for TLC: every text up to MaxText symbols.                    *)
(***************************************************************************)
EXTENDS Cleartext

CONSTANT MaxText

MCTexts == SeqOf({"a", "s", "-", "5", "r", "n"}, MaxText)
MCSigners ==
    {<<[key |-> "A", hash |-> "SHA256"]>>, <<[key |-> "A", hash |-> "SHA3-256"]>>,
     <<[key |-> "B", hash |-> "SHA256"], [key |-> "A", hash |-> "SHA256"]>>}
MCTails == {<<"n">>, <<"s", "n">>, <<"n", "s", "n">>, <<"a">>, <<"n", "n", "a">>}
=============================================================================

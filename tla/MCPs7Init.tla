----------------------------- MODULE MCPs7Init -----------------------------
EXTENDS Ps7Init

\* No damage, or an entry in the middle of one table.
MCDamages == {<<"no table", 0>>, <<"clock", 8>>, <<"post_config", 3>>}
=============================================================================

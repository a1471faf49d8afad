----------------------------- MODULE MCSignIn -----------------------------
EXTENDS SignIn
MCChains == {<<"enrol">>, <<"enrol", "note">>, <<"enrol", "note", "revoke">>, <<"enrol", "forged">>}
=============================================================================

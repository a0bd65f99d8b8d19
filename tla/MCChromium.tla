----------------------------- MODULE MCChromium -----------------------------
EXTENDS ChromiumInvariant

MCFirstList == <<"a", "b">>
MCLists == {MCFirstList, <<"b">>}
=============================================================================

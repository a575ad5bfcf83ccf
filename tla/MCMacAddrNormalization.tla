------------------------ MODULE MCMacAddrNormalization ------------------------
\* Two files and a few telling first octets for MacAddrNormalization.
EXTENDS MacAddrNormalization

TwoFiles == <<"macbt", "macwifi">>
===============================================================================

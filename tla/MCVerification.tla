--------------------------- MODULE MCVerification ---------------------------
EXTENDS Verification, TLC

CONSTANTS mail, phone, abroad, holder, inbox, number, far

MCClaims == {mail, phone, abroad}
MCKindOf == mail :> "email" @@ phone :> "phone" @@ abroad :> "phone"
MCOwnerOf == mail :> holder @@ phone :> holder @@ abroad :> holder
MCAddressOf == mail :> inbox @@ phone :> number @@ abroad :> far
MCChains == {<< >>, <<phone>>}
MCLimit == [address |-> 2, identity |-> 1, global |-> 2]
MCMaxPending == [email |-> 2, phone |-> 1]
MCIds == 1 .. MaxRequests
=============================================================================

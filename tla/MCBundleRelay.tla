--------------------------- MODULE MCBundleRelay ---------------------------
EXTENDS BundleRelay, TLC

CONSTANTS ann, ben, elsewhere, R, U, M

MCNodes == {ann, ben}
MCLinks == {<<ann, ben>>, <<elsewhere, ann>>}
MCBundles == {R, U, M}
MCTypeOf == R :> "revocation" @@ U :> "revocation" @@ M :> "message"
MCRecipientOf == R :> "*" @@ U :> ben @@ M :> ben
MCAuthorOf == R :> ben @@ U :> elsewhere @@ M :> ann
MCKnown == ann :> {ben} @@ ben :> {ben}
=============================================================================

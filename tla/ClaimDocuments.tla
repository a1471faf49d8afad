--------------------------- MODULE ClaimDocuments ---------------------------
(***************************************************************************)
(* Published claim documents: post_document of api/claims.py.  A holder    *)
(* signs "publish" and "unpublish" letters; a letter that was signed once  *)
(* may arrive late, twice, or after one that was signed later.  A document *)
(* is taken to be the one the chain commits to, and Publisher's claims are *)
(* told apart by their ids.                                                *)
(***************************************************************************)
EXTENDS NodeChains

CONSTANTS Publisher,          \* the identity whose documents are followed
          PublicationWindow   \* PUBLICATION_WINDOW

ASSUME ClaimDocumentsAssumption ==
    Publisher \in Identities /\ PublicationWindow \in Nat

VARIABLES documents,  \* claim_documents table: [published_at, since] or None;
                      \* `since`, the time it was let in, is history
          withdrawn,  \* history: issued_at of the newest "unpublish" taken, or -1
          takenBack   \* history: published_at of the document removed last, or -1

documentVars == <<documents, withdrawn, takenBack>>

ClaimDocumentsInit ==
    /\ documents = [c \in Claims |-> None]
    /\ withdrawn = [c \in Claims |-> -1]
    /\ takenBack = [c \in Claims |-> -1]

InWindow_NoPast(issued_at) == issued_at <= now + PublicationWindow

\* `abs(time.time() - issued_at) > PUBLICATION_WINDOW` refuses.
InWindow(issued_at) == Away(now, issued_at) <= PublicationWindow

\* The master, or a current device that may manage claims.
MaySpeak(signed_by) ==
    \/ IsMaster(Publisher, held[Publisher], signed_by)
    \/ /\ ActiveDevice(Publisher, held[Publisher], signed_by)
       /\ Grants(Publisher, held[Publisher], signed_by, "manage_claims")

\* What both actions ask of a letter.
Heard(c, issued_at, signed_by) ==
    /\ InWindow(issued_at)
    /\ held[Publisher] # 0
    /\ MaySpeak(signed_by)
    /\ documents[c] # None => issued_at > documents[c].published_at

SaveClaimDocument(c, document) == documents' = [documents EXCEPT ![c] = document]
DeleteClaimDocument(c) == documents' = [documents EXCEPT ![c] = None]

Unpublish(c, issued_at, signed_by) ==
    /\ Heard(c, issued_at, signed_by)
    /\ DeleteClaimDocument(c)
    /\ withdrawn' = [withdrawn EXCEPT ![c] = IF issued_at > @ THEN issued_at ELSE @]
    /\ takenBack' = [takenBack EXCEPT ![c] = IF documents[c] = None THEN @ ELSE documents[c].published_at]

Publish(c, issued_at, signed_by) ==
    /\ Heard(c, issued_at, signed_by)
    /\ ActiveClaim(Publisher, held[Publisher], c)
    /\ SaveClaimDocument(c, [published_at |-> issued_at, since |-> now])
    /\ UNCHANGED <<withdrawn, takenBack>>

-----------------------------------------------------------------------------

DocumentsTypeOK ==
    /\ documents \in [Claims -> [published_at : Nat, since : Nat] \cup {None}]
    /\ withdrawn \in [Claims -> Nat \cup {-1}]
    /\ takenBack \in [Claims -> Nat \cup {-1}]

\* "replaying the original publish (older than the unpublish) must not
\* resurrect it": the letter whose document its holder took back does not put
\* the document there again.  It does: Unpublish removes the row that Heard
\* compares issued_at with (claims.py post_document).
TakenBackStaysOut ==
    \A c \in Claims : documents[c] # None => documents[c].published_at # takenBack[c]

\* How long that lasts.  A "publish" signed before the "unpublish" may arrive,
\* or arrive again, after it and put the value back, but only while it is itself
\* fresh: a document that stands against its holder's later word was let in no more
\* than a window after that word was signed.
NoLateReturn ==
    \A c \in Claims :
        documents[c] # None /\ documents[c].published_at <= withdrawn[c] =>
            documents[c].since <= withdrawn[c] + PublicationWindow
=============================================================================

----------------------------- MODULE SmsGateway -----------------------------
(***************************************************************************)
(* The script next to the modem (tools/sms-gateway/sms_gateway.py).  It    *)
(* handles one message at a time; only the ledger survives its restarts.   *)
(***************************************************************************)
EXTENDS Clock, Selection, Sequences, Functions

CONSTANTS GatewayIds,    \* the message ids it may be offered
          GatewayMask,   \* the numbers --allow lets through
          MaxSms,        \* limits.max_sms
          MaxPerNumber,  \* limits.max_per_number
          SmsWindow,     \* limits.window
          KeepIds        \* Ledger.KEEP_IDS

ASSUME SmsGatewayAssumption ==
    /\ MaxSms \in Nat /\ MaxPerNumber \in Nat /\ SmsWindow \in Nat /\ KeepIds \in Nat

VARIABLES ledger,  \* the file: [sends, done]
          batch,   \* the messages of the last answer not handled yet
          at,      \* where the loop is
          verdict, \* the status it is about to report
          modem    \* history: the messages let through to the modem

gatewayVars == <<ledger, batch, at, verdict, modem>>

GatewayInit ==
    /\ ledger = [sends |-> << >>, done |-> << >>]
    /\ batch = << >> /\ at = "idle" /\ verdict = "none" /\ modem = << >>

Message == Head(batch)

\* Ledger._recent
RecentSends ==
    Selected(ledger.sends, {i \in DOMAIN ledger.sends : ledger.sends[i].time > now - SmsWindow})

Seen(id) == id \in DOMAIN ledger.done

\* Policy.check: what stops a message.  The text of a verification code is
\* always short printable ASCII, so "bad_text" never is.
Refused(m) ==
    \/ m.to \notin GatewayMask
    \/ Len(RecentSends) >= MaxSms
    \/ Cardinality({i \in DOMAIN RecentSends : RecentSends[i].to = m.to}) >= MaxPerNumber

\* Ledger.record: written and synced before the modem is asked.
Record(m) ==
    ledger' = [sends |-> Append(RecentSends, [time |-> now, to |-> m.to]),
               done |-> [id \in {i \in DOMAIN ledger.done : ledger.done[i] > now - KeepIds}
                                  \cup {m.id} |-> IF id = m.id THEN now ELSE ledger.done[id]]]

-----------------------------------------------------------------------------
(* The loop.  at: idle -> asked -> next -> (send ->) report -> next ... *)

\* run() waits for an answer that does not come at once.
Ask == at = "idle" /\ at' = "asked" /\ UNCHANGED <<ledger, batch, verdict, modem>>

\* The answer of client.pending(); a lost one is an empty one.
Answered(messages) ==
    /\ at \in {"idle", "asked"}
    /\ batch' = messages
    /\ at' = IF messages = << >> THEN "idle" ELSE "next"
    /\ UNCHANGED <<ledger, verdict, modem>>

Decide(status) == at' = "report" /\ verdict' = status /\ UNCHANGED <<ledger, batch, modem>>

\* `handed` will say that the modem was really asked.
LetThrough ==
    /\ modem' = Append(modem, [id |-> Message.id, to |-> Message.to, time |-> now, handed |-> FALSE])
    /\ at' = "send" /\ UNCHANGED <<batch, verdict>>

Process_LimitsFirst ==
    /\ at = "next"
    /\ \/ (Message.expires_at <= now \/ Refused(Message)) /\ Decide("rejected")
       \/ ~(Message.expires_at <= now \/ Refused(Message)) /\ Seen(Message.id) /\ Decide("sent")
       \/ /\ ~Seen(Message.id) /\ Message.expires_at > now /\ ~Refused(Message)
          /\ Record(Message) /\ LetThrough

Process_Unrecorded ==
    /\ at = "next"
    /\ \/ Seen(Message.id) /\ Decide("sent")
       \/ /\ ~Seen(Message.id) /\ (Message.expires_at <= now \/ Refused(Message))
          /\ Decide("rejected")
       \/ /\ ~Seen(Message.id) /\ Message.expires_at > now /\ ~Refused(Message)
          /\ UNCHANGED ledger /\ LetThrough

Process_RecordFirst ==
    /\ at = "next"
    /\ \/ Seen(Message.id) /\ Decide("sent")
       \/ /\ ~Seen(Message.id) /\ (Message.expires_at <= now \/ Refused(Message))
          /\ Record(Message) /\ at' = "report" /\ verdict' = "rejected" /\ UNCHANGED <<batch, modem>>
       \/ /\ ~Seen(Message.id) /\ Message.expires_at > now /\ ~Refused(Message)
          /\ Record(Message) /\ LetThrough

\* process() up to the modem: a duplicate is answered before anything else,
\* then come the expiry and the limits, and the attempt is on disk before it
\* is made.
Process ==
    /\ at = "next"
    /\ \/ Seen(Message.id) /\ Decide("sent")
       \/ /\ ~Seen(Message.id) /\ (Message.expires_at <= now \/ Refused(Message))
          /\ Decide("rejected")
       \/ /\ ~Seen(Message.id) /\ Message.expires_at > now /\ ~Refused(Message)
          /\ Record(Message) /\ LetThrough

\* modem.send() returns or raises ModemError; whether an SMS left that the
\* modem did not confirm in time, nobody knows.
ModemSend(confirmed) ==
    /\ at = "send"
    /\ modem' = [modem EXCEPT ![Len(modem)].handed = TRUE]
    /\ at' = "report" /\ verdict' = IF confirmed THEN "sent" ELSE "failed"
    /\ UNCHANGED <<ledger, batch>>

\* client.report() returned, or gave up after its retries.
Reported ==
    /\ at = "report"
    /\ batch' = Tail(batch) /\ verdict' = "none"
    /\ at' = IF Tail(batch) = << >> THEN "idle" ELSE "next"
    /\ UNCHANGED <<ledger, modem>>

\* The script is stopped and started: Ledger() reads the file.
GatewayRestart ==
    /\ at # "idle"
    /\ at' = "idle" /\ batch' = << >> /\ verdict' = "none"
    /\ UNCHANGED <<ledger, modem>>

GatewayTypeOK ==
    /\ Range(ledger.sends) \subseteq [time : Nat, to : GatewayMask]
    /\ DOMAIN ledger.done \subseteq GatewayIds
    /\ at \in {"idle", "asked", "next", "send", "report"}
    /\ verdict \in {"none", "sent", "failed", "rejected"}
    /\ (verdict # "none") <=> (at = "report")
    /\ (batch # << >>) <=> (at \in {"next", "send", "report"})
=============================================================================

----------------------------- MODULE EmailNotifier -----------------------------
(***************************************************************************)
(* The e-mail plugin (monasca_notification/plugins/email_notifier.py).  It *)
(* keeps one SMTP connection from call to call.  A connection that turns   *)
(* out to be closed is replaced and the message is sent a second time,     *)
(* unless the server has announced the end with a 421; a connection that   *)
(* cannot be replaced is kept.                                             *)
(***************************************************************************)
EXTENDS PluginCall

VARIABLES
  mailServer,  \* the SMTP server: "up" or "down"
  smtp,        \* self._smtp: None, an "open" connection, one that is "dead", or one
               \* that is closed with a 421 still to be read, a "farewell"
  goodbye      \* history: the connection that this call has found was a farewell

email == <<mailServer, smtp, goodbye>>

EmailInit ==
  /\ mailServer = "up"
  /\ smtp = "none"
  /\ goodbye = FALSE

-----------------------------------------------------------------------------
(* The server.                                                             *)

\* A server that closes a connection may say so first: 421, service not available.
Sever ==
  /\ \E end \in {"dead", "farewell"} : smtp' = IF smtp = "open" THEN end ELSE smtp
  /\ excused' = (excused \/ Running("email"))
  /\ UNCHANGED <<plugin, buildable, at, result, accepted, lost, goodbye>>

MailServerStops ==
  /\ mailServer = "up"
  /\ mailServer' = "down"
  /\ Sever

MailServerStarts ==
  /\ mailServer = "down"
  /\ mailServer' = "up"
  /\ UNCHANGED <<call, smtp, goodbye>>

\* The server closes a connection, idle for too long.
MailServerDisconnects ==
  /\ smtp = "open"
  /\ Sever
  /\ UNCHANGED mailServer

-----------------------------------------------------------------------------
(* send_notification.                                                      *)

CallEmail ==
  /\ Call("email")
  /\ goodbye' = (smtp = "farewell")
  /\ UNCHANGED <<mailServer, smtp>>

\* _create_msg takes the first metric for its link.
CreateMsg ==
  /\ BuildMessage("email", "connect")
  /\ UNCHANGED email

\* Mutant: a connection that was open once is taken for good.
ReconnectNever ==
  /\ In("email", "reconnect")
  /\ Goto("second")
  /\ UNCHANGED email

\* _smtp_connect
SmtpConnect == smtp' = IF mailServer = "up" THEN "open" ELSE smtp

\* if not self._smtp and not self._smtp_connect(): return False
ConnectOnce ==
  /\ In("email", "connect")
  /\ IF smtp = "none" THEN SmtpConnect ELSE UNCHANGED smtp
  /\ IF smtp' = "none" THEN Fail(TRUE) ELSE Goto("first")
  /\ UNCHANGED <<mailServer, goodbye>>

\* After SMTPServerDisconnected; whether that works is not looked at.
Reconnect ==
  /\ In("email", "reconnect")
  /\ SmtpConnect
  /\ IF mailServer = "up" THEN Goto("second") ELSE Refuse("second")
  /\ UNCHANGED <<mailServer, goodbye>>

\* _sendmail, first and second: accepted, refused, or accepted with the connection
\* lost before the reply.  A closed connection raises SMTPServerDisconnected, a 421
\* that is still read SMTPSenderRefused, another SMTPException; smtplib closes then.
Sendmail(try, onDisconnect) ==
  /\ In("email", try)
  /\ \/ smtp = "open" /\ Succeed /\ UNCHANGED smtp
     \/ smtp = "open" /\ Fail(TRUE) /\ UNCHANGED smtp
     \/ smtp = "open" /\ LoseReply(onDisconnect) /\ smtp' = "dead"
     \/ smtp = "farewell" /\ Fail(FALSE) /\ smtp' = "dead"
     \/ /\ smtp \in {"dead", "farewell"}
        /\ IF onDisconnect = "returned" THEN Fail(FALSE) ELSE Goto(onDisconnect)
        /\ smtp' = "dead"
  /\ UNCHANGED <<mailServer, goodbye>>

EmailNext ==
  \/ MailServerStops \/ MailServerStarts \/ MailServerDisconnects
  \/ CallEmail \/ CreateMsg \/ ConnectOnce \/ Reconnect
  \/ Sendmail("first", "reconnect") \/ Sendmail("second", "returned")
=============================================================================

--------------------------- MODULE MCNotificationOutbox ---------------------------
(* A TLC instance of NotificationOutbox alone; MCServices has the other one.        *)
EXTENDS NotificationOutbox

\* Incident emails.
WithEmail == {{"SMTP_HOST", "EMAIL_TO"}}
=============================================================================

----------------------- MODULE MCNotificationService -----------------------
(***************************************************************************)
(* An instance of NotificationService for TLC: a welcome mail, a receipt   *)
(* for a recipient that bounces, a text message, a request that lacks a    *)
(* field and one whose type is not in the schema.                          *)
(***************************************************************************)
EXTENDS NotificationService

CONSTANTS welcome, receipt, text, partial, misspelt

MCChannel == [r \in Requests |-> IF r = text THEN "SMS" ELSE "EMAIL"]
=============================================================================

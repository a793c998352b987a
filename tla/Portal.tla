--------------------------------- MODULE Portal ---------------------------------
(***************************************************************************)
(* The request handlers of the portal: forms, news and QA settings.  The   *)
(* three share no table, so a behaviour is of one of them; what they share *)
(* is the requests in flight.                                              *)
(***************************************************************************)
EXTENDS FormRecords, NewsCache, QaSettings

VARIABLE area

vars == <<flight, formVars, newsVars, settingsVars, area>>

Init ==
  /\ area \in {"forms", "news", "settings"}
  /\ FlightInit /\ FormsInit /\ NewsInit /\ SettingsInit

Next ==
  /\ UNCHANGED area
  /\ \/ area = "forms" /\ FormsNext /\ UNCHANGED <<newsVars, settingsVars>>
     \/ area = "news" /\ NewsNext /\ UNCHANGED <<formVars, settingsVars>>
     \/ area = "settings" /\ SettingsNext /\ UNCHANGED <<formVars, newsVars>>

\* The one fairness: what has a time to live expires.
Spec == Init /\ [][Next]_vars /\ WF_cache(\E k \in DOMAIN cache : Expire(k))

\* The types, and what holds of the handlers whichever interleave: a form's records are of
\* a form that was, a reply is to a comment that is there, and one retroactive job runs.
PortalTypeOK == FlightTypeOK /\ FormsTypeOK /\ NewsTypeOK /\ SettingsTypeOK
=============================================================================

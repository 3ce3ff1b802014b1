---------------------------- MODULE SessionStages ----------------------------
(***************************************************************************)
(* The stages of a device session, as the DeviceLinkManager can tell them  *)
(* apart, and the order they follow each other in.                         *)
(***************************************************************************)

\* Discovered is a session before its first connect, Resolved one that has
\* announced its canonical identity and is listing entities, Refused one that
\* reported Backoff for an import it refused and is about to report Active.
Stages == {"Discovered", "Connecting", "Handshaking", "Resolved", "Refused",
           "Active", "Backoff", "UnsupportedAuth", "Stopped"}

Final == {"UnsupportedAuth", "Stopped"}

\* A connect or a subscription under way is not interrupted; any other stage
\* can be stopped, dropped back to Backoff or restarted by a late Reconnect.
Follows == [s \in Stages |->
    CASE s = "Discovered"  -> {"Connecting", "Stopped"}
      [] s = "Connecting"  -> {"Handshaking", "Backoff"}
      [] s = "Handshaking" -> {"Resolved", "UnsupportedAuth", "Backoff",
                               "Connecting", "Stopped"}
      [] s = "Resolved"    -> {"Active", "Refused", "Backoff", "Connecting",
                               "Stopped"}
      [] s = "Refused"     -> {"Active"}
      [] s = "Active"      -> {"Backoff", "Connecting", "Stopped"}
      [] s = "Backoff"     -> {"Connecting", "Backoff", "Stopped"}
      [] OTHER             -> {}]
=============================================================================

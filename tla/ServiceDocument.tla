-------------------------- MODULE ServiceDocument --------------------------
(***************************************************************************)
(* What packages/loop-deploy/src/deployer.ts promises of the service       *)
(* definition the operators run: each loop edits it atomically, an edit is *)
(* reported once the operators can see it, and nothing else changes it.    *)
(***************************************************************************)
CONSTANTS
    Workflows,      \* workflow ids
    Preinstalled    \* workflows of the first document

VARIABLES
    doc,        \* the workflows the operators run
    added,      \* workflows whose installation was reported
    leaving,    \* workflows whose removal was asked for
    removed     \* workflows whose removal was reported

vars == <<doc, added, leaving, removed>>

Init ==
    /\ doc = Preinstalled
    /\ added = Preinstalled /\ leaving = {} /\ removed = {}

Install(w) ==
    /\ w \notin doc \cup added
    /\ doc' = doc \cup {w}
    /\ UNCHANGED <<added, leaving, removed>>

ReportInstalled(w) ==
    /\ w \in doc \ added
    /\ added' = added \cup {w}
    /\ UNCHANGED <<doc, leaving, removed>>

AskRemoval(w) ==
    /\ w \in added \ leaving
    /\ leaving' = leaving \cup {w}
    /\ UNCHANGED <<doc, added, removed>>

Uninstall(w) ==
    /\ w \in doc \cap leaving
    /\ doc' = doc \ {w}
    /\ UNCHANGED <<added, leaving, removed>>

ReportRemoved(w) ==
    /\ w \in leaving \ (doc \cup removed)
    /\ removed' = removed \cup {w}
    /\ UNCHANGED <<doc, added, leaving>>

Next ==
    \E w \in Workflows :
        Install(w) \/ ReportInstalled(w) \/ AskRemoval(w) \/ Uninstall(w) \/ ReportRemoved(w)

Spec == Init /\ [][Next]_vars

=============================================================================

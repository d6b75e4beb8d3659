----------------------------- MODULE Replacement -----------------------------
(***************************************************************************)
(* What the component updaters promise, without scripts, files being       *)
(* copied or retries: of an installation, its backup and the archive of a  *)
(* new version one is whole at any time.  The parts of a version are its   *)
(* entries; a thing that is not whole is Nothing.                          *)
(***************************************************************************)
EXTENDS Naturals

CONSTANTS
    Parts,      \* the entries of an installation
    Nothing,    \* no whole version here
    NoNews      \* no new version at hand

VARIABLES
    live,    \* what is installed: the version of each part, or Nothing
    saved,   \* the backup, likewise
    news,    \* the new version that can be installed, or NoNews
    latest,  \* the last version published
    lost     \* the new version went while nothing was installed

vars == <<live, saved, news, latest, lost>>

Init ==
    /\ live = [p \in Parts |-> 1] /\ saved = Nothing
    /\ news = NoNews /\ latest = 1 /\ lost = FALSE

\* A version is published, for some of the parts; it may be of no use.
Publish ==
    /\ news = NoNews
    /\ latest' = latest + 1
    /\ news' # NoNews => /\ news'.version = latest'
                         /\ news'.files # {} /\ news'.files \subseteq Parts
    /\ UNCHANGED <<live, saved, lost>>

\* The new version is installed, given up, or taken away.
Withdraw ==
    /\ news # NoNews /\ news' = NoNews
    /\ lost' = (lost \/ live = Nothing)
    /\ UNCHANGED <<live, saved, latest>>

\* The backup goes only with a new version at hand.
DropSaved ==
    /\ news # NoNews
    /\ saved' = Nothing
    /\ UNCHANGED <<live, news, latest, lost>>

Save ==
    /\ news # NoNews /\ live # Nothing
    /\ saved' = live
    /\ UNCHANGED <<live, news, latest, lost>>

\* What is taken away is in the backup.
TakeAway ==
    /\ news # NoNews /\ live # Nothing
    /\ live' = Nothing /\ saved' = live
    /\ UNCHANGED <<news, latest, lost>>

\* Where nothing was, all parts are of the new version.
InstallAll ==
    /\ news # NoNews /\ live = Nothing /\ news.files = Parts
    /\ live' = [p \in Parts |-> news.version]
    /\ UNCHANGED <<saved, news, latest, lost>>

\* A part is replaced on the spot when the old one is in the backup.
InstallPart ==
    /\ news # NoNews /\ live # Nothing /\ saved # Nothing
    /\ \E p \in news.files :
          /\ saved[p] = live[p]
          /\ live' = [live EXCEPT ![p] = news.version]
    /\ UNCHANGED <<saved, news, latest, lost>>

\* Where nothing is the backup returns.
Restore ==
    /\ live = Nothing
    /\ live' = saved /\ saved' = Nothing
    /\ UNCHANGED <<news, latest, lost>>

Next == Publish \/ Withdraw \/ DropSaved \/ Save \/ TakeAway \/ InstallAll \/ InstallPart \/ Restore

Spec == Init /\ [][Next]_vars

=============================================================================

------------------------ MODULE ManuscriptProperties ------------------------
(***************************************************************************)
(* What the program promises about the text of a chapter.                  *)
(***************************************************************************)
EXTENDS Manuscript

\* A task puts its text into the chapter by its own consent.
PlacedBy(t) == placed'[t] # placed[t]

\* generate, prepareInternal, assertCompilationSource: a version is stored only
\* while the chapter still holds the text, and the compiler the sources, that
\* the task took when it first read them, however often it was interrupted.
VersionIsOfTheTextSeen ==
  [][\A g \in Gen : version[g] = "none" /\ version'[g] # "none"
       => chapter.content = seen[g] /\ ckpt[g].fence = Here]_msVars

\* finalizePersistedVersion, applyRecoveredRevision: what a resumed task was
\* once allowed to publish never replaces a text that the chapter got since.
RecoveryKeepsLaterText ==
  [][\A t \in Task : PlacedBy(t) /\ exec[t].pc = "begin"
       => chapter.content = ckpt[t].fence.text]_msVars

\* The key of an interrupted task stays taken, so while a stored version is
\* not finished nobody can store a newer one: what finalizePersistedVersion
\* publishes is never older than what the review page shows.
UnfinishedIsNewest ==
  \A g \in Gen : version[g] # "none" /\ status[g] \in {"active", "stranded"}
    => Newest(order) = g

\* A generation that reports auto_confirmed leaves the chapter with its text,
\* whoever approved the version and whatever was published meanwhile.
ToldIsTrue ==
  [][\A g \in Gen : ~told[g] /\ told'[g] => Shows(g) /\ adopted = g]_msVars

\* finishFromExistingRevision: a polish task whose program died around
\* auto_apply puts its text into the chapter once, and not again over what the
\* user chose afterwards.  (It may when a second crash cuts the user's own
\* applyRevision, which is two commits, between the row and is_current.)
AppliedOnce == torn \/ \A t \in Task : placed[t] <= 1
=============================================================================

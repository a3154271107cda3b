------------------------------- MODULE Records -------------------------------
(***************************************************************************)
(* What is administered and filed, side by side: tenants, an external      *)
(* system, and drafts with their types and forms.  They share no state.    *)
(***************************************************************************)
EXTENDS Tenants, Integration, Drafts

\* A change that comes late meets what it was decided from: an edit does not
\* turn a system on again, a link names what is live, and the bindings that are
\* replaced are those that were read.
ChangesStartFromWhatIs ==
    /\ OnlyActivationRevives
    /\ LinkedToTheLive
    /\ ReplacesWhatWasRead
=============================================================================

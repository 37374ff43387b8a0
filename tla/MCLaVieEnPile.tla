--------------------------- MODULE MCLaVieEnPile ---------------------------
(***************************************************************************)
(* LaVieEnPile on a few apps.  The history variable winner is the app the  *)
(* last activation has put on top, as long as nothing but activations and  *)
(* continuations happened since the system was quiet; it influences no     *)
(* step.                                                                   *)
(***************************************************************************)
EXTENDS LaVieEnPile

VARIABLE winner

MCInit == Init /\ winner = Null

MCActivate ==
    \E a \in Apps, form \in Forms, carrierId \in Carriers \cup {Null} :
        /\ ActivateAppById(a, form, carrierId)
        /\ winner' = IF Quiet \/ winner # Null THEN a ELSE Null

MCContinue == (\E c \in Calls : Run(c)) /\ UNCHANGED winner

MCOther == (Request \/ Process) /\ winner' = Null

MCSpec == MCInit /\ [][MCActivate \/ MCContinue \/ MCOther]_<<vars, winner>>

\* Of activations that overlap the last one wins: its app is on top when they
\* have settled.
LastActivationWins == Quiet /\ winner # Null => Current(life) = winner

-----------------------------------------------------------------------------
\* For liveness: the calls that can put an app back or take it off while it is
\* being destroyed, under the fairness of LaVieEnPile.
MCLiveNext ==
    \/ \E a \in Apps :
          \/ ActivateAppById(a, "cut", Null) \/ ExitAppById(a, FALSE)
          \/ Create(a) \/ Created(a) \/ EndOfLife(a, FALSE)
    \/ \E c \in Calls : Run(c)

MCLiveSpec == MCInit /\ [][MCLiveNext /\ UNCHANGED winner]_<<vars, winner>> /\ Fairness
=============================================================================

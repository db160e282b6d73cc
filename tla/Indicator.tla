----------------------------- MODULE Indicator -----------------------------
(***************************************************************************)
(* The indicator task of components/board/board_io.c.  Any task calls      *)
(* board_indicate(), a single atomic store; indicator_task loads the       *)
(* pattern, shows it, and, after a pattern that is an event, stores the    *)
(* resting pattern it last showed.                                         *)
(***************************************************************************)

CONSTANT NotPlaying  \* no pattern is being shown: the task is at the top of its loop

RestingPatterns == {"IND_IDLE", "IND_ARMED_READ", "IND_ARMED_WRITE"}
EventPatterns   == {"IND_GRANT", "IND_DENY", "IND_WROTE_OK", "IND_ERROR"}
Patterns        == {"IND_OFF"} \cup RestingPatterns \cup EventPatterns

ASSUME NotPlayingAssumption == NotPlaying \notin Patterns

VARIABLES
    pattern,    \* s_pattern, the request shared by every task
    resting,    \* s_resting, private to the indicator task
    playing     \* the pattern the indicator task loaded, or NotPlaying

indVars == <<pattern, resting, playing>>

IndTypeOK ==
    /\ pattern \in Patterns
    /\ resting \in RestingPatterns
    /\ playing \in Patterns \cup {NotPlaying}

IndInit ==
    /\ pattern = "IND_OFF"
    /\ resting = "IND_IDLE"
    /\ playing = NotPlaying

\* The atomic store; what a caller leaves to the indicator task is unchanged.
board_indicate(p) ==
    /\ pattern' = p
    /\ UNCHANGED <<resting, playing>>

\* Top of the loop: load the pattern; the case of a resting pattern records it.
IndLoad ==
    /\ playing = NotPlaying
    /\ playing' = pattern
    /\ resting' = IF pattern \in RestingPatterns THEN pattern ELSE resting
    /\ UNCHANGED pattern

\* The delay of IND_OFF or of a resting pattern ends.
IndShown ==
    /\ playing \in RestingPatterns \cup {"IND_OFF"}
    /\ playing' = NotPlaying
    /\ UNCHANGED <<pattern, resting>>

\* Defect: the event pattern is not replaced when it has been played.
IndRevert_Keeps ==
    /\ playing \in EventPatterns
    /\ playing' = NotPlaying
    /\ UNCHANGED <<pattern, resting>>

\* play_grant(), play_deny(), ... returns: the case stores s_resting.
IndRevert ==
    /\ playing \in EventPatterns
    /\ pattern' = resting
    /\ playing' = NotPlaying
    /\ UNCHANGED resting

IndNext == IndLoad \/ IndShown \/ IndRevert
=============================================================================

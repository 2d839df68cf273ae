\* Two actors, two receivers; a clock that outlasts a snooze and a deadline.
SPECIFICATION FairSpec
CONSTANTS
    Actors = {a1, a2}
    Receivers = {r1, r2}
    Choices = {"Snoozed", "Resolved"}
    Snoozes = {1}
    ResponseTime = 0
    MaxTime = 3
    MaxWork = 3
    MaxFaults = 1
INVARIANTS
    SurveyOnce
    VerdictsAreDue
PROPERTIES
    SnoozeEnds
    EventsAreJudged
CHECK_DEADLOCK FALSE
